----------------------------- MODULE AdSlots_proofs -----------------------------
(* The auction of advertising slots, for any slots, players and faults.    *)
EXTENDS AdSlots, FiniteSetTheorems, TLAPS

(* What an outbid does to the types, and the coins it leaves.              *)
LEMMA BidTypes ==
  ASSUME TypeOK, LeadsKept, NEW u \in Users, NEW s \in Slots, NEW amount \in Amounts,
         BidAdSlot(u, s, amount)
  PROVE  /\ wallet' \in [Users -> Nat] /\ posted' \in [Users -> Int]
         /\ booked' \in [Slots -> [Users -> Int]]
         /\ LeadsKept'
<1> DEFINE change(x) == (IF x = holder[s] THEN paid[s] ELSE 0) - (IF x = u THEN amount ELSE 0)
<1>1. amount \in Nat /\ paid[s] \in Nat /\ Reserved \in [Users -> Nat]
  BY SlotAssumption DEF TypeOK
<1>2. \A x \in Users : change(x) \in Int
  BY <1>1
<1>3. /\ wallet' = [x \in Users |-> wallet[x] + change(x)]
      /\ posted' = [x \in Users |-> posted[x] + change(x)]
      /\ booked' = [booked EXCEPT ![s] = [x \in Users |-> booked[s][x] + change(x)]]
  BY DEF BidAdSlot, MoveCoins
<1>4. wallet \in [Users -> Nat] /\ posted \in [Users -> Int] /\ booked \in [Slots -> [Users -> Int]]
  BY DEF TypeOK
<1>5. \A x \in Users : wallet[x] + change(x) >= Reserved[x]
  <2>1. amount <= wallet[u] + (IF holder[s] = u THEN paid[s] ELSE 0) - Reserved[u]
    BY DEF BidAdSlot, Spendable
  <2>2. \A x \in Users : wallet[x] >= Reserved[x]
    BY DEF LeadsKept
  <2> QED BY <1>1, <1>4, <2>1, <2>2
<1>6. \A x \in Users : wallet[x] + change(x) \in Nat
  BY <1>1, <1>2, <1>4, <1>5
<1>7. wallet' \in [Users -> Nat] /\ LeadsKept'
  BY <1>3, <1>5, <1>6 DEF LeadsKept
<1>8. posted' \in [Users -> Int]
  <2>1. \A x \in Users : posted[x] + change(x) \in Int
    BY <1>2, <1>4
  <2> HIDE DEF change
  <2> QED BY <1>3, <2>1
<1>9. booked' \in [Slots -> [Users -> Int]]
  <2>1. \A x \in Users : booked[s][x] + change(x) \in Int
    BY <1>2, <1>4
  <2> HIDE DEF change
  <2> QED BY <1>3, <1>4, <2>1
<1> QED BY <1>7, <1>8, <1>9

LEMMA RefundTypes ==
  ASSUME TypeOK, LeadsKept, NEW row \in SlotRow, RefundRow(row)
  PROVE  /\ status' \in [Slots -> SlotStatuses]
         /\ wallet' \in [Users -> Nat] /\ posted' \in [Users -> Int]
         /\ booked' \in [Slots -> [Users -> Int]]
         /\ LeadsKept'
<1>1. row.slot \in Slots /\ row.user \in Users /\ row.paid \in Nat
  BY DEF SlotRow
<1>2. CASE status[row.slot] # "OPEN"
  BY <1>2 DEF RefundRow, TypeOK, LeadsKept, coins
<1>3. CASE status[row.slot] = "OPEN"
  <2>1. /\ status' = [status EXCEPT ![row.slot] = "REFUNDED"]
        /\ wallet' = [wallet EXCEPT ![row.user] = @ + row.paid]
        /\ posted' = [posted EXCEPT ![row.user] = @ + row.paid]
        /\ booked' = [booked EXCEPT ![row.slot][row.user] = @ + row.paid]
    BY <1>3 DEF RefundRow
  <2>2. wallet' \in [Users -> Nat] /\ posted' \in [Users -> Int]
    BY <1>1, <2>1 DEF TypeOK
  <2>3. booked' \in [Slots -> [Users -> Int]]
    BY <1>1, <2>1 DEF TypeOK
  <2>4. status' \in [Slots -> SlotStatuses]
    BY <1>1, <2>1 DEF TypeOK, SlotStatuses
  <2>5. LeadsKept'
    <3>1. \A x \in Users : wallet'[x] >= wallet[x]
      BY <1>1, <2>1 DEF TypeOK
    <3>2. \A x \in Users : wallet'[x] \in Nat /\ wallet[x] \in Nat /\ Reserved[x] \in Nat
      BY <2>2, SlotAssumption DEF TypeOK
    <3> QED BY <3>1, <3>2 DEF LeadsKept
  <2> QED BY <2>2, <2>3, <2>4, <2>5
<1> QED BY <1>2, <1>3

LEMMA UndeliveredTypes ==
  ASSUME TypeOK, NEW at PROVE Undelivered(at) \subseteq SlotRow
  BY DEF TypeOK, Undelivered, SlotRow, Sold

LEMMA IdlePushType == IdlePush.at = "idle" /\ IdlePush.slot = NoSlot
  BY DEF IdlePush

AllTypes == TypeOK /\ LeadsKept

LEMMA AllTypesNext == AllTypes /\ [Next]_vars => AllTypes'
<1> SUFFICES ASSUME TypeOK, LeadsKept, [Next]_vars PROVE TypeOK' /\ LeadsKept'
  BY DEF AllTypes
<1> USE DEF rows, coins, contest, sender, history
<1>0. wallet' = wallet => LeadsKept'
  BY DEF LeadsKept
<1>1. ASSUME NEW v \in Viewers, EnsureReads(v) \/ EnsureCreates(v)
      PROVE  TypeOK' /\ LeadsKept'
  BY <1>0, <1>1 DEF TypeOK, EnsureReads, EnsureCreates, Wanted, SlotStatuses
<1>2. ASSUME NEW u \in Users, NEW s \in Slots, NEW amount \in Amounts, BidAdSlot(u, s, amount)
      PROVE  TypeOK' /\ LeadsKept'
  <2>1. holder' \in [Slots -> Users \cup {NoUser}] /\ paid' \in [Slots -> Nat]
    BY <1>2, SlotAssumption DEF TypeOK, BidAdSlot
  <2> QED BY <1>2, <2>1, BidTypes DEF TypeOK, BidAdSlot
<1>3. ASSUME BeginTick \/ OrganiserCloses PROVE TypeOK' /\ LeadsKept'
  <2>1. ending' \in [Enders -> Endings]
    <3>1. \A e \in Enders : [ending[e] EXCEPT !.at = "closed"] \in Endings
      BY DEF TypeOK, Endings
    <3>2. \/ ending' = ending
          \/ \E e \in Enders : ending' = [ending EXCEPT ![e] = [ending[e] EXCEPT !.at = "closed"]]
      BY <1>3 DEF BeginTick, OrganiserCloses, Close, Enders
    <3> QED BY <3>1, <3>2 DEF TypeOK
  <2>2. overtaken' \subseteq Slots
    BY <1>3 DEF TypeOK, BeginTick, OrganiserCloses, Close
  <2> QED BY <1>0, <1>3, <2>1, <2>2 DEF TypeOK, BeginTick, OrganiserCloses, Close, Ticks
<1>4. ASSUME TickHasClosed \/ TickReadsPhase \/ EndTick PROVE TypeOK' /\ LeadsKept'
  BY <1>0, <1>4 DEF TypeOK, TickHasClosed, TickReadsPhase, EndTick, Ticks
<1>5. CASE ReadDueSlots
  <2>1. DueSlots \subseteq Slots
    BY SlotAssumption DEF DueSlots
  <2> QED BY <1>0, <1>5, <2>1 DEF TypeOK, ReadDueSlots, Ticks
<1>6. ASSUME NEW s \in Slots, MarkPush(s) PROVE TypeOK' /\ LeadsKept'
  BY SMTT(30), <1>0, <1>6 DEF TypeOK, MarkPush, Marks
<1>7. CASE ClaimPush
  <2>1. push \in [at : {"marked", "claimed"}, slot : Slots]
    BY <1>7 DEF TypeOK, ClaimPush, IdlePush
  <2>2. /\ push' \in {IdlePush} \cup [at : {"marked", "claimed"}, slot : Slots]
        /\ mark' \in [Slots -> Marks] /\ due' \subseteq Slots
    BY <1>7, <2>1 DEF TypeOK, ClaimPush, Marks
  <2> QED BY <1>0, <1>7, <2>2 DEF TypeOK, ClaimPush
<1>8. ASSUME SendPush \/ SendPushFails PROVE TypeOK' /\ LeadsKept'
  <2>1. push.slot \in Slots
    BY <1>8 DEF TypeOK, SendPush, SendPushFails, IdlePush
  <2>2. due' \subseteq Slots
    BY <1>8 DEF TypeOK, SendPush, SendPushFails
  <2>3. CASE SendPush
    <3>1. sent' \in [Slots -> Nat] /\ push' = IdlePush
      BY <2>1, <2>3 DEF TypeOK, SendPush
    <3>2. mark' \in [Slots -> Marks]
      BY <2>1, <2>3 DEF TypeOK, SendPush, Marks
    <3> QED BY <1>0, <2>2, <2>3, <3>1, <3>2 DEF TypeOK, SendPush
  <2>4. CASE SendPushFails
    <3>1. dropped' \subseteq Slots /\ push' = IdlePush /\ failures' \in Nat
      BY <2>1, <2>4 DEF TypeOK, SendPushFails
    <3> QED BY <1>0, <2>2, <2>4, <3>1 DEF TypeOK, SendPushFails
  <2> QED BY <1>8, <2>3, <2>4
<1>9. ASSUME NEW e \in Enders, NEW row \in todo[e], RefundAdSlot(e, row)
      PROVE  TypeOK' /\ LeadsKept'
  <2>1. row \in SlotRow
    BY <1>9 DEF TypeOK
  <2>2. todo' \in [Enders -> SUBSET SlotRow]
    BY <1>9 DEF TypeOK, RefundAdSlot
  <2> QED BY <1>9, <2>1, <2>2, RefundTypes DEF TypeOK, RefundAdSlot
<1>10. ASSUME NEW e \in Enders, NEW row \in todo[e], RefundFails(e, row)
       PROVE  TypeOK' /\ LeadsKept'
  BY <1>0, <1>10 DEF TypeOK, RefundFails
<1>11. CASE RetryAdSlotRefunds
  BY <1>0, <1>11, UndeliveredTypes DEF TypeOK, RetryAdSlotRefunds, Ticks, Enders
<1>12. CASE EndContest
  <2>1. ending' \in [Enders -> Endings]
    BY <1>12 DEF TypeOK, EndContest, Endings, Enders
  <2> QED BY <1>0, <1>12, <2>1 DEF TypeOK, EndContest
<1>13. ASSUME NEW e \in Enders, EnderStep(e) PROVE TypeOK' /\ LeadsKept'
  <2>1. ending' \in [Enders -> Endings]
    BY <1>13 DEF TypeOK, EnderStep, WriteClosedAt, WriteClosedAtFails, EnderReadsSlots,
           EnderHasRefunded, Endings
  <2>2. todo' \in [Enders -> SUBSET SlotRow]
    BY <1>13, UndeliveredTypes
       DEF TypeOK, EnderStep, WriteClosedAt, WriteClosedAtFails, EnderReadsSlots, EnderHasRefunded
  <2> QED BY <1>0, <1>13, <2>1, <2>2
          DEF TypeOK, EnderStep, WriteClosedAt, WriteClosedAtFails, EnderReadsSlots, EnderHasRefunded
<1>14. ASSUME NEW t \in Teams, SetSubmitted(t) PROVE TypeOK' /\ LeadsKept'
  BY <1>0, <1>14 DEF TypeOK, SetSubmitted
<1>15. ASSUME SetAdSlots \/ AdvanceClock PROVE TypeOK' /\ LeadsKept'
  <2>1. now' \in Nat
    BY <1>15 DEF TypeOK, SetAdSlots, AdvanceClock
  <2>2. slotsOpen' \in BOOLEAN
    BY <1>15 DEF TypeOK, SetAdSlots, AdvanceClock
  <2> QED BY <1>0, <1>15, <2>1, <2>2 DEF TypeOK, SetAdSlots, AdvanceClock
<1>16. CASE Restart
  <2>1. ending' \in [Enders -> Endings]
    BY <1>16 DEF TypeOK, Restart, Endings
  <2>2. dropped' \subseteq Slots
    BY <1>16 DEF TypeOK, Restart, IdlePush
  <2> QED BY <1>0, <1>16, <2>1, <2>2 DEF TypeOK, Restart, Ticks
<1>17. CASE UNCHANGED vars
  BY <1>0, <1>17 DEF TypeOK, vars
<1> QED BY <1>1, <1>2, <1>3, <1>4, <1>5, <1>6, <1>7, <1>8, <1>9, <1>10, <1>11, <1>12,
           <1>13, <1>14, <1>15, <1>16, <1>17 DEF Next, SchedulerStep, RefundStep

LEMMA AllTypesInit == Init => AllTypes
<1> SUFFICES ASSUME Init PROVE TypeOK /\ LeadsKept
  BY DEF AllTypes
<1>1. LeadsKept
  BY SlotAssumption DEF Init, LeadsKept
<1>2. ending \in [Enders -> Endings]
  BY DEF Init, Endings
<1>3. /\ wallet \in [Users -> Nat] /\ booked \in [Slots -> [Users -> Int]]
      /\ posted \in [Users -> Int]
  BY SlotAssumption DEF Init
<1> QED BY <1>1, <1>2, <1>3 DEF Init, TypeOK, SlotStatuses, Marks, Ticks

(* Types are kept, for any number of slots, players, visitors and faults.  *)
THEOREM SlotTypeCorrect == Spec => []TypeOK
<1>1. AllTypes => TypeOK
  BY DEF AllTypes
<1> QED BY <1>1, AllTypesInit, AllTypesNext, PTL DEF Spec

(* Bidding for slots never takes the coins of a leading auction bid: the   *)
(* wallet of a user keeps what reservedBuyCoins reserves.                  *)
THEOREM SlotLeadsKept == Spec => []LeadsKept
<1>1. AllTypes => LeadsKept
  BY DEF AllTypes
<1> QED BY <1>1, AllTypesInit, AllTypesNext, PTL DEF Spec
--------------------------------------------------------------------------------
(* Why the price behind a slot is paid back at most once.  A row that is   *)
(* to be paid back still says what the slot says, because nobody bids once *)
(* the contest is closed.                                                  *)

UnsoldUntilMade == \A s \in Slots : status[s] = "NONE" => ~Sold(s)

RefundsAfterClose ==
  /\ tick = "closed" => phase = "CLOSED"
  /\ \A e \in Enders : ending[e].at \in {"closed", "dated"} => phase = "CLOSED"
  /\ \A e \in Enders : todo[e] # {} => phase = "CLOSED"

RowsCurrent ==
  \A e \in Enders : \A row \in todo[e] :
    /\ row.user = holder[row.slot] /\ row.paid = paid[row.slot]
    /\ row.slot \in Slots /\ row.user \in Users

MoneyInv == UnsoldUntilMade /\ RefundsAfterClose /\ RowsCurrent /\ HolderPaid

(* The rows read for a pass are current.                                   *)
LEMMA UndeliveredRows ==
  ASSUME TypeOK, NEW at, NEW row \in Undelivered(at)
  PROVE  /\ row.user = holder[row.slot] /\ row.paid = paid[row.slot]
         /\ row.slot \in Slots /\ row.user \in Users
         /\ row.slot \in PushSlots => mark[row.slot] # "sent"
  BY DEF TypeOK, Undelivered, Sold, IsAdSlotDelivered

(* A step that leaves the slots, the rows to pay back and their books.     *)
LEMMA QuietMoney ==
  ASSUME MoneyInv, UNCHANGED <<status, holder, paid, booked, todo>>,
         RefundsAfterClose'
  PROVE  MoneyInv'
  BY DEF MoneyInv, UnsoldUntilMade, RowsCurrent, HolderPaid, Sold

LEMMA MoneyInvNext == TypeOK /\ MoneyInv /\ [Next]_vars => MoneyInv'
<1> SUFFICES ASSUME TypeOK, MoneyInv, [Next]_vars PROVE MoneyInv'
  OBVIOUS
<1> USE DEF rows, coins, contest, sender, history
<1>1. ASSUME NEW v \in Viewers, EnsureReads(v) PROVE MoneyInv'
  BY <1>1, QuietMoney DEF EnsureReads, MoneyInv, RefundsAfterClose
<1>2. ASSUME NEW v \in Viewers, EnsureCreates(v) PROVE MoneyInv'
  <2>1. \A s \in Slots : status'[s] = status[s] \/ (status[s] = "NONE" /\ status'[s] = "OPEN")
    BY <1>2 DEF TypeOK, EnsureCreates
  <2>2. UnsoldUntilMade'
    BY <1>2, <2>1 DEF EnsureCreates, MoneyInv, UnsoldUntilMade, Sold
  <2>3. HolderPaid'
    BY <1>2, <2>1, SlotAssumption DEF EnsureCreates, MoneyInv, UnsoldUntilMade, HolderPaid, Sold
  <2> QED BY <1>2, <2>2, <2>3 DEF EnsureCreates, MoneyInv, RefundsAfterClose, RowsCurrent
<1>3. ASSUME NEW u \in Users, NEW s \in Slots, NEW amount \in Amounts, BidAdSlot(u, s, amount)
      PROVE  MoneyInv'
  <2>1. phase = "LIVE" /\ status[s] = "OPEN"
    BY <1>3 DEF BidAdSlot, ContestOver, TypeOK
  <2>2. \A e \in Enders : todo[e] = {} /\ todo'[e] = {}
    <3>1. todo' = todo
      BY <1>3 DEF BidAdSlot
    <3>2. RefundsAfterClose
      BY DEF MoneyInv
    <3> QED BY <2>1, <3>1, <3>2 DEF RefundsAfterClose
  <2>3. RowsCurrent'
    BY <2>2 DEF RowsCurrent
  <2>4. UnsoldUntilMade'
    BY <1>3, <2>1 DEF BidAdSlot, MoneyInv, UnsoldUntilMade, Sold, TypeOK
  <2>5. HolderPaid'
    <3> DEFINE change(x) == (IF x = holder[s] THEN paid[s] ELSE 0) - (IF x = u THEN amount ELSE 0)
    <3>1. /\ booked' = [booked EXCEPT ![s] = [x \in Users |-> booked[s][x] + change(x)]]
          /\ holder' = [holder EXCEPT ![s] = u] /\ paid' = [paid EXCEPT ![s] = amount]
          /\ status' = status
      BY <1>3 DEF BidAdSlot, MoveCoins
    <3>2. ASSUME NEW x \in Users
          PROVE booked'[s][x] = IF holder'[s] = x /\ status'[s] = "OPEN" THEN - paid'[s] ELSE 0
      <4>1. booked[s][x] = IF holder[s] = x THEN - paid[s] ELSE 0
        BY <2>1 DEF MoneyInv, HolderPaid
      <4>2. booked'[s][x] = booked[s][x] + change(x) /\ holder'[s] = u /\ paid'[s] = amount
        BY <3>1 DEF TypeOK
      <4>3. amount \in Nat /\ paid[s] \in Nat
        BY SlotAssumption DEF TypeOK
      <4> QED BY <2>1, <3>1, <4>1, <4>2, <4>3
    <3>3. ASSUME NEW q \in Slots, q # s
          PROVE  booked'[q] = booked[q] /\ holder'[q] = holder[q] /\ paid'[q] = paid[q]
      BY <3>1, <3>3 DEF TypeOK
    <3> QED BY <3>1, <3>2, <3>3 DEF MoneyInv, HolderPaid
  <2> QED BY <1>3, <2>2, <2>3, <2>4, <2>5 DEF BidAdSlot, MoneyInv, RefundsAfterClose
<1>4. ASSUME BeginTick \/ OrganiserCloses PROVE MoneyInv'
  <2>1. UNCHANGED <<status, holder, paid, booked, todo>>
    BY <1>4 DEF BeginTick, OrganiserCloses
  <2>2. RefundsAfterClose'
    BY <1>4 DEF BeginTick, OrganiserCloses, Close, MoneyInv, RefundsAfterClose
  <2> QED BY <2>1, <2>2, QuietMoney
<1>5. ASSUME TickHasClosed \/ TickReadsPhase \/ EndTick \/ ReadDueSlots PROVE MoneyInv'
  BY <1>5, QuietMoney DEF TickHasClosed, TickReadsPhase, EndTick, ReadDueSlots, MoneyInv, RefundsAfterClose
<1>6. ASSUME NEW s \in Slots, MarkPush(s) PROVE MoneyInv'
  BY <1>6, QuietMoney DEF MarkPush, MoneyInv, RefundsAfterClose
<1>7. ASSUME ClaimPush \/ SendPush \/ SendPushFails PROVE MoneyInv'
  BY <1>7, QuietMoney DEF ClaimPush, SendPush, SendPushFails, MoneyInv, RefundsAfterClose
<1>8. ASSUME NEW e \in Enders, NEW row \in todo[e], RefundAdSlot(e, row) PROVE MoneyInv'
  <2>1. todo' = [todo EXCEPT ![e] = @ \ {row}]
    BY <1>8 DEF RefundAdSlot
  <2>2. RefundsAfterClose' /\ RowsCurrent'
    BY <1>8, <2>1 DEF RefundAdSlot, MoneyInv, RefundsAfterClose, RowsCurrent, TypeOK
  <2>3. CASE status[row.slot] # "OPEN"
    BY <1>8, <2>2, <2>3
       DEF RefundAdSlot, RefundRow, MoneyInv, UnsoldUntilMade, HolderPaid, Sold
  <2>4. CASE status[row.slot] = "OPEN"
    <3>1. /\ status' = [status EXCEPT ![row.slot] = "REFUNDED"]
          /\ booked' = [booked EXCEPT ![row.slot][row.user] = @ + row.paid]
          /\ UNCHANGED <<holder, paid>>
      BY <1>8, <2>4 DEF RefundAdSlot, RefundRow
    <3>2. /\ row.user = holder[row.slot] /\ row.paid = paid[row.slot]
          /\ row.slot \in Slots /\ row.user \in Users
      BY DEF MoneyInv, RowsCurrent
    <3>3. UnsoldUntilMade'
      BY <3>1, <3>2 DEF MoneyInv, UnsoldUntilMade, Sold, TypeOK
    <3>4. ASSUME NEW s \in Slots, NEW u \in Users
          PROVE  booked'[s][u] = IF holder'[s] = u /\ status'[s] = "OPEN" THEN - paid'[s] ELSE 0
      <4>1. booked[s][u] = IF holder[s] = u /\ status[s] = "OPEN" THEN - paid[s] ELSE 0
        BY DEF MoneyInv, HolderPaid
      <4>2. CASE s # row.slot
        BY <3>1, <4>1, <4>2 DEF TypeOK
      <4>3. CASE s = row.slot /\ u # row.user
        <5>1. booked'[s][u] = booked[s][u] /\ booked[s][u] = 0 /\ holder'[s] # u
          BY <3>1, <3>2, <4>1, <4>3 DEF TypeOK
        <5> QED BY <5>1
      <4>4. CASE s = row.slot /\ u = row.user
        <5>1. booked'[s][u] = booked[s][u] + row.paid /\ booked[s][u] = - paid[s] /\ status'[s] = "REFUNDED"
          BY <2>4, <3>1, <3>2, <4>1, <4>4 DEF TypeOK
        <5>2. paid[s] \in Nat /\ row.paid = paid[s]
          BY <3>2, <4>4 DEF TypeOK
        <5> QED BY <5>1, <5>2
      <4> QED BY <4>2, <4>3, <4>4
    <3>5. HolderPaid'
      BY <3>4 DEF HolderPaid
    <3> QED BY <2>2, <3>3, <3>5 DEF MoneyInv
  <2> QED BY <2>3, <2>4
<1>9. ASSUME NEW e \in Enders, NEW row \in todo[e], RefundFails(e, row) PROVE MoneyInv'
  BY <1>9 DEF RefundFails, MoneyInv, UnsoldUntilMade, RefundsAfterClose, RowsCurrent, HolderPaid, Sold, TypeOK
<1>10. CASE RetryAdSlotRefunds
  <2>1. RowsCurrent'
    BY <1>10, UndeliveredRows DEF RetryAdSlotRefunds, MoneyInv, RowsCurrent, TypeOK
  <2>2. RefundsAfterClose'
    BY <1>10 DEF RetryAdSlotRefunds, MoneyInv, RefundsAfterClose, TypeOK
  <2> QED BY <1>10, <2>1, <2>2 DEF RetryAdSlotRefunds, MoneyInv, UnsoldUntilMade, HolderPaid, Sold
<1>11. CASE EndContest
  <2>1. RefundsAfterClose'
    BY <1>11 DEF EndContest, MoneyInv, RefundsAfterClose, TypeOK, Endings
  <2> QED BY <1>11, <2>1, QuietMoney DEF EndContest
<1>12. ASSUME NEW e \in Enders, EnderStep(e) PROVE MoneyInv'
  <2>1. RefundsAfterClose'
    BY <1>12 DEF EnderStep, WriteClosedAt, WriteClosedAtFails, EnderReadsSlots, EnderHasRefunded,
           MoneyInv, RefundsAfterClose, TypeOK, Endings
  <2>2. RowsCurrent'
    <3>1. UNCHANGED <<holder, paid>>
      BY <1>12 DEF EnderStep, WriteClosedAt, WriteClosedAtFails, EnderReadsSlots, EnderHasRefunded
    <3>2. \/ todo' = todo
          \/ todo' = [todo EXCEPT ![e] = Undelivered(ending[e].date)]
      BY <1>12 DEF EnderStep, WriteClosedAt, WriteClosedAtFails, EnderReadsSlots, EnderHasRefunded
    <3>3. \A d \in Enders : \A row \in todo'[d] :
            row \in todo[d] \/ row \in Undelivered(ending[e].date)
      BY <3>2 DEF TypeOK
    <3> QED BY <3>1, <3>3, UndeliveredRows DEF MoneyInv, RowsCurrent
  <2> QED BY <1>12, <2>1, <2>2
          DEF EnderStep, WriteClosedAt, WriteClosedAtFails, EnderReadsSlots, EnderHasRefunded,
              MoneyInv, UnsoldUntilMade, HolderPaid, Sold
<1>13. ASSUME NEW t \in Teams, SetSubmitted(t) PROVE MoneyInv'
  BY <1>13, QuietMoney DEF SetSubmitted, MoneyInv, RefundsAfterClose
<1>14. ASSUME SetAdSlots \/ AdvanceClock PROVE MoneyInv'
  BY <1>14, QuietMoney DEF SetAdSlots, AdvanceClock, MoneyInv, RefundsAfterClose
<1>15. CASE Restart
  <2>1. RefundsAfterClose' /\ RowsCurrent'
    BY <1>15 DEF Restart, MoneyInv, RefundsAfterClose, RowsCurrent, TypeOK, Endings
  <2> QED BY <1>15, <2>1 DEF Restart, MoneyInv, UnsoldUntilMade, HolderPaid, Sold
<1>16. CASE UNCHANGED vars
  BY <1>16, QuietMoney DEF vars, MoneyInv, RefundsAfterClose
<1> QED BY <1>1, <1>2, <1>3, <1>4, <1>5, <1>6, <1>7, <1>8, <1>9, <1>10, <1>11, <1>12,
           <1>13, <1>14, <1>15, <1>16 DEF Next, SchedulerStep, RefundStep

(* The entries of a slot leave its holder exactly the price behind, and    *)
(* nothing once it is paid back, whoever ends the contest and however      *)
(* often the refunds are repeated.                                         *)
THEOREM SlotPaidOnce == Spec => []HolderPaid
<1>1. Init => MoneyInv
  BY SlotAssumption DEF Init, MoneyInv, UnsoldUntilMade, RefundsAfterClose, RowsCurrent, HolderPaid, Sold
<1>2. AllTypes => TypeOK
  BY DEF AllTypes
<1>3. MoneyInv => HolderPaid
  BY DEF MoneyInv
<1> QED BY <1>1, <1>2, <1>3, AllTypesInit, AllTypesNext, MoneyInvNext, PTL DEF Spec
--------------------------------------------------------------------------------
(* The quota: what a team holds grows only by a bid, and that bid counted. *)

LEMMA HeldFinite == ASSUME NEW t PROVE IsFiniteSet(Held(t)) /\ Cardinality(Held(t)) \in Nat
<1>1. Held(t) \in SUBSET Slots
  BY DEF Held
<1> QED BY <1>1, SlotAssumption, FS_Subset, FS_CardinalityType

LEMMA HeldShrinks ==
  ASSUME NEW t, Held(t)' \subseteq Held(t), Cardinality(Held(t)) <= MaxPerTeam
  PROVE  Cardinality(Held(t)') <= MaxPerTeam
<1>1. Cardinality(Held(t)') <= Cardinality(Held(t)) /\ Cardinality(Held(t)') \in Nat
  BY HeldFinite, FS_Subset, FS_CardinalityType
<1> QED BY <1>1, HeldFinite, SlotAssumption

LEMMA QuotaKeptNext == TypeOK /\ MoneyInv /\ QuotaKept /\ [Next]_vars => QuotaKept'
<1> SUFFICES ASSUME TypeOK, MoneyInv, QuotaKept, [Next]_vars, NEW t \in Teams
             PROVE  Cardinality(Held(t)') <= MaxPerTeam
  BY DEF QuotaKept
<1> USE DEF rows, coins, contest, sender, history
<1>0. Cardinality(Held(t)) <= MaxPerTeam
  BY DEF QuotaKept
<1>1. CASE UNCHANGED <<rows, now>>
  BY <1>0, <1>1, HeldShrinks DEF Held, Sold
<1>2. ASSUME NEW v \in Viewers, EnsureCreates(v) PROVE Cardinality(Held(t)') <= MaxPerTeam
  <2>1. \A s \in Slots : status'[s] = status[s] \/ (status[s] = "NONE" /\ ~Sold(s))
    BY <1>2 DEF TypeOK, EnsureCreates, MoneyInv, UnsoldUntilMade
  <2>2. Held(t)' \subseteq Held(t)
    BY <1>2, <2>1 DEF EnsureCreates, Held, Sold
  <2> QED BY <1>0, <2>2, HeldShrinks
<1>3. ASSUME NEW u \in Users, NEW s \in Slots, NEW amount \in Amounts, BidAdSlot(u, s, amount)
      PROVE  Cardinality(Held(t)') <= MaxPerTeam
  <2>1. /\ holder' = [holder EXCEPT ![s] = u] /\ UNCHANGED <<status, now>>
        /\ status[s] = "OPEN" /\ HourStart[s] > now
        /\ HasQuota(TeamOf[u], s)
    BY <1>3 DEF BidAdSlot
  <2>2. \A q \in Slots : holder'[q] = IF q = s THEN u ELSE holder[q]
    BY <2>1 DEF TypeOK
  <2>3. CASE TeamOf[u] # t
    <3>1. Held(t)' \subseteq Held(t)
      BY <2>1, <2>2, <2>3 DEF Held, Sold
    <3> QED BY <1>0, <3>1, HeldShrinks
  <2>4. CASE TeamOf[u] = t /\ Sold(s) /\ TeamOf[holder[s]] = t
    <3>1. Held(t)' \subseteq Held(t)
      BY <2>1, <2>2, <2>4 DEF Held, Sold
    <3> QED BY <1>0, <3>1, HeldShrinks
  <2>5. CASE TeamOf[u] = t /\ Cardinality(Held(t)) < MaxPerTeam
    <3>1. Held(t)' \subseteq Held(t) \cup {s}
      BY <2>1, <2>2 DEF Held, Sold
    <3>2. /\ IsFiniteSet(Held(t) \cup {s})
          /\ Cardinality(Held(t) \cup {s}) <= Cardinality(Held(t)) + 1
      <4>1. IsFiniteSet(Held(t)) /\ Cardinality(Held(t)) \in Nat
        BY HeldFinite
      <4>2. /\ IsFiniteSet(Held(t) \cup {s})
            /\ Cardinality(Held(t) \cup {s}) =
                 IF s \in Held(t) THEN Cardinality(Held(t)) ELSE Cardinality(Held(t)) + 1
        BY <4>1, FS_AddElement, Zenon
      <4> QED BY <4>1, <4>2
    <3>3. Cardinality(Held(t)') <= Cardinality(Held(t) \cup {s}) /\ Cardinality(Held(t)') \in Nat
          /\ Cardinality(Held(t) \cup {s}) \in Nat
      BY <3>1, <3>2, FS_Subset, FS_CardinalityType
    <3> QED BY <2>5, <3>2, <3>3, HeldFinite, SlotAssumption
  <2> QED BY <2>1, <2>3, <2>4, <2>5 DEF HasQuota
<1>4. ASSUME NEW e \in Enders, NEW row \in todo[e], RefundAdSlot(e, row)
      PROVE  Cardinality(Held(t)') <= MaxPerTeam
  <2>1. \A s \in Slots : status'[s] = status[s] \/ status'[s] = "REFUNDED"
    BY <1>4 DEF RefundAdSlot, RefundRow, TypeOK
  <2>2. Held(t)' \subseteq Held(t)
    BY <1>4, <2>1 DEF RefundAdSlot, Held, Sold
  <2> QED BY <1>0, <2>2, HeldShrinks
<1>5. CASE AdvanceClock
  <2>1. Held(t)' \subseteq Held(t)
    <3>1. ASSUME NEW s \in Slots, HourStart[s] > now + 1 PROVE HourStart[s] > now
      BY <3>1, SlotAssumption DEF TypeOK
    <3> QED BY <1>5, <3>1 DEF AdvanceClock, Held, Sold
  <2> QED BY <1>0, <2>1, HeldShrinks
<1>6. \/ UNCHANGED <<rows, now>>
      \/ \E v \in Viewers : EnsureCreates(v)
      \/ \E u \in Users, s \in Slots, amount \in Amounts : BidAdSlot(u, s, amount)
      \/ \E e \in Enders : \E row \in todo[e] : RefundAdSlot(e, row)
      \/ AdvanceClock
  BY DEF Next, vars, SchedulerStep, EnderStep, RefundStep, EnsureReads, BeginTick, TickHasClosed,
         TickReadsPhase, ReadDueSlots, MarkPush, ClaimPush, SendPush, SendPushFails,
         RetryAdSlotRefunds, EndTick, EndContest, OrganiserCloses, WriteClosedAt,
         WriteClosedAtFails, EnderReadsSlots, EnderHasRefunded, RefundFails, SetSubmitted,
         SetAdSlots, Restart
<1> QED BY <1>1, <1>2, <1>3, <1>4, <1>5, <1>6

LEMMA MoneyInvInit == Init => MoneyInv
  BY SlotAssumption DEF Init, MoneyInv, UnsoldUntilMade, RefundsAfterClose, RowsCurrent, HolderPaid, Sold

(* A team never holds more of the hours to come than adslot_max_per_team,  *)
(* for any number of members who bid.                                      *)
THEOREM SlotQuota == Spec => []QuotaKept
<1>1. Init => QuotaKept
  <2> SUFFICES ASSUME Init, NEW t \in Teams PROVE Cardinality(Held(t)) <= MaxPerTeam
    BY DEF QuotaKept
  <2>1. Held(t) = {}
    BY DEF Init, Held, Sold
  <2> QED BY <2>1, FS_EmptySet, SlotAssumption
<1>2. AllTypes => TypeOK
  BY DEF AllTypes
<1> QED BY <1>1, <1>2, MoneyInvInit, AllTypesInit, AllTypesNext, MoneyInvNext, QuotaKeptNext, PTL DEF Spec
--------------------------------------------------------------------------------
(* The pushes.  What is due is looked at once; a mark is given once; and   *)
(* only a push that was in hand at the close can be sent and paid back.    *)

PushInHand ==
  /\ due \subseteq PushSlots
  /\ tick # "sending" => due = {}
  /\ push.at # "idle" => push.slot \in due
  /\ push.at = "claimed" => mark[push.slot] = "sent" /\ sent[push.slot] = 0

SentOnce ==
  \A s \in Slots :
    /\ mark[s] \in {"none", "empty"} => sent[s] = 0
    /\ sent[s] \in {0, 1}
    /\ sent[s] = 1 => mark[s] = "sent" /\ s \in PushSlots
    /\ mark[s] = "sent" =>
         sent[s] = 1 \/ s \in dropped \/ push = [at |-> "claimed", slot |-> s]

OvertakenAtClose ==
  /\ phase = "CLOSED" => due \subseteq overtaken
  /\ \A s \in Slots : status[s] = "REFUNDED" => phase = "CLOSED"
  /\ \A s \in Slots : status[s] = "REFUNDED" /\ sent[s] = 1 => s \in overtaken
  /\ \A e \in Enders : \A row \in todo[e] :
       row.slot \in PushSlots /\ mark[row.slot] = "sent" => row.slot \in overtaken

PushInv == PushInHand /\ SentOnce /\ OvertakenAtClose

(* A step that leaves the pushes alone, and refunds no slot.               *)
LEMMA QuietPush ==
  ASSUME PushInv, UNCHANGED <<mark, sender, history, todo, phase>>,
         tick' # "sending" => due = {},
         \A s \in Slots : status'[s] = "REFUNDED" => status[s] = "REFUNDED"
  PROVE  PushInv'
  BY DEF PushInv, PushInHand, SentOnce, OvertakenAtClose, sender, history

LEMMA PushInvNext == TypeOK /\ MoneyInv /\ PushInv /\ [Next]_vars => PushInv'
<1> SUFFICES ASSUME TypeOK, MoneyInv, PushInv, [Next]_vars PROVE PushInv'
  OBVIOUS
<1> USE DEF rows, coins, contest, sender, history
<1>1. ASSUME NEW v \in Viewers, EnsureReads(v) \/ EnsureCreates(v) PROVE PushInv'
  <2>1. \A s \in Slots : status'[s] = "REFUNDED" => status[s] = "REFUNDED"
    BY <1>1 DEF EnsureReads, EnsureCreates, TypeOK
  <2> QED BY <1>1, <2>1, QuietPush DEF EnsureReads, EnsureCreates, PushInv, PushInHand
<1>2. ASSUME NEW u \in Users, NEW s \in Slots, NEW amount \in Amounts, BidAdSlot(u, s, amount)
      PROVE  PushInv'
  BY <1>2, QuietPush DEF BidAdSlot, PushInv, PushInHand
<1>3. ASSUME BeginTick \/ OrganiserCloses PROVE PushInv'
  <2>1. UNCHANGED <<status, mark, sender, sent, dropped, todo>>
    BY <1>3 DEF BeginTick, OrganiserCloses
  <2>2. \/ UNCHANGED <<phase, overtaken>>
        \/ phase' = "CLOSED" /\ overtaken' = overtaken \cup due
    BY <1>3 DEF BeginTick, OrganiserCloses, Close
  <2>3. tick' # "sending" => due = {}
    BY <1>3 DEF BeginTick, OrganiserCloses, PushInv, PushInHand
  <2> QED BY <2>1, <2>2, <2>3 DEF PushInv, PushInHand, SentOnce, OvertakenAtClose
<1>4. ASSUME TickHasClosed \/ TickReadsPhase \/ EndTick PROVE PushInv'
  <2>1. UNCHANGED <<mark, sender, history, todo, phase, status>>
    BY <1>4 DEF TickHasClosed, TickReadsPhase, EndTick
  <2>2. tick' # "sending" => due = {}
    BY <1>4 DEF TickHasClosed, TickReadsPhase, EndTick, PushInv, PushInHand
  <2> QED BY <2>1, <2>2, QuietPush
<1>5. CASE ReadDueSlots
  <2>1. DueSlots \subseteq PushSlots
    BY DEF DueSlots
  <2>2. push.at = "idle"
    BY <1>5 DEF ReadDueSlots, PushInv, PushInHand
  <2> QED BY <1>5, <2>1, <2>2 DEF ReadDueSlots, PushInv, PushInHand, SentOnce, OvertakenAtClose
<1>6. ASSUME NEW s \in Slots, MarkPush(s) PROVE PushInv'
  <2>1. /\ \A q \in Slots : mark'[q] = mark[q] \/ (mark[q] \in {"none", "empty"} /\ mark'[q] = "empty")
        /\ due' \subseteq due /\ push.at = "idle"
        /\ push' = push \/ (push' = [at |-> "marked", slot |-> s] /\ s \in due')
        /\ tick = "sending"
        /\ UNCHANGED <<status, history, todo, phase, tick>>
    BY <1>6 DEF MarkPush, TypeOK
  <2>2. PushInHand'
    BY <2>1 DEF PushInv, PushInHand
  <2>3. SentOnce'
    BY <2>1 DEF PushInv, SentOnce
  <2>4. OvertakenAtClose'
    BY <2>1 DEF PushInv, OvertakenAtClose, MoneyInv, RowsCurrent
  <2> QED BY <2>2, <2>3, <2>4 DEF PushInv
<1>7. CASE ClaimPush
  <2>1. /\ push.slot \in due /\ push.at = "marked"
        /\ tick = "sending"
        /\ UNCHANGED <<status, history, todo, phase, tick>>
    BY <1>7 DEF ClaimPush, PushInv, PushInHand
  <2>2. push \in [at : {"marked", "claimed"}, slot : Slots]
    BY <2>1 DEF TypeOK, IdlePush
  <2>3. CASE mark[push.slot] = "empty"
    <3>1. /\ mark' = [mark EXCEPT ![push.slot] = "sent"]
          /\ push' = [at |-> "claimed", slot |-> push.slot] /\ due' = due
      BY <1>7, <2>2, <2>3 DEF ClaimPush
    <3>2. sent[push.slot] = 0
      BY <2>2, <2>3 DEF PushInv, SentOnce
    <3>3. PushInHand'
      BY <2>1, <2>2, <3>1, <3>2 DEF PushInv, PushInHand, TypeOK
    <3>4. SentOnce'
      BY <2>1, <2>2, <3>1, <3>2 DEF PushInv, SentOnce, TypeOK
    <3>5. OvertakenAtClose'
      BY <2>1, <2>2, <3>1, <3>2 DEF PushInv, OvertakenAtClose, TypeOK, MoneyInv, RefundsAfterClose, RowsCurrent
    <3> QED BY <3>3, <3>4, <3>5 DEF PushInv
  <2>4. CASE mark[push.slot] # "empty"
    <3>1. push' = IdlePush /\ due' \subseteq due /\ mark' = mark
      BY <1>7, <2>4 DEF ClaimPush
    <3> QED BY <2>1, <3>1, IdlePushType DEF PushInv, PushInHand, SentOnce, OvertakenAtClose
  <2> QED BY <2>3, <2>4
<1>8. ASSUME SendPush \/ SendPushFails PROVE PushInv'
  <2>1. /\ push.slot \in due /\ push.at = "claimed"
        /\ push' = IdlePush /\ due' \subseteq due
        /\ UNCHANGED <<status, overtaken, todo, phase, tick>>
    BY <1>8 DEF SendPush, SendPushFails, PushInv, PushInHand
  <2>2. /\ push \in [at : {"marked", "claimed"}, slot : Slots]
        /\ mark[push.slot] = "sent" /\ sent[push.slot] = 0 /\ push.slot \in PushSlots
    BY <2>1 DEF TypeOK, IdlePush, PushInv, PushInHand
  <2>3. \/ /\ sent' = [sent EXCEPT ![push.slot] = @ + 1]
           /\ UNCHANGED <<mark, dropped>>
        \/ /\ mark' = [mark EXCEPT ![push.slot] = "skipped"]
           /\ UNCHANGED <<sent, dropped>>
        \/ /\ dropped' = dropped \cup {push.slot}
           /\ UNCHANGED <<sent, mark>>
    BY <1>8 DEF SendPush, SendPushFails
  <2>4. PushInHand'
    BY <2>1, IdlePushType DEF PushInv, PushInHand
  <2>5. SentOnce'
    BY <2>1, <2>2, <2>3, IdlePushType DEF PushInv, SentOnce, TypeOK
  <2>6. OvertakenAtClose'
    BY <2>1, <2>2, <2>3 DEF PushInv, OvertakenAtClose, TypeOK, MoneyInv, RowsCurrent
  <2> QED BY <2>4, <2>5, <2>6 DEF PushInv
<1>9. ASSUME NEW e \in Enders, NEW row \in todo[e], RefundAdSlot(e, row) PROVE PushInv'
  <2>1. /\ UNCHANGED <<mark, sender, history, phase, tick>>
        /\ todo' = [todo EXCEPT ![e] = @ \ {row}]
        /\ \A s \in Slots : status'[s] = status[s] \/ (s = row.slot /\ status'[s] = "REFUNDED")
    BY <1>9 DEF RefundAdSlot, RefundRow, TypeOK
  <2>2. phase = "CLOSED" /\ row.slot \in Slots
    BY DEF MoneyInv, RefundsAfterClose, RowsCurrent
  <2>3. sent[row.slot] = 1 => row.slot \in overtaken
    BY <2>2 DEF PushInv, SentOnce, OvertakenAtClose
  <2>4. \A d \in Enders : todo'[d] \subseteq todo[d]
    BY <2>1 DEF TypeOK
  <2>5. OvertakenAtClose'
    BY <2>1, <2>2, <2>3, <2>4 DEF PushInv, OvertakenAtClose
  <2> QED BY <2>1, <2>5 DEF PushInv, PushInHand, SentOnce
<1>10. ASSUME NEW e \in Enders, NEW row \in todo[e], RefundFails(e, row) PROVE PushInv'
  <2>1. \A d \in Enders : todo'[d] \subseteq todo[d]
    BY <1>10 DEF RefundFails, TypeOK
  <2> QED BY <1>10, <2>1 DEF RefundFails, PushInv, PushInHand, SentOnce, OvertakenAtClose
<1>11. CASE RetryAdSlotRefunds
  <2>1. \A d \in Enders : \A row \in todo'[d] : row \in todo[d] \/ row \in Undelivered(closedAt)
    BY <1>11 DEF RetryAdSlotRefunds, TypeOK
  <2>2. OvertakenAtClose'
    BY <1>11, <2>1, UndeliveredRows DEF RetryAdSlotRefunds, PushInv, OvertakenAtClose
  <2> QED BY <1>11, <2>2 DEF RetryAdSlotRefunds, PushInv, PushInHand, SentOnce
<1>12. ASSUME NEW e \in Enders, EnderStep(e) PROVE PushInv'
  <2>1. /\ UNCHANGED <<status, mark, sender, history, phase, tick>>
        /\ todo' = todo \/ todo' = [todo EXCEPT ![e] = Undelivered(ending[e].date)]
    BY <1>12 DEF EnderStep, WriteClosedAt, WriteClosedAtFails, EnderReadsSlots, EnderHasRefunded
  <2>2. \A d \in Enders : \A row \in todo'[d] :
          row \in todo[d] \/ row \in Undelivered(ending[e].date)
    BY <2>1 DEF TypeOK
  <2>3. OvertakenAtClose'
    BY <2>1, <2>2, UndeliveredRows DEF PushInv, OvertakenAtClose
  <2> QED BY <2>1, <2>3 DEF PushInv, PushInHand, SentOnce
<1>13. ASSUME EndContest \/ SetAdSlots \/ AdvanceClock PROVE PushInv'
  BY <1>13, QuietPush DEF EndContest, SetAdSlots, AdvanceClock, PushInv, PushInHand
<1>14. ASSUME NEW t \in Teams, SetSubmitted(t) PROVE PushInv'
  BY <1>14, QuietPush DEF SetSubmitted, PushInv, PushInHand
<1>15. CASE Restart
  BY <1>15, IdlePushType DEF Restart, TypeOK, PushInv, PushInHand, SentOnce, OvertakenAtClose
<1>16. CASE UNCHANGED vars
  BY <1>16, QuietPush DEF vars, PushInv, PushInHand
<1> QED BY <1>1, <1>2, <1>3, <1>4, <1>5, <1>6, <1>7, <1>8, <1>9, <1>10, <1>11, <1>12,
           <1>13, <1>14, <1>15, <1>16 DEF Next, SchedulerStep, RefundStep

(* A push goes out at most once, counts as delivered only when it went out *)
(* or its sender failed, and is sent and paid back only when the contest   *)
(* was closed while a tick had it in hand.                                 *)
THEOREM SlotPush == Spec => []PushKept
<1>1. Init => PushInv
  BY IdlePushType DEF Init, PushInv, PushInHand, SentOnce, OvertakenAtClose
<1>2. AllTypes => TypeOK
  BY DEF AllTypes
<1>3. PushInv => PushKept
  <2> SUFFICES ASSUME PushInv, NEW s \in Slots
               PROVE /\ sent[s] <= 1
                     /\ sent[s] = 1 => mark[s] = "sent"
                     /\ mark[s] = "sent" =>
                          sent[s] = 1 \/ s \in dropped \/ push = [at |-> "claimed", slot |-> s]
                     /\ status[s] = "REFUNDED" /\ sent[s] = 1 => s \in overtaken
    BY DEF PushKept
  <2>1. sent[s] \in {0, 1}
    BY DEF PushInv, SentOnce
  <2> QED BY <2>1 DEF PushInv, SentOnce, OvertakenAtClose
<1> QED BY <1>1, <1>2, <1>3, MoneyInvInit, AllTypesInit, AllTypesNext, MoneyInvNext, PushInvNext, PTL DEF Spec
--------------------------------------------------------------------------------
(* Every step of the slot auction is a step of the coin economy or leaves  *)
(* the wallets and the ledger alone.                                       *)

LEMMA SlotsBook == TypeOK /\ LeadsKept /\ [Next]_vars => [Accounts!Book]_(Accounts!accountVars)
<1> SUFFICES ASSUME TypeOK, LeadsKept, [Next]_vars
             PROVE  Accounts!Book \/ UNCHANGED <<wallet, posted>>
  BY DEF Accounts!accountVars
<1> USE DEF rows, coins, contest, sender, history
<1>1. ASSUME NEW u \in Users, NEW s \in Slots, NEW amount \in Amounts, BidAdSlot(u, s, amount)
      PROVE  Accounts!Book
  <2> DEFINE change(x) == (IF x = holder[s] THEN paid[s] ELSE 0) - (IF x = u THEN amount ELSE 0)
  <2>1. /\ wallet' = [x \in Users |-> wallet[x] + change(x)]
        /\ posted' = [x \in Users |-> posted[x] + change(x)]
    BY <1>1 DEF BidAdSlot, MoveCoins
  <2>2. wallet' \in [Users -> Nat] /\ posted' \in [Users -> Int]
    BY <1>1, BidTypes
  <2>3. \A x \in Users : change(x) \in Int /\ wallet[x] \in Int /\ posted[x] \in Int
    BY SlotAssumption DEF TypeOK
  <2> HIDE DEF change
  <2>4. \A x \in Users : wallet'[x] - wallet[x] = posted'[x] - posted[x]
    BY <2>1, <2>3
  <2> QED BY <2>2, <2>4 DEF Accounts!Book
<1>2. ASSUME NEW e \in Enders, NEW row \in todo[e], RefundAdSlot(e, row)
      PROVE  Accounts!Book \/ UNCHANGED <<wallet, posted>>
  <2>1. row \in SlotRow /\ RefundRow(row)
    BY <1>2 DEF TypeOK, RefundAdSlot
  <2>2. wallet' \in [Users -> Nat] /\ posted' \in [Users -> Int]
    BY <2>1, RefundTypes
  <2>3. CASE status[row.slot] = "OPEN"
    <3>1. /\ wallet' = [wallet EXCEPT ![row.user] = @ + row.paid]
          /\ posted' = [posted EXCEPT ![row.user] = @ + row.paid]
      BY <2>1, <2>3 DEF RefundRow
    <3>2. \A x \in Users : wallet'[x] - wallet[x] = posted'[x] - posted[x]
      BY <2>1, <3>1 DEF SlotRow, TypeOK
    <3> QED BY <2>2, <3>2 DEF Accounts!Book
  <2>4. CASE status[row.slot] # "OPEN"
    BY <2>1, <2>4 DEF RefundRow
  <2> QED BY <2>3, <2>4
<1>3. \/ UNCHANGED <<wallet, posted>>
      \/ \E u \in Users, s \in Slots, amount \in Amounts : BidAdSlot(u, s, amount)
      \/ \E e \in Enders : \E row \in todo[e] : RefundAdSlot(e, row)
  BY DEF Next, vars, SchedulerStep, EnderStep, RefundStep, EnsureReads, EnsureCreates, BeginTick,
         TickHasClosed, TickReadsPhase, ReadDueSlots, MarkPush, ClaimPush, SendPush, SendPushFails,
         RetryAdSlotRefunds, EndTick, EndContest, OrganiserCloses, WriteClosedAt,
         WriteClosedAtFails, EnderReadsSlots, EnderHasRefunded, RefundFails, SetSubmitted,
         SetAdSlots, AdvanceClock, Restart
<1> QED BY <1>1, <1>2, <1>3

(* The slot auction implements the coin economy: every coin that moves is  *)
(* in the ledger, in the same transaction, and no wallet goes below zero.  *)
THEOREM SlotsImplementAccounts == Spec => ImplementsAccounts
<1>1. Init => Accounts!AccountsInit
  BY SlotAssumption DEF Init, Accounts!AccountsInit
<1>2. AllTypes /\ [Next]_vars => [Accounts!Book]_(Accounts!accountVars)
  BY SlotsBook DEF AllTypes
<1> QED BY <1>1, <1>2, AllTypesInit, AllTypesNext, PTL
        DEF Spec, ImplementsAccounts, Accounts!AccountsSpec

Books == INSTANCE CoinAccounts_proofs

(* So through every charge, delivery and refund of a slot a wallet is what *)
(* its owner started with and what the ledger says.                        *)
THEOREM SlotsAlwaysBalanced == Spec => []Accounts!Balanced
  BY SlotsImplementAccounts, Books!AlwaysBalanced, PTL
  DEF ImplementsAccounts, Accounts!AccountsSpec, Books!AccountsSpec, Accounts!AccountsInit,
      Books!AccountsInit, Accounts!Book, Books!Book, Accounts!Balanced, Books!Balanced,
      Accounts!accountVars, Books!accountVars
================================================================================
