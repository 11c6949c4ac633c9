------------------------------- MODULE AdSlots ---------------------------------
(***************************************************************************)
(* The auction of advertising slots: lib/adslots.ts with the scheduler and *)
(* the end of the contest that deliver the slots or pay them back.         *)
(*                                                                         *)
(* A slot is a kind and the start of its hour.  Until the hour starts, any *)
(* member of a team may outbid its holder: the bid is paid at once, and    *)
(* the bid before it is paid back in full.  A banner is shown from its     *)
(* hour on; a push is sent by the scheduler to everybody, once.  When the  *)
(* contest ends, what was not delivered is paid back, one transaction per  *)
(* slot, by the handler that ends the contest and again by every later     *)
(* tick of the scheduler.                                                  *)
(***************************************************************************)
EXTENDS Integers, FiniteSets

CONSTANTS
  Users, NoUser,
  Teams,
  TeamOf,          \* User.teamId
  InitialCoins,    \* the wallets before the first bid
  Reserved,        \* reservedBuyCoins: what a user leads live auctions with
  Slots, NoSlot,   \* the slots of the contest, named by kind and hour
  PushSlots,       \* those of kind PUSH; the others are shown in the market
  HourStart,       \* AdSlot.hourStart
  BasePrice,       \* adSlotPrices
  BidIncrement,    \* DEFAULTS.adslotBidIncrement
  MaxPerTeam,      \* adslot_max_per_team
  Duration,        \* slotDurationMs
  PhaseEndsAt,     \* phase_ends_at
  Amounts,         \* bound: the bids that are tried
  Viewers,         \* bound: requests that create missing slots at one time
  Faults,          \* bound: which failures a run takes
  MaxFailures,     \* bound: how many of them
  MaxTime          \* bound: where the clock stops

ASSUME SlotAssumption ==
  /\ IsFiniteSet(Slots)
  /\ TeamOf \in [Users -> Teams] /\ NoUser \notin Users /\ NoSlot \notin Slots
  /\ Reserved \in [Users -> Nat] /\ InitialCoins \in [Users -> Nat]
  /\ \A u \in Users : Reserved[u] <= InitialCoins[u]
  /\ PushSlots \subseteq Slots /\ HourStart \in [Slots -> Nat]
  /\ BasePrice \in [Slots -> Nat \ {0}] /\ BidIncrement \in Nat \ {0}
  /\ MaxPerTeam \in Nat /\ PhaseEndsAt \in Nat /\ Duration \in Nat
  /\ Amounts \subseteq Nat

Enders == {"organiser", "scheduler"}   \* who runs transitionTo("CLOSED")
NoTime == -1

VARIABLES
  status,      \* AdSlot.status; NONE: the row does not exist
  holder,      \* AdSlot.winnerUserId
  paid,        \* AdSlot.pricePaid; 0: null
  mark,        \* Setting adslot_push_sent:<slot>
  wallet,      \* User.buyWallet
  posted,      \* the sum of the user's ADSLOT and ADSLOT_REFUND entries
  booked,      \* the part of it that refers to one slot
  submitted,   \* the teams whose product is submitted
  slotsOpen,   \* the organiser's status of the module adslots
  viewing,     \* ensureAdSlots with the slots it found missing
  phase,       \* Setting phase
  closedAt,    \* Setting closed_at
  now,
  ending,      \* transitionTo("CLOSED"): where each ender is, and its date
  tick,        \* runScheduledTasks: where it is
  due,         \* sendDuePushSlots: the slots it has still to look at
  push,        \* sendDuePushSlots: the slot in hand, and where it is
  todo,        \* refundUndeliveredAdSlots: the rows each has still to pay back
  sent,        \* history: how often a push was sent
  overtaken,   \* history: pushes of a tick that saw LIVE, not done at the close
  dropped,     \* history: the pushes that were claimed and then not sent
  failures

rows == <<status, holder, paid>>
coins == <<wallet, posted, booked>>
contest == <<phase, closedAt>>
sender == <<due, push>>
history == <<sent, overtaken, dropped>>
vars == <<rows, mark, coins, submitted, slotsOpen, viewing, contest, now,
          ending, tick, sender, todo, history, failures>>

SlotStatuses == {"NONE", "OPEN", "REFUNDED"}
Marks == {"none", "empty", "sent", "skipped"}
Endings == [at : {"none", "seen", "closed", "dated", "refunding", "done", "lost"},
            date : Nat \cup {NoTime}]
Ticks == {"idle", "closing", "begun", "live", "sending", "closed", "refunding"}
IdlePush == [at |-> "idle", slot |-> NoSlot]
SlotRow == [slot : Slots, user : Users, paid : Nat]

TypeOK ==
  /\ status \in [Slots -> SlotStatuses]
  /\ holder \in [Slots -> Users \cup {NoUser}] /\ paid \in [Slots -> Nat]
  /\ mark \in [Slots -> Marks]
  /\ wallet \in [Users -> Nat] /\ posted \in [Users -> Int]
  /\ booked \in [Slots -> [Users -> Int]]
  /\ submitted \subseteq Teams /\ slotsOpen \in BOOLEAN
  /\ viewing \in [Viewers -> SUBSET Slots]
  /\ phase \in {"LIVE", "CLOSED"} /\ closedAt \in Nat \cup {NoTime} /\ now \in Nat
  /\ ending \in [Enders -> Endings] /\ tick \in Ticks
  /\ due \subseteq Slots
  /\ push \in {IdlePush} \cup [at : {"marked", "claimed"}, slot : Slots]
  /\ todo \in [Enders -> SUBSET SlotRow]
  /\ sent \in [Slots -> Nat] /\ overtaken \subseteq Slots /\ dropped \subseteq Slots
  /\ failures \in Nat

Init ==
  /\ status = [s \in Slots |-> "NONE"]
  /\ holder = [s \in Slots |-> NoUser] /\ paid = [s \in Slots |-> 0]
  /\ mark = [s \in Slots |-> "none"]
  /\ wallet = InitialCoins /\ posted = [u \in Users |-> 0]
  /\ booked = [s \in Slots |-> [u \in Users |-> 0]]
  /\ submitted = Teams /\ slotsOpen = TRUE
  /\ viewing = [v \in Viewers |-> {}]
  /\ phase = "LIVE" /\ closedAt = NoTime /\ now = 0
  /\ ending = [e \in Enders |-> [at |-> "none", date |-> NoTime]] /\ tick = "idle"
  /\ due = {} /\ push = IdlePush /\ todo = [e \in Enders |-> {}]
  /\ sent = [s \in Slots |-> 0] /\ overtaken = {} /\ dropped = {}
  /\ failures = 0

Sold(s) == holder[s] # NoUser
ContestOver == phase = "CLOSED" \/ PhaseEndsAt <= now
--------------------------------------------------------------------------------
(* ensureAdSlots, on every visit of the page: the rows that are missing    *)
(* are read, then created in one transaction.  The kind and the hour are   *)
(* unique, so it fails when another visit has created one of them.         *)

Wanted == {s \in Slots : HourStart[s] < PhaseEndsAt}

EnsureReads(v) ==
  /\ viewing[v] = {}
  /\ viewing' = [viewing EXCEPT ![v] = {s \in Wanted : status[s] = "NONE"}]
  /\ UNCHANGED <<rows, mark, coins, submitted, slotsOpen, contest, now, ending, tick, sender, todo, history, failures>>

EnsureCreates(v) ==
  /\ viewing[v] # {}
  /\ viewing' = [viewing EXCEPT ![v] = {}]
  /\ status' = IF \A s \in viewing[v] : status[s] = "NONE"
               THEN [s \in Slots |-> IF s \in viewing[v] THEN "OPEN" ELSE status[s]]
               ELSE status
  /\ UNCHANGED <<holder, paid, mark, coins, submitted, slotsOpen, contest, now, ending, tick, sender, todo, history, failures>>
--------------------------------------------------------------------------------
(* bidAdSlot: one transaction, with its gate inside.                       *)

MinNextSlotBid(s) == IF Sold(s) THEN paid[s] + BidIncrement ELSE BasePrice[s]

(* What a team holds of the hours to come.                                 *)
Held(t) == {s \in Slots : /\ Sold(s) /\ TeamOf[holder[s]] = t
                          /\ status[s] = "OPEN" /\ HourStart[s] > now}

HasQuotaEarly(t, s) == TRUE

HasQuota(t, s) ==
  \/ Sold(s) /\ TeamOf[holder[s]] = t
  \/ Cardinality(Held(t)) < MaxPerTeam

(* What u may pay: a bid of u on the slot itself comes back first.         *)
Spendable(u, s) == wallet[u] + (IF holder[s] = u THEN paid[s] ELSE 0) - Reserved[u]

(* The bid before is paid back and the new one charged, each with its      *)
(* ledger entry.                                                           *)
MoveCoinsKeepingOutbid(u, s, amount) ==
  /\ wallet' = [wallet EXCEPT ![u] = @ - amount]
  /\ posted' = [posted EXCEPT ![u] = @ - amount]
  /\ booked' = [booked EXCEPT ![s][u] = @ - amount]

MoveCoinsUnbooked(u, s, amount) ==
  LET change(x) == (IF x = holder[s] THEN paid[s] ELSE 0) - (IF x = u THEN amount ELSE 0)
  IN  /\ wallet' = [x \in Users |-> wallet[x] + change(x)]
      /\ posted' = [posted EXCEPT ![u] = @ - amount]
      /\ booked' = [booked EXCEPT ![s] = [x \in Users |-> booked[s][x] + change(x)]]

MoveCoins(u, s, amount) ==
  LET change(x) == (IF x = holder[s] THEN paid[s] ELSE 0) - (IF x = u THEN amount ELSE 0)
  IN  /\ wallet' = [x \in Users |-> wallet[x] + change(x)]
      /\ posted' = [x \in Users |-> posted[x] + change(x)]
      /\ booked' = [booked EXCEPT ![s] = [x \in Users |-> booked[s][x] + change(x)]]

BidAdSlot(u, s, amount) ==
  /\ slotsOpen /\ ~ContestOver
  /\ TeamOf[u] \in submitted
  /\ status[s] = "OPEN" /\ HourStart[s] > now
  /\ amount >= MinNextSlotBid(s)
  /\ HasQuota(TeamOf[u], s)
  /\ amount <= Spendable(u, s)
  /\ holder' = [holder EXCEPT ![s] = u]
  /\ paid' = [paid EXCEPT ![s] = amount]
  /\ MoveCoins(u, s, amount)
  /\ UNCHANGED <<status, mark, submitted, slotsOpen, viewing, contest, now, ending, tick, sender, todo, history, failures>>
--------------------------------------------------------------------------------
(* sendDuePushSlots, within a tick that saw a contest not CLOSED; it may   *)
(* be CLOSED by now.                                                       *)

DueSlots ==
  {s \in PushSlots : status[s] = "OPEN" /\ Sold(s)
                     /\ HourStart[s] <= now /\ now < HourStart[s] + Duration}

ReadDueSlots ==
  /\ tick = "live"
  /\ tick' = "sending"
  /\ due' = DueSlots
  /\ overtaken' = IF phase = "CLOSED" THEN overtaken \cup DueSlots ELSE overtaken
  /\ UNCHANGED <<rows, mark, coins, submitted, slotsOpen, viewing, contest, now, ending, push, todo, sent, dropped, failures>>

(* The mark is created empty if there is none; a slot that has a value is  *)
(* left.                                                                   *)
MarkPush(s) ==
  /\ tick = "sending" /\ push.at = "idle" /\ s \in due
  /\ IF mark[s] \in {"none", "empty"}
     THEN /\ mark' = [mark EXCEPT ![s] = "empty"]
          /\ push' = [at |-> "marked", slot |-> s]
          /\ UNCHANGED due
     ELSE due' = due \ {s} /\ UNCHANGED <<mark, push>>
  /\ UNCHANGED <<rows, coins, submitted, slotsOpen, viewing, contest, now, ending, tick, todo, history, failures>>

ClaimPushUnmarked ==
  /\ push.at = "marked"
  /\ push' = [push EXCEPT !.at = "claimed"]
  /\ UNCHANGED <<rows, mark, coins, submitted, slotsOpen, viewing, contest, now, ending, tick, due, todo, history, failures>>

(* The claim: from empty to the time of sending.                           *)
ClaimPush ==
  /\ push.at = "marked"
  /\ IF mark[push.slot] = "empty"
     THEN /\ mark' = [mark EXCEPT ![push.slot] = "sent"]
          /\ push' = [push EXCEPT !.at = "claimed"]
          /\ UNCHANGED due
     ELSE push' = IdlePush /\ due' = due \ {push.slot} /\ UNCHANGED mark
  /\ UNCHANGED <<rows, coins, submitted, slotsOpen, viewing, contest, now, ending, tick, todo, history, failures>>

(* The holder's product is read; notifyAll, or the mark "skipped" for one  *)
(* that is not submitted any more.                                         *)
SendPush ==
  /\ push.at = "claimed"
  /\ push' = IdlePush
  /\ due' = due \ {push.slot}
  /\ IF TeamOf[holder[push.slot]] \in submitted
     THEN sent' = [sent EXCEPT ![push.slot] = @ + 1] /\ UNCHANGED mark
     ELSE mark' = [mark EXCEPT ![push.slot] = "skipped"] /\ UNCHANGED sent
  /\ UNCHANGED <<rows, coins, submitted, slotsOpen, viewing, contest, now, ending, tick, todo, overtaken, dropped, failures>>

(* The query for the product or notifyAll throws: the rest of the due      *)
(* slots is left for the next tick.  When only "skipped" cannot be         *)
(* written, the rest goes on.  The mark still says that it was sent.       *)
SendPushFails ==
  /\ "send" \in Faults /\ failures < MaxFailures
  /\ push.at = "claimed"
  /\ failures' = failures + 1
  /\ push' = IdlePush
  /\ \/ due' = {}
     \/ TeamOf[holder[push.slot]] \notin submitted /\ due' = due \ {push.slot}
  /\ dropped' = dropped \cup {push.slot}
  /\ UNCHANGED <<rows, mark, coins, submitted, slotsOpen, viewing, contest, now, ending, tick, todo, sent, overtaken>>
--------------------------------------------------------------------------------
(* refundUndeliveredAdSlots, with the time the contest was closed.         *)

IsAdSlotDelivered(s, at) ==
  IF s \in PushSlots THEN mark[s] = "sent" ELSE HourStart[s] <= at

Undelivered(at) ==
  {[slot |-> s, user |-> holder[s], paid |-> paid[s]] :
     s \in {x \in Slots : Sold(x) /\ status[x] = "OPEN" /\ ~IsAdSlotDelivered(x, at)}}

(* One transaction: the slot from OPEN to REFUNDED, and what was read of   *)
(* it is paid back.                                                        *)
RefundRowUnclaimed(row) ==
  /\ status' = [status EXCEPT ![row.slot] = "REFUNDED"]
  /\ wallet' = [wallet EXCEPT ![row.user] = @ + row.paid]
  /\ posted' = [posted EXCEPT ![row.user] = @ + row.paid]
  /\ booked' = [booked EXCEPT ![row.slot][row.user] = @ + row.paid]

RefundRow(row) ==
  IF status[row.slot] = "OPEN"
  THEN /\ status' = [status EXCEPT ![row.slot] = "REFUNDED"]
       /\ wallet' = [wallet EXCEPT ![row.user] = @ + row.paid]
       /\ posted' = [posted EXCEPT ![row.user] = @ + row.paid]
       /\ booked' = [booked EXCEPT ![row.slot][row.user] = @ + row.paid]
  ELSE UNCHANGED <<status, coins>>

RefundAdSlot(e, row) ==
  /\ row \in todo[e]
  /\ todo' = [todo EXCEPT ![e] = @ \ {row}]
  /\ RefundRow(row)
  /\ UNCHANGED <<holder, paid, mark, submitted, slotsOpen, viewing, contest, now, ending, tick, sender, history, failures>>

(* The transaction of one slot fails: the others go on.                    *)
RefundFails(e, row) ==
  /\ "refund" \in Faults /\ failures < MaxFailures
  /\ row \in todo[e]
  /\ failures' = failures + 1
  /\ todo' = [todo EXCEPT ![e] = @ \ {row}]
  /\ UNCHANGED <<rows, mark, coins, submitted, slotsOpen, viewing, contest, now, ending, tick, sender, history>>
--------------------------------------------------------------------------------
(* The scheduler's tick: close the contest at its deadline, then either    *)
(* the due pushes or the refunds that are left.                            *)

(* Whoever closes the contest finds these pushes on their way.             *)
Close(e) ==
  /\ phase' = "CLOSED"
  /\ ending' = [ending EXCEPT ![e].at = "closed"]
  /\ overtaken' = overtaken \cup due

(* closeAtDeadline claims the end on the condition that nobody has.        *)
BeginTick ==
  /\ tick = "idle"
  /\ IF phase = "LIVE" /\ PhaseEndsAt <= now
     THEN Close("scheduler") /\ tick' = "closing"
     ELSE tick' = "begun" /\ UNCHANGED <<phase, ending, overtaken>>
  /\ UNCHANGED <<rows, mark, coins, submitted, slotsOpen, viewing, closedAt, now, sender, todo, sent, dropped, failures>>

(* The tick that closed the contest goes on when the end is over.          *)
TickHasClosed ==
  /\ tick = "closing" /\ ending["scheduler"].at = "done"
  /\ tick' = "begun"
  /\ UNCHANGED <<rows, mark, coins, submitted, slotsOpen, viewing, contest, now, ending, sender, todo, history, failures>>

TickReadsPhase ==
  /\ tick = "begun"
  /\ tick' = IF phase = "CLOSED" THEN "closed" ELSE "live"
  /\ UNCHANGED <<rows, mark, coins, submitted, slotsOpen, viewing, contest, now, ending, sender, todo, history, failures>>

RetryAdSlotRefundsNever ==
  /\ tick = "closed"
  /\ tick' = "idle"
  /\ UNCHANGED <<rows, mark, coins, submitted, slotsOpen, viewing, contest, now, ending, sender, todo, history, failures>>

(* retryAdSlotRefunds: nothing without a closed_at.                        *)
RetryAdSlotRefunds ==
  /\ tick = "closed"
  /\ IF closedAt = NoTime
     THEN tick' = "idle" /\ UNCHANGED todo
     ELSE tick' = "refunding" /\ todo' = [todo EXCEPT !["scheduler"] = Undelivered(closedAt)]
  /\ UNCHANGED <<rows, mark, coins, submitted, slotsOpen, viewing, contest, now, ending, sender, history, failures>>

EndTick ==
  /\ \/ tick = "sending" /\ due = {} /\ push.at = "idle"
     \/ tick = "refunding" /\ todo["scheduler"] = {}
  /\ tick' = "idle"
  /\ UNCHANGED <<rows, mark, coins, submitted, slotsOpen, viewing, contest, now, ending, sender, todo, history, failures>>
--------------------------------------------------------------------------------
(* The end of the contest: transitionTo("CLOSED") after the auctions.      *)
(* endContestAction reads the phase and closes the contest whatever it is  *)
(* by then, so both enders may be at work.                                 *)

EndContest ==
  /\ "end" \in Faults
  /\ phase = "LIVE" /\ ending["organiser"].at = "none"
  /\ ending' = [ending EXCEPT !["organiser"].at = "seen"]
  /\ UNCHANGED <<rows, mark, coins, submitted, slotsOpen, viewing, contest, now, tick, sender, todo, history, failures>>

OrganiserCloses ==
  /\ ending["organiser"].at = "seen"
  /\ Close("organiser")
  /\ UNCHANGED <<rows, mark, coins, submitted, slotsOpen, viewing, closedAt, now, tick, sender, todo, sent, dropped, failures>>

WriteClosedAt(e) ==
  /\ ending[e].at = "closed"
  /\ ending' = [ending EXCEPT ![e] = [at |-> "dated", date |-> now]]
  /\ closedAt' = now
  /\ UNCHANGED <<rows, mark, coins, submitted, slotsOpen, viewing, phase, now, tick, sender, todo, history, failures>>

(* The date could not be saved: the refunds go on with it.                 *)
WriteClosedAtFails(e) ==
  /\ "date" \in Faults /\ failures < MaxFailures
  /\ failures' = failures + 1
  /\ ending[e].at = "closed"
  /\ ending' = [ending EXCEPT ![e] = [at |-> "dated", date |-> now]]
  /\ UNCHANGED <<rows, mark, coins, submitted, slotsOpen, viewing, contest, now, tick, sender, todo, history>>

EnderReadsSlots(e) ==
  /\ ending[e].at = "dated"
  /\ ending' = [ending EXCEPT ![e].at = "refunding"]
  /\ todo' = [todo EXCEPT ![e] = Undelivered(ending[e].date)]
  /\ UNCHANGED <<rows, mark, coins, submitted, slotsOpen, viewing, contest, now, tick, sender, history, failures>>

EnderHasRefunded(e) ==
  /\ ending[e].at = "refunding" /\ todo[e] = {}
  /\ ending' = [ending EXCEPT ![e].at = "done"]
  /\ UNCHANGED <<rows, mark, coins, submitted, slotsOpen, viewing, contest, now, tick, sender, todo, history, failures>>
--------------------------------------------------------------------------------
(* Around it: products are submitted and taken back, the organiser opens   *)
(* and closes the module, the clock, the process restarts.                 *)

SetSubmitted(t) ==
  /\ ~ContestOver
  /\ submitted' = IF t \in submitted THEN submitted \ {t} ELSE submitted \cup {t}
  /\ UNCHANGED <<rows, mark, coins, slotsOpen, viewing, contest, now, ending, tick, sender, todo, history, failures>>

SetAdSlots ==
  /\ "module" \in Faults
  /\ slotsOpen' = ~slotsOpen
  /\ UNCHANGED <<rows, mark, coins, submitted, viewing, contest, now, ending, tick, sender, todo, history, failures>>

AdvanceClock ==
  /\ now < MaxTime
  /\ now' = now + 1
  /\ UNCHANGED <<rows, mark, coins, submitted, slotsOpen, viewing, contest, ending, tick, sender, todo, history, failures>>

Restart ==
  /\ "restart" \in Faults /\ failures < MaxFailures
  /\ failures' = failures + 1
  /\ viewing' = [v \in Viewers |-> {}]
  /\ tick' = "idle" /\ due' = {} /\ push' = IdlePush
  /\ todo' = [e \in Enders |-> {}]
  /\ ending' = [e \in Enders |-> CASE ending[e].at \in {"none", "done"} -> ending[e]
                                   [] ending[e].at = "seen" -> [ending[e] EXCEPT !.at = "none"]
                                   [] OTHER -> [ending[e] EXCEPT !.at = "lost"]]
  /\ dropped' = IF push.at = "claimed" THEN dropped \cup {push.slot} ELSE dropped
  /\ UNCHANGED <<rows, mark, coins, submitted, slotsOpen, contest, now, sent, overtaken>>

RefundStep(e) == \E row \in todo[e] : RefundAdSlot(e, row) \/ RefundFails(e, row)

SchedulerStep ==
  \/ BeginTick \/ TickHasClosed \/ TickReadsPhase
  \/ ReadDueSlots \/ (\E s \in Slots : MarkPush(s)) \/ ClaimPush \/ SendPush \/ SendPushFails
  \/ RetryAdSlotRefunds \/ EndTick

EnderStep(e) ==
  \/ WriteClosedAt(e) \/ WriteClosedAtFails(e) \/ EnderReadsSlots(e) \/ EnderHasRefunded(e)

Next ==
  \/ \E v \in Viewers : EnsureReads(v) \/ EnsureCreates(v)
  \/ \E u \in Users, s \in Slots, amount \in Amounts : BidAdSlot(u, s, amount)
  \/ SchedulerStep \/ EndContest \/ OrganiserCloses
  \/ \E e \in Enders : EnderStep(e) \/ RefundStep(e)
  \/ \E t \in Teams : SetSubmitted(t)
  \/ SetAdSlots \/ AdvanceClock \/ Restart

Spec == Init /\ [][Next]_vars

(* The scheduler's timer keeps ticking, and a handler runs on to its end   *)
(* while the process lives.                                                *)
FairSpec ==
  /\ Spec
  /\ WF_vars(SchedulerStep) /\ WF_vars(OrganiserCloses)
  /\ \A e \in Enders : WF_vars(EnderStep(e)) /\ WF_vars(RefundStep(e))
--------------------------------------------------------------------------------
(* Properties *)

(* "The coins of a bid are taken at once and the bid before it is paid     *)
(* back in full" (adslots.ts:82), and at the end "each slot is paid back   *)
(* only once" (adslots.ts:281): for every slot, its ledger entries leave   *)
(* its holder exactly the price behind, and nobody else anything.          *)
HolderPaid ==
  \A s \in Slots, u \in Users :
    booked[s][u] = IF holder[s] = u /\ status[s] = "OPEN" THEN - paid[s] ELSE 0

(* "Each team holds at most adslot_max_per_team hours at a time" (adslots. *)
(* ts:84), however its members bid.                                        *)
QuotaKept == \A t \in Teams : Cardinality(Held(t)) <= MaxPerTeam

(* A bid on a slot leaves the coins that its bidder leads live auctions    *)
(* with.                                                                   *)
LeadsKept == \A u \in Users : wallet[u] >= Reserved[u]

(* A push goes out at most once and only for a mark that says so; one that *)
(* is marked as sent has gone out, is on its way, or its sender failed;     *)
(* and one that was paid back has not gone out, unless it was on its way   *)
(* when the contest was closed.                                            *)
PushKept ==
  \A s \in Slots :
    /\ sent[s] <= 1
    /\ sent[s] = 1 => mark[s] = "sent"
    /\ mark[s] = "sent" =>
         sent[s] = 1 \/ s \in dropped \/ push = [at |-> "claimed", slot |-> s]
    /\ status[s] = "REFUNDED" /\ sent[s] = 1 => s \in overtaken

(* The books of the slots are those of the coin economy.                   *)
Accounts == INSTANCE CoinAccounts
ImplementsAccounts == Accounts!AccountsSpec

(* "A bid that was not shown or whose notification did not go out is       *)
(* returned" (adslots.ts:280), and a push is delivered "only if it was     *)
(* really sent" (adslots.ts:265): once the end of the contest is dated,    *)
(* every slot that was sold has at last been shown, sent or paid back,     *)
(* also when transactions fail and the process restarts in between.  The   *)
(* exception is a push that was claimed and then not sent: its mark says   *)
(* that it was, so nobody sends it and nobody pays it back.                *)
Delivered(s) == IF s \in PushSlots THEN sent[s] = 1 ELSE HourStart[s] <= closedAt

SlotsSettled ==
  (closedAt # NoTime)
    ~> (\A s \in Slots :
          Sold(s) => Delivered(s) \/ status[s] = "REFUNDED" \/ s \in dropped)
================================================================================
