------------------------------ MODULE LiveAuction ------------------------------
(***************************************************************************)
(* The live auction of the market: lib/auction.ts with what it shares a    *)
(* wallet and a clock with: the reservation of a leader's coins            *)
(* (lib/reservations.ts), market purchases (lib/market.ts), idea support   *)
(* (lib/invest.ts), the organiser's wallet corrections, the scheduler's    *)
(* tick (lib/scheduler.ts) and the closing of the auctions when the        *)
(* contest ends (lib/phase-transition.ts).                                 *)
(*                                                                         *)
(* lib/db.ts runs every prisma.$transaction, and every query outside one,  *)
(* alone on the one SQLite connection.  So a transaction is one step here, *)
(* and a handler that reads first and writes later is several steps with   *)
(* anything in between; what it remembers between them is in `passed`,     *)
(* `enqueuing`, `ensure`, `armed`, `due`, `unrecorded`, `tick` and         *)
(* `ending`, which a restart of the process loses.                         *)
(*                                                                         *)
(* A product is auctioned at most once (Auction.productId is unique), so   *)
(* auctions are named by their product.                                    *)
(***************************************************************************)
EXTENDS Integers, FiniteSets, FiniteSetsExt

CONSTANTS
  Users,              \* the players
  Products,           \* the submitted products
  NoUser,             \* winnerId = null
  Members,            \* Members[p]: the team that owns p
  InitialCoins,       \* starting_coins of each user
  Price,              \* Price[p]: the market price of p
  SpecialStart,       \* Product.specialStart, the base price the team asks
  BidIncrement,       \* bid_increment
  AuctionDuration,    \* auction_duration_sec
  MinAuctionDuration, \* MIN_AUCTION_DURATION_SEC
  SchedulerTick,      \* SCHEDULER_TICK_SEC
  AuctionGap,         \* auction_gap_sec
  AntiSnipeWindow,    \* anti_snipe_window_sec
  AntiSnipeExtend,    \* anti_snipe_extend_sec
  EnqueueCutoff,      \* auction_enqueue_cutoff_min
  PhaseEndsAt,        \* phase_ends_at, the deadline of the contest
  Manual,             \* bound: which organiser's operations a run takes
  AdminDeltas,        \* bound: the corrections adjustWalletAction is given
  AdminBound,         \* bound: how far corrections move one wallet
  MaxRestarts,        \* bound: how often the process restarts
  MaxTime             \* bound: the clock stops here

ManualOperations ==
  {"start", "settle", "end", "market", "ensure", "move", "adjust", "fail"}

ASSUME UserAssumption ==
  /\ NoUser \notin Users
  /\ Members \in [Products -> SUBSET Users]
  /\ InitialCoins \in [Users -> Nat]
ASSUME PriceAssumption ==
  /\ Price \in [Products -> Nat \ {0}]
  /\ SpecialStart \in [Products -> Nat]
  /\ BidIncrement \in Nat \ {0}
ASSUME TimeAssumption ==
  /\ {AuctionDuration, MinAuctionDuration, AntiSnipeExtend} \subseteq Nat \ {0}
  /\ {SchedulerTick, AuctionGap, AntiSnipeWindow, EnqueueCutoff} \subseteq Nat
  /\ {PhaseEndsAt, MaxTime} \subseteq Nat
ASSUME BoundAssumption ==
  /\ Manual \subseteq ManualOperations
  /\ AdminDeltas \subseteq Int
  /\ AdminBound \in Nat
  /\ MaxRestarts \in Nat
ASSUME FiniteAssumption == IsFiniteSet(Products)

VARIABLES
  now,          \* the wall clock
  phase,        \* setting "phase"
  market,       \* setting "module_market"
  settledFinal, \* settled_at is set and settled_final is not "0"
  lastEndedAt,  \* setting "last_auction_ended_at", or Never
  status,       \* Auction.status, "NONE" when p has no row
  order,        \* Auction.order
  endsAt,       \* Auction.endsAt
  winner,       \* Auction.winnerId
  finalPrice,   \* Auction.finalPrice
  bids,         \* the Bid rows of the auction
  wallet,       \* User.buyWallet
  ledger,       \* LedgerEntry: the sum of the deltas per user and reason
  docked,       \* users with an ADMIN entry of negative delta
  purchases,    \* Purchase: coins u paid for p
  support,      \* Investment: coins u put on p's idea
  passed,       \* users with a request that has passed the market gate
  enqueuing,    \* products with an enqueueAuction past its checks
  ensure,       \* what ensureAuctions has read: products and base order
  armed,        \* the duration a startNextAuction resolved, 0 when none runs
  due,          \* the auctions each settling handler has read as LIVE
  unrecorded,   \* it has settled one and not yet written lastEndedAt
  tick,         \* where the scheduler's tick is
  ending,       \* where transitionTo("CLOSED") is
  leftover,     \* the SCHEDULED auctions closeAuctionsForGameEnd has read
  restarts      \* how often the process restarted

store   == <<now, phase, market, settledFinal, lastEndedAt>>
auction == <<status, order, endsAt, winner, finalPrice, bids>>
coins   == <<wallet, ledger, docked, purchases, support>>
clients == <<passed, enqueuing, ensure>>
runners == <<armed, due, unrecorded, tick, ending, leftover, restarts>>
vars    == <<store, auction, coins, clients, runners>>

Never    == -1
Starters == {"scheduler", "admin"}
Settlers == {"scheduler", "admin", "gameEnd"}
Reasons  == {"AUCTION_WIN", "PURCHASE", "INVEST", "ADMIN"}
Statuses == {"NONE", "SCHEDULED", "LIVE", "ENDED"}
BidRow   == [user : Users, amount : Nat \ {0}, at : Nat]
NoEnsure == [products |-> {}, base |-> 0]

TypeOK ==
  /\ now \in Nat
  /\ phase \in {"LIVE", "CLOSED"}
  /\ market \in {"open", "closed"}
  /\ settledFinal \in BOOLEAN
  /\ lastEndedAt \in Nat \cup {Never}
  /\ status \in [Products -> Statuses]
  /\ order \in [Products -> Nat]
  /\ endsAt \in [Products -> Nat]
  /\ winner \in [Products -> Users \cup {NoUser}]
  /\ finalPrice \in [Products -> Nat]
  /\ bids \in [Products -> SUBSET BidRow]
  /\ wallet \in [Users -> Nat]
  /\ ledger \in [Users -> [Reasons -> Int]]
  /\ docked \in SUBSET Users
  /\ purchases \in [Users -> [Products -> Nat]]
  /\ support \in [Users -> [Products -> Nat]]
  /\ passed \in SUBSET Users
  /\ enqueuing \in SUBSET Products
  /\ ensure \in [products : SUBSET Products, base : Nat]
  /\ armed \in [Starters -> Nat]
  /\ due \in [Settlers -> SUBSET Products]
  /\ unrecorded \in [Settlers -> BOOLEAN]
  /\ tick \in {"idle", "closing", "begun", "settling", "gap", "starting"}
  /\ ending \in {"open", "read", "settle", "sweep", "final", "done", "lost"}
  /\ leftover \in SUBSET Products
  /\ restarts \in Nat

Init ==
  /\ now = 0 /\ phase = "LIVE" /\ market = "open"
  /\ settledFinal = FALSE /\ lastEndedAt = Never
  /\ status = [p \in Products |-> "NONE"]
  /\ order = [p \in Products |-> 0]
  /\ endsAt = [p \in Products |-> 0]
  /\ winner = [p \in Products |-> NoUser]
  /\ finalPrice = [p \in Products |-> 0]
  /\ bids = [p \in Products |-> {}]
  /\ wallet = InitialCoins
  /\ ledger = [u \in Users |-> [r \in Reasons |-> 0]]
  /\ docked = {}
  /\ purchases = [u \in Users |-> [p \in Products |-> 0]]
  /\ support = [u \in Users |-> [p \in Products |-> 0]]
  /\ passed = {} /\ enqueuing = {} /\ ensure = NoEnsure
  /\ armed = [s \in Starters |-> 0]
  /\ due = [s \in Settlers |-> {}]
  /\ unrecorded = [s \in Settlers |-> FALSE]
  /\ tick = "idle" /\ ending = "open" /\ leftover = {}
  /\ restarts = 0
--------------------------------------------------------------------------------
(* Gates and prices *)

ContestOver == phase = "CLOSED" \/ PhaseEndsAt <= now
MarketOpen  == market = "open" /\ ~ContestOver

Rows == {p \in Products : status[p] # "NONE"}
Live == {p \in Products : status[p] = "LIVE"}

StartPrice(p) == IF SpecialStart[p] > 1 THEN SpecialStart[p] ELSE 1

(* The queue position after the last row of the table.                     *)
NextOrders ==
  IF Rows = {} THEN {0}
  ELSE {order[p] + 1 : p \in {q \in Rows : \A r \in Rows : order[r] <= order[q]}}

(* orderBy: [{ amount: "desc" }, { createdAt: "asc" }]                      *)
Outranks(b, c) == b.amount > c.amount \/ (b.amount = c.amount /\ b.at < c.at)
Highest(p) == {b \in bids[p] : \A c \in bids[p] : c = b \/ Outranks(b, c)}

SumOver(f, S) == MapThenSumSet(LAMBDA x : f[x], S)

(* The coins u may not spend: what u leads with in every LIVE auction but  *)
(* the ones in `except`.                                                   *)
LeadOf(u) ==
  [p \in Products |-> IF \E b \in Highest(p) : b.user = u
                      THEN (CHOOSE b \in Highest(p) : TRUE).amount ELSE 0]
ReservedBuyCoins(u, except) == SumOver(LeadOf(u), Live \ except)

(* Mutant: the bid before is only matched.                                 *)
NextMinBidFlat(p) ==
  IF Highest(p) = {} THEN StartPrice(p)
  ELSE (CHOOSE b \in Highest(p) : TRUE).amount

NextMinBid(p) ==
  IF Highest(p) = {} THEN StartPrice(p)
  ELSE (CHOOSE b \in Highest(p) : TRUE).amount + BidIncrement

(* rankBids and pickFirstPriceWinner: of each bidder's best bid, the first *)
(* whose owner still has the whole amount.                                 *)
BestBids(B) == {b \in B : \A c \in B : c.user = b.user => c = b \/ Outranks(b, c)}
(* Mutant: a wallet that holds exactly the bid does not count.             *)
FirstPriceWinnerStrict(B, balance) ==
  LET backed == {b \in BestBids(B) : balance[b.user] > b.amount}
  IN  {b \in backed : \A c \in backed : c = b \/ Outranks(b, c)}

FirstPriceWinner(B, balance) ==
  LET backed == {b \in BestBids(B) : balance[b.user] >= b.amount}
  IN  {b \in backed : \A c \in backed : c = b \/ Outranks(b, c)}

(* The duration of the next auction, so that the rest of the queue still   *)
(* fits in 85% of the time left.                                           *)
ClampAuctionDuration(secondsLeft, n) ==
  IF n = 0 \/ secondsLeft = 0 THEN MinAuctionDuration
  ELSE LET overhead == AuctionGap + SchedulerTick + AntiSnipeExtend
           fitted   == (secondsLeft * 85) \div (n * 100) - overhead
           floored  == IF fitted > MinAuctionDuration THEN fitted ELSE MinAuctionDuration
       IN  IF floored < AuctionDuration THEN floored ELSE AuctionDuration

ResolveAuctionDuration ==
  IF phase = "CLOSED" THEN AuctionDuration
  ELSE ClampAuctionDuration(IF PhaseEndsAt > now THEN PhaseEndsAt - now ELSE 0,
                            Cardinality({p \in Products : status[p] = "SCHEDULED"}))
--------------------------------------------------------------------------------
(* The wallet and its ledger *)

(* Mutants: the wallet is not looked at; the ledger entry is forgotten.    *)
PostUnchecked(u, reason, delta) ==
  /\ wallet' = [wallet EXCEPT ![u] = @ + delta]
  /\ ledger' = [ledger EXCEPT ![u][reason] = @ + delta]
PostUnbooked(u, reason, delta) ==
  /\ wallet[u] + delta >= 0
  /\ wallet' = [wallet EXCEPT ![u] = @ + delta]
  /\ UNCHANGED ledger

(* One wallet update and its ledger entry, in one transaction.             *)
Post(u, reason, delta) ==
  /\ wallet[u] + delta >= 0
  /\ wallet' = [wallet EXCEPT ![u] = @ + delta]
  /\ ledger' = [ledger EXCEPT ![u][reason] = @ + delta]

(* A request of u whose moduleGate("market") has answered; the transaction *)
(* it is for comes later, or is refused.                                   *)
PassMarketGate(u) ==
  /\ MarketOpen
  /\ u \notin passed
  /\ passed' = passed \cup {u}
  /\ UNCHANGED <<store, auction, coins, enqueuing, ensure, runners>>

RequestRefused(u) ==
  /\ u \in passed
  /\ passed' = passed \ {u}
  /\ UNCHANGED <<store, auction, coins, enqueuing, ensure, runners>>

(* Mutant: a leader's coins are not reserved against a purchase.           *)
PurchaseUnreserved(u, p) ==
  /\ u \in passed /\ u \notin Members[p]
  /\ Post(u, "PURCHASE", -Price[p])
  /\ purchases' = [purchases EXCEPT ![u][p] = @ + Price[p]]
  /\ passed' = passed \ {u}
  /\ UNCHANGED <<store, auction, docked, support, enqueuing, ensure, runners>>

(* The transaction of purchaseProduct.                                     *)
PurchaseProduct(u, p) ==
  /\ u \in passed /\ u \notin Members[p]
  /\ Price[p] <= wallet[u] - ReservedBuyCoins(u, {})
  /\ Post(u, "PURCHASE", -Price[p])
  /\ purchases' = [purchases EXCEPT ![u][p] = @ + Price[p]]
  /\ passed' = passed \ {u}
  /\ UNCHANGED <<store, auction, docked, support, enqueuing, ensure, runners>>

(* investCore: its gate is inside the transaction.  The idea of p is       *)
(* submitted and module_invest is open while the contest runs.             *)
Invest(u, p, amount) ==
  /\ ~ContestOver
  /\ u \notin Members[p]
  /\ amount <= wallet[u] - ReservedBuyCoins(u, {})
  /\ Post(u, "INVEST", -amount)
  /\ support' = [support EXCEPT ![u][p] = @ + amount]
  /\ UNCHANGED <<store, auction, docked, purchases, clients, runners>>

(* adjustWalletAction: a deduction asks only that the wallet holds it; a   *)
(* reservation does not stop it.                                           *)
AdjustWallet(u, delta) ==
  /\ "adjust" \in Manual
  /\ delta # 0
  /\ ledger[u]["ADMIN"] + delta \in -AdminBound..AdminBound
  /\ Post(u, "ADMIN", delta)
  /\ docked' = IF delta < 0 THEN docked \cup {u} ELSE docked
  /\ UNCHANGED <<store, auction, purchases, support, clients, runners>>

(* placeBid takes offers for what is LIVE, and only until its end.         *)
Biddable(p) == status[p] = "LIVE" /\ now < endsAt[p]

(* Mutant: a bid at the edge of the window does not extend.                *)
InWindowStrict(p) == endsAt[p] - now \in 1..(AntiSnipeWindow - 1)

(* shouldExtendAuction: the others have little time left to answer.         *)
InWindow(p) == endsAt[p] - now \in 1..AntiSnipeWindow

(* placeBid, after the gate of placeBidAction.                             *)
PlaceBid(u, p, amount) ==
  /\ u \in passed
  /\ Biddable(p)
  /\ u \notin Members[p]
  /\ \A b \in Highest(p) : ~(b.user = u /\ b.amount = amount)
  /\ amount >= NextMinBid(p)
  /\ wallet[u] - ReservedBuyCoins(u, {p}) >= amount
  /\ bids' = [bids EXCEPT ![p] = @ \cup {[user |-> u, amount |-> amount, at |-> now]}]
  /\ endsAt' = IF InWindow(p) THEN [endsAt EXCEPT ![p] = @ + AntiSnipeExtend] ELSE endsAt
  /\ passed' = passed \ {u}
  /\ UNCHANGED <<store, status, order, winner, finalPrice, coins, enqueuing, ensure, runners>>
--------------------------------------------------------------------------------
(* The queue *)

(* enqueueAuction reads the gate and the cutoff first ...                  *)
EnqueueGate(p) ==
  /\ MarketOpen
  /\ PhaseEndsAt - now >= EnqueueCutoff
  /\ p \notin enqueuing
  /\ enqueuing' = enqueuing \cup {p}
  /\ UNCHANGED <<store, auction, coins, passed, ensure, runners>>

(* ... and its transaction looks for a row of the product.                 *)
EnqueueAuction(p) ==
  /\ p \in enqueuing
  /\ enqueuing' = enqueuing \ {p}
  /\ IF status[p] = "NONE"
     THEN /\ status' = [status EXCEPT ![p] = "SCHEDULED"]
          /\ \E n \in NextOrders : order' = [order EXCEPT ![p] = n]
     ELSE UNCHANGED <<status, order>>
  /\ UNCHANGED <<store, endsAt, winner, finalPrice, bids, coins, passed, ensure, runners>>

(* ensureAuctions reads the products without a row, those that happen to   *)
(* be submitted at that moment, and the last order ...                     *)
EnsureAuctionsRead ==
  /\ "ensure" \in Manual
  /\ ensure = NoEnsure
  /\ \E found \in SUBSET (Products \ Rows) \ {{}}, n \in NextOrders :
       ensure' = [products |-> found, base |-> n]
  /\ UNCHANGED <<store, auction, coins, passed, enqueuing, runners>>

(* ... shuffles them and creates all rows in one transaction, which fails  *)
(* as a whole when one of the products has a row by then.                  *)
EnsureAuctions ==
  /\ ensure.products # {}
  /\ ensure' = NoEnsure
  /\ IF ensure.products \cap Rows = {}
     THEN /\ status' = [p \in Products |->
                          IF p \in ensure.products THEN "SCHEDULED" ELSE status[p]]
          /\ \E place \in [ensure.products -> 0..(Cardinality(ensure.products) - 1)] :
               /\ \A p, q \in ensure.products : place[p] = place[q] => p = q
               /\ order' = [p \in Products |-> IF p \in ensure.products
                                               THEN ensure.base + place[p] ELSE order[p]]
     ELSE UNCHANGED <<status, order>>
  /\ UNCHANGED <<store, endsAt, winner, finalPrice, bids, coins, passed, enqueuing, runners>>

(* moveAuctionAction swaps p with its nearest SCHEDULED neighbour q.       *)
MoveAuction(p, q) ==
  LET between(r) == status[r] = "SCHEDULED" /\ \/ order[p] < order[r] /\ order[r] < order[q]
                                               \/ order[q] < order[r] /\ order[r] < order[p]
  IN  /\ "move" \in Manual
      /\ status[p] = "SCHEDULED" /\ status[q] = "SCHEDULED"
      /\ order[p] # order[q]
      /\ \A r \in Products : ~between(r)
      /\ order' = [order EXCEPT ![p] = order[q], ![q] = order[p]]
      /\ UNCHANGED <<store, status, endsAt, winner, finalPrice, bids, coins, clients, runners>>
--------------------------------------------------------------------------------
(* Starting and settling *)

(* Mutant: nobody looks for a LIVE auction inside the transaction.         *)
MayStartAnyway == TRUE

MayStart == Live = {}

(* The transaction of startNextAuction.  Nothing in it looks at the phase. *)
StartNextAuction(s) ==
  /\ armed[s] > 0
  /\ armed' = [armed EXCEPT ![s] = 0]
  /\ tick' = IF s = "scheduler" THEN "idle" ELSE tick
  /\ LET queue == {p \in Products : status[p] = "SCHEDULED"}
         heads == {p \in queue : \A q \in queue : order[p] <= order[q]}
     IN  IF ~MayStart \/ queue = {}
         THEN UNCHANGED <<status, endsAt>>
         ELSE \E p \in heads :
                /\ status' = [status EXCEPT ![p] = "LIVE"]
                /\ endsAt' = [endsAt EXCEPT ![p] = now + armed[s]]
  /\ UNCHANGED <<store, order, winner, finalPrice, bids, coins, clients,
                 due, unrecorded, ending, leftover, restarts>>

(* startNextAuctionAction up to startNextAuction's own reads.              *)
AdminArmsStart ==
  /\ "start" \in Manual
  /\ MarketOpen /\ Live = {}
  /\ armed["admin"] = 0
  /\ armed' = [armed EXCEPT !["admin"] = ResolveAuctionDuration]
  /\ UNCHANGED <<store, auction, coins, clients, due, unrecorded, tick, ending, leftover, restarts>>

(* settleCurrentAuctionAction reads the LIVE auction first in the queue.   *)
AdminReadsLive ==
  /\ "settle" \in Manual
  /\ due["admin"] = {} /\ ~unrecorded["admin"]
  /\ \E p \in Live : /\ \A q \in Live : order[p] <= order[q]
                     /\ due' = [due EXCEPT !["admin"] = {p}]
  /\ UNCHANGED <<store, auction, coins, clients, armed, unrecorded, tick, ending,
                 leftover, restarts>>

(* Mutant: no caller is refused.                                           *)
SettleNeverRefused(s) == FALSE

(* After the end only the end's own handler settles, after the final       *)
(* result nobody.                                                          *)
SettleRefused(s) == settledFinal \/ (phase = "CLOSED" /\ s # "gameEnd")

(* The winner pays exactly the winning bid, and owns the purchase.         *)
ChargeWinner(p, b) ==
  /\ Post(b.user, "AUCTION_WIN", -b.amount)
  /\ purchases' = [purchases EXCEPT ![b.user][p] = @ + b.amount]
  /\ winner' = [winner EXCEPT ![p] = b.user]
  /\ finalPrice' = [finalPrice EXCEPT ![p] = b.amount]

(* Mutant: the claim on the LIVE row is missing.                           *)
ClaimsAnyRow(p) == TRUE

ClaimsLive(p) == status[p] = "LIVE"

(* The transaction of settleCore, for an auction its caller s has read.    *)
SettleCore(s, p) ==
  /\ p \in due[s] /\ ~unrecorded[s]
  /\ due' = [due EXCEPT ![s] = @ \ {p}]
  /\ IF SettleRefused(s) \/ ~ClaimsLive(p)
     THEN UNCHANGED <<status, wallet, ledger, purchases, winner, finalPrice, unrecorded>>
     ELSE /\ status' = [status EXCEPT ![p] = "ENDED"]
          /\ unrecorded' = [unrecorded EXCEPT ![s] = TRUE]
          /\ IF FirstPriceWinner(bids[p], wallet) = {}
             THEN UNCHANGED <<wallet, ledger, purchases, winner, finalPrice>>
             ELSE \E b \in FirstPriceWinner(bids[p], wallet) : ChargeWinner(p, b)
  /\ UNCHANGED <<store, order, endsAt, bids, docked, support, clients,
                 armed, tick, ending, leftover, restarts>>

(* After that transaction: settleCore, and its callers again, write        *)
(* last_auction_ended_at.                                                  *)
RecordEnded(s) ==
  /\ unrecorded[s]
  /\ unrecorded' = [unrecorded EXCEPT ![s] = FALSE]
  /\ lastEndedAt' = now
  /\ UNCHANGED <<now, phase, market, settledFinal, auction, coins, clients,
                 armed, due, tick, ending, leftover, restarts>>

(* Or the write fails: settleCore says nothing, the caller's own write     *)
(* throws and ends the scheduler's tick.                                   *)
RecordFails(s) ==
  /\ "fail" \in Manual
  /\ unrecorded[s]
  /\ unrecorded' = [unrecorded EXCEPT ![s] = FALSE]
  /\ IF s = "scheduler" THEN tick' = "idle" /\ due' = [due EXCEPT ![s] = {}]
                        ELSE UNCHANGED <<tick, due>>
  /\ UNCHANGED <<store, auction, coins, clients, armed, ending, leftover, restarts>>
--------------------------------------------------------------------------------
(* The scheduler's tick: runScheduledTasks as far as auctions go *)

(* closeAtDeadline finds the contest running ...                           *)
BeginTick ==
  /\ tick = "idle" /\ phase = "LIVE" /\ PhaseEndsAt > now
  /\ tick' = "begun"
  /\ UNCHANGED <<store, auction, coins, clients, armed, due, unrecorded, ending,
                 leftover, restarts>>

(* ... and if it still does runAuctionTasks reads the auctions whose time  *)
(* is up.                                                                  *)
ReadExpired ==
  /\ tick = "begun" /\ phase = "LIVE"
  /\ tick' = "settling"
  /\ due' = [due EXCEPT !["scheduler"] = {p \in Live : endsAt[p] <= now}]
  /\ UNCHANGED <<store, auction, coins, clients, armed, unrecorded, ending, leftover, restarts>>

ContestHasEnded ==
  /\ tick = "begun" /\ phase = "CLOSED"
  /\ tick' = "idle"
  /\ UNCHANGED <<store, auction, coins, clients, armed, due, unrecorded, ending,
                 leftover, restarts>>

(* All of them settled: go on when the market is open and none is LIVE.    *)
(* auto_auction has its default value "1".                                 *)
AfterSettling ==
  /\ tick = "settling"
  /\ due["scheduler"] = {} /\ ~unrecorded["scheduler"]
  /\ tick' = IF MarketOpen /\ Live = {} THEN "gap" ELSE "idle"
  /\ UNCHANGED <<store, auction, coins, clients, armed, due, unrecorded, ending,
                 leftover, restarts>>

(* auction_gap_sec has passed since the last result: start the next one.   *)
CheckGap ==
  /\ tick = "gap"
  /\ IF lastEndedAt # Never /\ now - lastEndedAt < AuctionGap
     THEN tick' = "idle" /\ UNCHANGED armed
     ELSE tick' = "starting" /\ armed' = [armed EXCEPT !["scheduler"] = ResolveAuctionDuration]
  /\ UNCHANGED <<store, auction, coins, clients, due, unrecorded, ending, leftover, restarts>>
--------------------------------------------------------------------------------
(* The end of the contest: transitionTo("CLOSED") as far as auctions go *)

(* closeAtDeadline claims the phase at the start of a tick ...             *)
CloseAtDeadline ==
  /\ tick = "idle" /\ phase = "LIVE" /\ PhaseEndsAt <= now
  /\ phase' = "CLOSED" /\ tick' = "closing" /\ ending' = "read"
  /\ UNCHANGED <<now, market, settledFinal, lastEndedAt, auction, coins, clients,
                 armed, due, unrecorded, leftover, restarts>>

(* ... or the organiser ends it, whatever the scheduler is doing.          *)
EndContest ==
  /\ "end" \in Manual
  /\ phase = "LIVE"
  /\ phase' = "CLOSED" /\ ending' = "read"
  /\ UNCHANGED <<now, market, settledFinal, lastEndedAt, auction, coins, clients,
                 armed, due, unrecorded, tick, leftover, restarts>>

(* Mutant: with nothing LIVE the handler returns before the sweep.         *)
GameEndReturnsEarly ==
  /\ ending = "read"
  /\ ending' = IF Live = {} THEN "final" ELSE "settle"
  /\ due' = [due EXCEPT !["gameEnd"] = Live]
  /\ UNCHANGED <<store, auction, coins, clients, armed, unrecorded, tick, leftover, restarts>>

(* closeAuctionsForGameEnd: settle what is LIVE (SettleCore for "gameEnd") *)
GameEndReadsLive ==
  /\ ending = "read"
  /\ ending' = "settle"
  /\ due' = [due EXCEPT !["gameEnd"] = Live]
  /\ UNCHANGED <<store, auction, coins, clients, armed, unrecorded, tick, leftover, restarts>>

(* then read what never started ...                                        *)
GameEndReadsLeftover ==
  /\ ending = "settle"
  /\ due["gameEnd"] = {} /\ ~unrecorded["gameEnd"]
  /\ ending' = "sweep"
  /\ leftover' = {p \in Products : status[p] = "SCHEDULED" /\ bids[p] = {}}
  /\ UNCHANGED <<store, auction, coins, clients, armed, due, unrecorded, tick, restarts>>

(* Mutant: the delete trusts what was read.                                *)
SweptAsRead == leftover

Swept == {p \in leftover : status[p] = "SCHEDULED" /\ bids[p] = {}}

(* ... and delete the rows of it that still have not.                      *)
GameEndDeletesLeftover ==
  /\ ending = "sweep"
  /\ ending' = "final" /\ leftover' = {}
  /\ status' = [p \in Products |-> IF p \in Swept THEN "NONE" ELSE status[p]]
  /\ order' = [p \in Products |-> IF p \in Swept THEN 0 ELSE order[p]]
  /\ UNCHANGED <<store, endsAt, winner, finalPrice, bids, coins, clients,
                 armed, due, unrecorded, tick, restarts>>

(* A query of closeAuctionsForGameEnd throws: it is reported, and the end  *)
(* of the contest goes on without the rest of it.                          *)
CloseAuctionsFails ==
  /\ "fail" \in Manual
  /\ ending \in {"read", "settle", "sweep"} /\ ~unrecorded["gameEnd"]
  /\ ending' = "final" /\ leftover' = {}
  /\ due' = [due EXCEPT !["gameEnd"] = {}]
  /\ UNCHANGED <<store, auction, coins, clients, armed, unrecorded, tick, restarts>>

(* settleGame writes the final result.                                     *)
SettleGame ==
  /\ ending = "final"
  /\ ending' = "done" /\ settledFinal' = TRUE
  /\ tick' = IF tick = "closing" THEN "idle" ELSE tick
  /\ UNCHANGED <<now, phase, market, lastEndedAt, auction, coins, clients,
                 armed, due, unrecorded, leftover, restarts>>
--------------------------------------------------------------------------------
(* The rest of the world *)

(* setStatusAction opens and closes the market.                            *)
SetMarket(s) ==
  /\ "market" \in Manual
  /\ market # s
  /\ market' = s
  /\ UNCHANGED <<now, phase, settledFinal, lastEndedAt, auction, coins, clients, runners>>

AdvanceClock ==
  /\ now < MaxTime
  /\ now' = now + 1
  /\ UNCHANGED <<phase, market, settledFinal, lastEndedAt, auction, coins, clients, runners>>

(* The process stops and starts again: the database stays, every handler   *)
(* that was under way is gone, and nothing resumes an end of the contest.  *)
Restart ==
  /\ restarts < MaxRestarts
  /\ restarts' = restarts + 1
  /\ passed' = {} /\ enqueuing' = {} /\ ensure' = NoEnsure
  /\ armed' = [s \in Starters |-> 0]
  /\ due' = [s \in Settlers |-> {}]
  /\ unrecorded' = [s \in Settlers |-> FALSE]
  /\ tick' = "idle" /\ leftover' = {}
  /\ ending' = IF ending \in {"open", "done"} THEN ending ELSE "lost"
  /\ UNCHANGED <<store, auction, coins>>

Next ==
  \/ \E u \in Users : PassMarketGate(u) \/ RequestRefused(u)
  \/ \E u \in Users, p \in Products : PurchaseProduct(u, p)
  \/ \E u \in Users, p \in Products : \E amount \in 1..wallet[u] :
       Invest(u, p, amount) \/ PlaceBid(u, p, amount)
  \/ \E u \in Users, delta \in AdminDeltas : AdjustWallet(u, delta)
  \/ \E p \in Products : EnqueueGate(p) \/ EnqueueAuction(p)
  \/ EnsureAuctionsRead \/ EnsureAuctions
  \/ \E p, q \in Products : MoveAuction(p, q)
  \/ AdminArmsStart \/ AdminReadsLive
  \/ \E s \in Starters : StartNextAuction(s)
  \/ \E s \in Settlers, p \in Products : SettleCore(s, p)
  \/ \E s \in Settlers : RecordEnded(s) \/ RecordFails(s)
  \/ BeginTick \/ ReadExpired \/ ContestHasEnded \/ AfterSettling \/ CheckGap
  \/ CloseAtDeadline \/ EndContest
  \/ GameEndReadsLive \/ GameEndReadsLeftover \/ GameEndDeletesLeftover
  \/ CloseAuctionsFails \/ SettleGame
  \/ \E s \in {"open", "closed"} : SetMarket(s)
  \/ AdvanceClock \/ Restart

Spec == Init /\ [][Next]_vars

(* Time passes, the interval timer of instrumentation.ts keeps starting    *)
(* ticks, and a handler that has begun gets the answers it awaits.         *)
Fairness ==
  /\ WF_vars(AdvanceClock)
  /\ WF_vars(BeginTick) /\ WF_vars(ReadExpired) /\ WF_vars(ContestHasEnded)
  /\ WF_vars(AfterSettling) /\ WF_vars(CheckGap)
  /\ WF_vars(CloseAtDeadline)
  /\ WF_vars(GameEndReadsLive) /\ WF_vars(GameEndReadsLeftover)
  /\ WF_vars(GameEndDeletesLeftover) /\ WF_vars(SettleGame)
  /\ \A s \in Starters : WF_vars(StartNextAuction(s))
  /\ \A s \in Settlers : WF_vars(RecordEnded(s))
  /\ \A s \in Settlers, p \in Products : WF_vars(SettleCore(s, p))

FairSpec == Spec /\ Fairness
--------------------------------------------------------------------------------
(* Properties *)

(* "At any time only one auction is live" (auction.ts, reservations.ts):   *)
(* however the scheduler's and the organiser's starts interleave.          *)
OneLive == \A p, q \in Live : p = q

(* A later bid is a higher bid, by the increment at least, so the highest  *)
(* bid of an auction is one row.                                           *)
BidsRise ==
  \A p \in Products : \A b, c \in bids[p] :
    b # c => b.amount + BidIncrement <= c.amount \/ c.amount + BidIncrement <= b.amount

(* The reservation is sound: nothing a user does with bids, purchases and  *)
(* support elsewhere leaves the leader of a LIVE auction without the coins *)
(* of the leading bid.  Only an organiser's deduction can.                 *)
LeaderBacked ==
  \A p \in Live : \A b \in Highest(p) :
    b.user \in docked \/ wallet[b.user] >= b.amount

(* So an auction is won by its highest bid, at the price of that bid, and  *)
(* never by a lower one unless the organiser took coins from the leader.   *)
LeaderWins ==
  \A p \in Products : status[p] = "ENDED" =>
    /\ \A b \in Highest(p) :
         b.user \in docked \/ (winner[p] = b.user /\ finalPrice[p] = b.amount)
    /\ winner[p] # NoUser =>
         \E b \in bids[p] : b.user = winner[p] /\ b.amount = finalPrice[p]

(* Whoever bids leaves the others time to answer: the end of the auction   *)
(* is further from every bid than the anti-sniping window or, when that is *)
(* shorter, the extension.                                                 *)
TimeToAnswer ==
  \A p \in Products : status[p] \in {"LIVE", "ENDED"} => \A b \in bids[p] :
    endsAt[p] - b.at > AntiSnipeWindow \/ endsAt[p] - b.at > AntiSnipeExtend

(* Three tables tell one story: the AUCTION_WIN entries of a user are the  *)
(* auctions the user won, and Purchase and Investment rows hold what the   *)
(* PURCHASE, AUCTION_WIN and INVEST entries took.                          *)
BooksMatchSales ==
  \A u \in Users :
    /\ ledger[u]["AUCTION_WIN"] = -SumOver(finalPrice, {p \in Products : winner[p] = u})
    /\ ledger[u]["AUCTION_WIN"] + ledger[u]["PURCHASE"] = -SumOver(purchases[u], Products)
    /\ ledger[u]["INVEST"] = -SumOver(support[u], Products)

(* An ended auction stays as it ended: no second settlement, no late bid.  *)
ResultFrozen ==
  [][\A p \in Products : status[p] = "ENDED" =>
       /\ status'[p] = "ENDED"
       /\ winner'[p] = winner[p] /\ finalPrice'[p] = finalPrice[p]
       /\ bids'[p] = bids[p]]_vars

(* An auction that has gone live is not swept away with the queue, even    *)
(* when it started between the read and the delete of the sweep.           *)
LiveNotSwept ==
  [][\A p \in Products : status[p] = "LIVE" => status'[p] \in {"LIVE", "ENDED"}]_vars

(* Once the result is final no auction is won any more, so the score and   *)
(* the ledger agree: not by a handler that read the auction before the     *)
(* end, nor after closeAuctionsForGameEnd has failed.                      *)
NoWinAfterFinal ==
  [][settledFinal => /\ winner' = winner /\ finalPrice' = finalPrice
                     /\ \A u \in Users :
                          ledger'[u]["AUCTION_WIN"] = ledger[u]["AUCTION_WIN"]]_vars

(* The auction's use of the wallets is one of the coin economy.            *)
LedgerTotal(u) == ledger[u]["AUCTION_WIN"] + ledger[u]["PURCHASE"]
                  + ledger[u]["INVEST"] + ledger[u]["ADMIN"]
Accounts == INSTANCE CoinAccounts WITH posted <- [u \in Users |-> LedgerTotal(u)]
ImplementsAccounts == Accounts!AccountsSpec

(* To the players it is an auction with rising offers, one product at a    *)
(* time, that its highest offer wins, whatever the scheduler, the organiser*)
(* and failing steps do.                                                   *)
OfferOf(b) == [user |-> b.user, amount |-> b.amount]

Ascending == INSTANCE AscendingAuctions WITH
  Opening <- [p \in Products |-> StartPrice(p)],
  offers <- [p \in Products |-> {OfferOf(b) : b \in bids[p]}],
  result <- [p \in Products |-> [user |-> winner[p], amount |-> finalPrice[p]]]

ImplementsAscending == Ascending!AuctionsSpec

(* Every auction that goes live is settled in the end.                     *)
AuctionsEnd == \A p \in Products : status[p] = "LIVE" ~> status[p] = "ENDED"

(* Every product queued while the contest runs leaves the queue: it is     *)
(* auctioned, or taken out when the contest ends.                          *)
QueueEmpties ==
  \A p \in Products :
    (phase = "LIVE" /\ status[p] = "SCHEDULED") ~> status[p] # "SCHEDULED"

(* No product waits for ever, in the queue or at auction.                  *)
AuctionsProgress == AuctionsEnd /\ QueueEmpties

(* "At the end of the game the live auction is settled and the auctions   *)
(* that did not run are deleted; the next one must not start" (auction.ts): *)
(* once the result is final no auction is LIVE.                            *)
NoneLeftLive == settledFinal => Live = {}
================================================================================
