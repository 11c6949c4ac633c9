-------------------------- MODULE LiveAuction_proofs --------------------------
(* Theorems about LiveAuction, for every value of its constants.           *)
EXTENDS LiveAuction, SetSums, TLAPS

USE DEF Biddable, InWindow, MayStart, ClaimsLive, Swept

--------------------------------------------------------------------------------
(* Type correctness *)

(* A clamped duration is at least one second.                              *)
LEMMA ClampType ==
  ASSUME NEW left \in Nat, NEW n \in Nat
  PROVE  ClampAuctionDuration(left, n) \in Nat \ {0}
<1>1. CASE n = 0 \/ left = 0
  BY <1>1, TimeAssumption DEF ClampAuctionDuration
<1>2. CASE ~(n = 0 \/ left = 0)
  <2> DEFINE overhead == AuctionGap + SchedulerTick + AntiSnipeExtend
             fitted   == (left * 85) \div (n * 100) - overhead
  <2>1. n * 100 \in Nat \ {0} /\ left * 85 \in Nat
    BY <1>2
  <2>2. \A a \in Nat, b \in Nat \ {0} : a \div b \in Int
    OBVIOUS
  <2>3. (left * 85) \div (n * 100) \in Int
    BY <2>1, <2>2
  <2>4. fitted \in Int
    BY <2>3, TimeAssumption
  <2> HIDE DEF fitted
  <2>5. ClampAuctionDuration(left, n) =
          LET floored == IF fitted > MinAuctionDuration THEN fitted ELSE MinAuctionDuration
          IN  IF floored < AuctionDuration THEN floored ELSE AuctionDuration
    BY <1>2 DEF ClampAuctionDuration, fitted
  <2> QED BY <2>4, <2>5, TimeAssumption
<1> QED BY <1>1, <1>2

(* So is what resolveAuctionDuration answers.                              *)
LEMMA DurationType ==
  ASSUME TypeOK
  PROVE  ResolveAuctionDuration \in Nat \ {0}
<1> DEFINE queue == {p \in Products : status[p] = "SCHEDULED"}
           left  == IF PhaseEndsAt > now THEN PhaseEndsAt - now ELSE 0
<1>1. Cardinality(queue) \in Nat
  BY FiniteAssumption, FS_Subset, FS_CardinalityType
<1>2. left \in Nat
  BY TimeAssumption DEF TypeOK
<1>3. ClampAuctionDuration(left, Cardinality(queue)) \in Nat \ {0}
  BY <1>1, <1>2, ClampType
<1> QED BY <1>3, TimeAssumption DEF ResolveAuctionDuration

(* The next queue position is a natural number.                            *)
LEMMA NextOrdersType ==
  ASSUME TypeOK
  PROVE  NextOrders \subseteq Nat
BY DEF TypeOK, NextOrders, Rows

(* A posting that the wallet covers keeps wallet and ledger well-typed.    *)
LEMMA PostType ==
  ASSUME TypeOK, NEW u \in Users, NEW r \in Reasons, NEW delta \in Int, Post(u, r, delta)
  PROVE  wallet' \in [Users -> Nat] /\ ledger' \in [Users -> [Reasons -> Int]]
<1>1. wallet[u] + delta \in Nat
  BY DEF TypeOK, Post
<1>2. wallet' \in [Users -> Nat]
  BY <1>1 DEF TypeOK, Post
<1>3. [ledger[u] EXCEPT ![r] = @ + delta] \in [Reasons -> Int]
  BY DEF TypeOK
<1>4. ledger' = [ledger EXCEPT ![u] = [ledger[u] EXCEPT ![r] = @ + delta]]
  BY DEF TypeOK, Post
<1>5. ledger' \in [Users -> [Reasons -> Int]]
  BY <1>3, <1>4 DEF TypeOK
<1> QED BY <1>2, <1>5

(* The winner settleCore picks is a bid its owner can pay.                 *)
LEMMA WinnerIsBid ==
  ASSUME NEW B, NEW balance, NEW b \in FirstPriceWinner(B, balance)
  PROVE  b \in B /\ balance[b.user] >= b.amount
BY DEF FirstPriceWinner, BestBids

(* A contest starts well-typed.                                            *)
LEMMA TypeOKInit == Init => TypeOK
<1> SUFFICES ASSUME Init PROVE TypeOK
  OBVIOUS
<1>1. wallet \in [Users -> Nat]
  BY UserAssumption DEF Init
<1>2. /\ now \in Nat /\ restarts \in Nat
      /\ order \in [Products -> Nat] /\ endsAt \in [Products -> Nat]
      /\ finalPrice \in [Products -> Nat]
      /\ winner \in [Products -> Users \cup {NoUser}]
      /\ bids \in [Products -> SUBSET BidRow]
      /\ ledger \in [Users -> [Reasons -> Int]]
      /\ purchases \in [Users -> [Products -> Nat]]
      /\ support \in [Users -> [Products -> Nat]]
      /\ armed \in [Starters -> Nat] /\ due \in [Settlers -> SUBSET Products]
      /\ unrecorded \in [Settlers -> BOOLEAN]
  BY DEF Init
<1>3. status \in [Products -> Statuses]
  BY DEF Init, Statuses
<1>4. ensure \in [products : SUBSET Products, base : Nat]
  BY DEF Init, NoEnsure
<1> QED BY <1>1, <1>2, <1>3, <1>4 DEF Init, TypeOK

(* Every action keeps the types: one step for each of them.                *)
LEMMA TypeOKNext == TypeOK /\ [Next]_vars => TypeOK'
<1> SUFFICES ASSUME TypeOK, [Next]_vars PROVE TypeOK'
  OBVIOUS
<1> USE DEF store, auction, coins, clients, runners
<1>1. ASSUME NEW u \in Users, PassMarketGate(u) \/ RequestRefused(u) PROVE TypeOK'
  BY <1>1 DEF TypeOK, PassMarketGate, RequestRefused
<1>2. ASSUME NEW u \in Users, NEW p \in Products, PurchaseProduct(u, p) PROVE TypeOK'
  <2>1. -Price[p] \in Int /\ "PURCHASE" \in Reasons /\ Post(u, "PURCHASE", -Price[p])
    BY <1>2, PriceAssumption DEF PurchaseProduct, Reasons
  <2>2. wallet' \in [Users -> Nat] /\ ledger' \in [Users -> [Reasons -> Int]]
    BY <2>1, PostType
  <2>3. purchases' \in [Users -> [Products -> Nat]]
    <3>1. [purchases[u] EXCEPT ![p] = @ + Price[p]] \in [Products -> Nat]
      BY PriceAssumption DEF TypeOK
    <3> QED BY <1>2, <3>1 DEF TypeOK, PurchaseProduct
  <2> QED BY <1>2, <2>2, <2>3 DEF TypeOK, PurchaseProduct
<1>3. ASSUME NEW u \in Users, NEW p \in Products, NEW amount \in 1..wallet[u],
             Invest(u, p, amount)
      PROVE  TypeOK'
  <2>0. amount \in Nat
    BY DEF TypeOK
  <2>1. -amount \in Int /\ "INVEST" \in Reasons /\ Post(u, "INVEST", -amount)
    BY <1>3, <2>0 DEF Invest, Reasons
  <2>2. wallet' \in [Users -> Nat] /\ ledger' \in [Users -> [Reasons -> Int]]
    BY <2>1, PostType
  <2>3. support' \in [Users -> [Products -> Nat]]
    <3>1. [support[u] EXCEPT ![p] = @ + amount] \in [Products -> Nat]
      BY <2>0 DEF TypeOK
    <3> QED BY <1>3, <3>1 DEF TypeOK, Invest
  <2> QED BY <1>3, <2>2, <2>3 DEF TypeOK, Invest
<1>4. ASSUME NEW u \in Users, NEW delta \in AdminDeltas, AdjustWallet(u, delta) PROVE TypeOK'
  <2>1. delta \in Int /\ "ADMIN" \in Reasons /\ Post(u, "ADMIN", delta)
    BY <1>4, BoundAssumption DEF AdjustWallet, Reasons
  <2>2. wallet' \in [Users -> Nat] /\ ledger' \in [Users -> [Reasons -> Int]]
    BY <2>1, PostType
  <2> QED BY <1>4, <2>2 DEF TypeOK, AdjustWallet
<1>5. ASSUME NEW u \in Users, NEW p \in Products, NEW amount \in 1..wallet[u],
             PlaceBid(u, p, amount)
      PROVE  TypeOK'
  <2>1. [user |-> u, amount |-> amount, at |-> now] \in BidRow
    BY DEF TypeOK, BidRow
  <2>2. bids' \in [Products -> SUBSET BidRow]
    BY <1>5, <2>1 DEF TypeOK, PlaceBid
  <2>3. endsAt' \in [Products -> Nat]
    BY <1>5, TimeAssumption DEF TypeOK, PlaceBid
  <2> QED BY <1>5, <2>2, <2>3 DEF TypeOK, PlaceBid
<1>6. ASSUME NEW p \in Products, EnqueueGate(p) PROVE TypeOK'
  BY <1>6 DEF TypeOK, EnqueueGate
<1>7. ASSUME NEW p \in Products, EnqueueAuction(p) PROVE TypeOK'
  BY <1>7, NextOrdersType DEF TypeOK, EnqueueAuction, Statuses
<1>8. ASSUME EnsureAuctionsRead PROVE TypeOK'
  BY <1>8, NextOrdersType DEF TypeOK, EnsureAuctionsRead
<1>9. ASSUME EnsureAuctions PROVE TypeOK'
  <2>1. status' \in [Products -> Statuses]
    BY <1>9 DEF TypeOK, EnsureAuctions, Statuses
  <2>2. order' \in [Products -> Nat]
    <3>1. ensure.base \in Nat /\ order \in [Products -> Nat]
      BY DEF TypeOK
    <3>2. ASSUME NEW n, NEW place \in [ensure.products -> 0..(n - 1)],
                 order' = [p \in Products |-> IF p \in ensure.products
                                              THEN ensure.base + place[p] ELSE order[p]]
          PROVE  order' \in [Products -> Nat]
      <4>1. \A p \in ensure.products : place[p] \in Nat
        OBVIOUS
      <4> QED BY <3>1, <3>2, <4>1
    <3>3. CASE ensure.products \cap Rows = {}
      BY <1>9, <3>2, <3>3 DEF EnsureAuctions
    <3> QED BY <1>9, <3>1, <3>3 DEF EnsureAuctions
  <2>3. ensure' \in [products : SUBSET Products, base : Nat]
    BY <1>9 DEF EnsureAuctions, NoEnsure
  <2> QED BY <1>9, <2>1, <2>2, <2>3 DEF TypeOK, EnsureAuctions
<1>10. ASSUME NEW p \in Products, NEW q \in Products, MoveAuction(p, q) PROVE TypeOK'
  BY <1>10 DEF TypeOK, MoveAuction
<1>11. ASSUME AdminArmsStart \/ AdminReadsLive PROVE TypeOK'
  <2>1. CASE AdminArmsStart
    <3>1. armed' \in [Starters -> Nat]
      BY <2>1, DurationType DEF TypeOK, AdminArmsStart
    <3> QED BY <2>1, <3>1 DEF TypeOK, AdminArmsStart
  <2>2. CASE AdminReadsLive
    <3>1. due' \in [Settlers -> SUBSET Products]
      <4>1. PICK p \in Products : due' = [due EXCEPT !["admin"] = {p}]
        BY <2>2 DEF AdminReadsLive, Live
      <4> QED BY <4>1 DEF TypeOK
    <3> QED BY <2>2, <3>1 DEF TypeOK, AdminReadsLive
  <2> QED BY <1>11, <2>1, <2>2
<1>12. ASSUME NEW s \in Starters, StartNextAuction(s) PROVE TypeOK'
  <2>1. status' \in [Products -> Statuses] /\ endsAt' \in [Products -> Nat]
    <3>1. armed[s] \in Nat /\ now \in Nat
      BY DEF TypeOK
    <3>2. ASSUME NEW p \in Products,
                 status' = [status EXCEPT ![p] = "LIVE"],
                 endsAt' = [endsAt EXCEPT ![p] = now + armed[s]]
          PROVE  status' \in [Products -> Statuses] /\ endsAt' \in [Products -> Nat]
      BY <3>1, <3>2 DEF TypeOK, Statuses
    <3>3. ASSUME UNCHANGED <<status, endsAt>>
          PROVE  status' \in [Products -> Statuses] /\ endsAt' \in [Products -> Nat]
      BY <3>3 DEF TypeOK
    <3> QED BY <1>12, <3>2, <3>3 DEF StartNextAuction
  <2>2. armed' \in [Starters -> Nat]
    BY <1>12 DEF TypeOK, StartNextAuction
  <2> QED BY <1>12, <2>1, <2>2 DEF TypeOK, StartNextAuction
<1>13. ASSUME NEW s \in Settlers, NEW p \in Products, SettleCore(s, p) PROVE TypeOK'
  <2>1. /\ status' \in [Products -> Statuses]
        /\ unrecorded' \in [Settlers -> BOOLEAN]
        /\ due' \in [Settlers -> SUBSET Products]
    BY <1>13 DEF TypeOK, SettleCore, Statuses
  <2>2. ASSUME NEW b \in FirstPriceWinner(bids[p], wallet), ChargeWinner(p, b)
        PROVE  /\ wallet' \in [Users -> Nat] /\ ledger' \in [Users -> [Reasons -> Int]]
               /\ purchases' \in [Users -> [Products -> Nat]]
               /\ winner' \in [Products -> Users \cup {NoUser}]
               /\ finalPrice' \in [Products -> Nat]
    <3>1. b \in BidRow
      BY WinnerIsBid DEF TypeOK
    <3>2. b.user \in Users /\ b.amount \in Nat
      BY <3>1 DEF BidRow
    <3>3. -b.amount \in Int /\ "AUCTION_WIN" \in Reasons
          /\ Post(b.user, "AUCTION_WIN", -b.amount)
      BY <2>2, <3>2 DEF ChargeWinner, Reasons
    <3>4. wallet' \in [Users -> Nat] /\ ledger' \in [Users -> [Reasons -> Int]]
      BY <3>2, <3>3, PostType
    <3>5. [purchases[b.user] EXCEPT ![p] = @ + b.amount] \in [Products -> Nat]
      BY <3>2 DEF TypeOK
    <3>6. purchases' \in [Users -> [Products -> Nat]]
      BY <2>2, <3>2, <3>5 DEF TypeOK, ChargeWinner
    <3> QED BY <2>2, <3>2, <3>4, <3>6 DEF TypeOK, ChargeWinner
  <2>3. /\ wallet' \in [Users -> Nat] /\ ledger' \in [Users -> [Reasons -> Int]]
        /\ purchases' \in [Users -> [Products -> Nat]]
        /\ winner' \in [Products -> Users \cup {NoUser}]
        /\ finalPrice' \in [Products -> Nat]
    BY <1>13, <2>2 DEF TypeOK, SettleCore
  <2> QED BY <1>13, <2>1, <2>3 DEF TypeOK, SettleCore
<1>14. ASSUME NEW s \in Settlers, RecordEnded(s) \/ RecordFails(s) PROVE TypeOK'
  BY ZenonT(40), <1>14 DEF TypeOK, RecordEnded, RecordFails
<1>15. ASSUME BeginTick \/ ContestHasEnded \/ AfterSettling PROVE TypeOK'
  BY <1>15 DEF TypeOK, BeginTick, ContestHasEnded, AfterSettling
<1>16. ASSUME ReadExpired PROVE TypeOK'
  <2>1. due' \in [Settlers -> SUBSET Products]
    BY <1>16 DEF TypeOK, ReadExpired, Live
  <2> QED BY <1>16, <2>1 DEF TypeOK, ReadExpired
<1>17. ASSUME CheckGap PROVE TypeOK'
  <2>1. armed' \in [Starters -> Nat]
    BY <1>17, DurationType DEF TypeOK, CheckGap
  <2> QED BY <1>17, <2>1 DEF TypeOK, CheckGap
<1>18. ASSUME CloseAtDeadline \/ EndContest \/ SettleGame PROVE TypeOK'
  BY <1>18 DEF TypeOK, CloseAtDeadline, EndContest, SettleGame
<1>19. ASSUME GameEndReadsLive \/ GameEndReadsLeftover \/ CloseAuctionsFails PROVE TypeOK'
  <2>1. due' \in [Settlers -> SUBSET Products] /\ leftover' \in SUBSET Products
    BY <1>19 DEF TypeOK, GameEndReadsLive, GameEndReadsLeftover, CloseAuctionsFails, Live
  <2>2. CASE GameEndReadsLive
    BY <2>1, <2>2 DEF TypeOK, GameEndReadsLive
  <2>3. CASE GameEndReadsLeftover
    BY <2>1, <2>3 DEF TypeOK, GameEndReadsLeftover
  <2>4. CASE CloseAuctionsFails
    BY <2>1, <2>4 DEF TypeOK, CloseAuctionsFails
  <2> QED BY <1>19, <2>2, <2>3, <2>4
<1>20. ASSUME GameEndDeletesLeftover PROVE TypeOK'
  BY <1>20 DEF TypeOK, GameEndDeletesLeftover, Statuses
<1>21. ASSUME NEW s \in {"open", "closed"}, SetMarket(s) PROVE TypeOK'
  BY <1>21 DEF TypeOK, SetMarket
<1>22. ASSUME AdvanceClock \/ Restart PROVE TypeOK'
  <2>1. CASE AdvanceClock
    BY <2>1 DEF TypeOK, AdvanceClock
  <2>2. CASE Restart
    <3>1. /\ armed' \in [Starters -> Nat]
          /\ due' \in [Settlers -> SUBSET Products]
          /\ unrecorded' \in [Settlers -> BOOLEAN]
          /\ ensure' \in [products : SUBSET Products, base : Nat]
          /\ restarts' \in Nat
      BY <2>2 DEF TypeOK, Restart, NoEnsure
    <3> QED BY <2>2, <3>1 DEF TypeOK, Restart
  <2> QED BY <1>22, <2>1, <2>2
<1>23. ASSUME UNCHANGED vars PROVE TypeOK'
  BY <1>23 DEF TypeOK, vars
<1> QED
  BY <1>1, <1>2, <1>3, <1>4, <1>5, <1>6, <1>7, <1>8, <1>9, <1>10, <1>11, <1>12, <1>13,
     <1>14, <1>15, <1>16, <1>17, <1>18, <1>19, <1>20, <1>21, <1>22, <1>23 DEF Next

(* Every reachable state has the types the tables and the handlers expect; *)
(* in particular no wallet is ever negative.                               *)
THEOREM TypeCorrect == Spec => []TypeOK
<1>1. Init => TypeOK
  BY TypeOKInit
<1>2. TypeOK /\ [Next]_vars => TypeOK'
  BY TypeOKNext
<1> QED BY <1>1, <1>2, PTL DEF Spec
--------------------------------------------------------------------------------
(* The sums of the auction are the sums of SetSums *)

LEMMA SumOverIsSum == \A f, S : SumOver(f, S) = SumOf(f, S)
  BY DEF SumOver, SumOf, MapThenSumSet, MapThenFoldSet

(* Nothing sums to 0.                                                      *)
LEMMA SumOverEmpty == ASSUME NEW f PROVE SumOver(f, {}) = 0
  BY SumOverIsSum, SumEmpty

(* The sum over one auction is its value.                                  *)
LEMMA SumOverOne == ASSUME NEW f, NEW p, f[p] \in Int PROVE SumOver(f, {p}) = f[p]
<1>1. IsFiniteSet({p}) /\ {p} \ {p} = {}
  BY FS_Singleton
<1>2. SumOf(f, {p}) = f[p] + SumOf(f, {p} \ {p})
  BY <1>1, SumRemove
<1> QED BY <1>1, <1>2, SumOverIsSum, SumEmpty
--------------------------------------------------------------------------------
(* The inductive invariant of the auction *)

(* What TypeOK and the checked invariants need beside themselves: bids     *)
(* come only to a LIVE auction, some bid is the highest as soon as there   *)
(* is one, and only a settlement names a winner.                           *)
Unbid   == \A p \in Products : status[p] \in {"NONE", "SCHEDULED"} => bids[p] = {}
TopBid  == \A p \in Products : bids[p] # {} => Highest(p) # {}
Unsold  == \A p \in Products : status[p] # "ENDED" => winner[p] = NoUser

AuctionInv ==
  /\ OneLive /\ Unbid /\ TopBid /\ Unsold
  /\ BidsRise /\ TimeToAnswer /\ LeaderBacked /\ LeaderWins

(* The highest bid is one row, above every other.                          *)
LEMMA HighestIsTop ==
  ASSUME TypeOK, NEW p \in Products, NEW b \in Highest(p)
  PROVE  /\ b \in bids[p] /\ b \in BidRow
         /\ \A c \in bids[p] : c.amount <= b.amount
         /\ Highest(p) = {b}
<1>1. b \in bids[p] /\ \A c \in bids[p] : c \in BidRow
  BY DEF Highest, TypeOK
<1>2. \A c \in bids[p] : c.amount \in Nat /\ c.at \in Nat
  BY <1>1 DEF BidRow
<1>3. \A c \in bids[p] : c.amount <= b.amount
  BY <1>1, <1>2 DEF Highest, Outranks
<1>4. ASSUME NEW c \in Highest(p) PROVE c = b
  BY <1>1, <1>2, <1>4 DEF Highest, Outranks
<1> QED BY <1>1, <1>3, <1>4

(* The reservation: with one LIVE auction, what its leader leads with.     *)
LEMMA Reservation ==
  ASSUME TypeOK, OneLive, NEW p \in Live, NEW b \in Highest(p)
  PROVE  ReservedBuyCoins(b.user, {}) = b.amount
<1>1. p \in Products /\ Live \ {} = {p}
  BY DEF OneLive, Live
<1>2. Highest(p) = {b} /\ b.amount \in Int
  BY <1>1, HighestIsTop DEF BidRow
<1>3. LeadOf(b.user)[p] = b.amount
  BY <1>1, <1>2 DEF LeadOf
<1> QED BY <1>1, <1>2, <1>3, SumOverOne DEF ReservedBuyCoins

(* Inside the one LIVE auction nothing is reserved against a bid.          *)
LEMMA NoReservation ==
  ASSUME OneLive, NEW p \in Live, NEW u
  PROVE  ReservedBuyCoins(u, {p}) = 0
<1>1. Live \ {p} = {}
  BY DEF OneLive, Live
<1> QED BY <1>1, SumOverEmpty DEF ReservedBuyCoins

(* Steps that move products into and out of the queue, and steps that do   *)
(* not touch the auctions at all.                                          *)
LEMMA QueueSteps ==
  ASSUME TypeOK, AuctionInv,
         UNCHANGED <<endsAt, winner, finalPrice, bids, wallet, docked>>,
         \A p \in Products : \/ status'[p] = status[p]
                             \/ /\ status[p] \in {"NONE", "SCHEDULED"}
                                /\ status'[p] \in {"NONE", "SCHEDULED"}
  PROVE  AuctionInv'
<1>1. \A p : Highest(p)' = Highest(p)
  BY DEF Highest, Outranks
<1>2. Live' = Live
  BY DEF Live
<1>3. OneLive' /\ LeaderBacked'
  BY <1>1, <1>2 DEF AuctionInv, OneLive, LeaderBacked
<1>4. Unbid' /\ TopBid' /\ Unsold'
  BY <1>1 DEF AuctionInv, Unbid, TopBid, Unsold
<1>5. BidsRise'
  BY DEF AuctionInv, BidsRise
<1>6. TimeToAnswer'
  BY DEF AuctionInv, TimeToAnswer
<1>7. LeaderWins'
  BY <1>1 DEF AuctionInv, LeaderWins
<1> QED BY <1>3, <1>4, <1>5, <1>6, <1>7 DEF AuctionInv

(* Steps that move coins and leave the auctions alone.                     *)
LEMMA WalletSteps ==
  ASSUME TypeOK, AuctionInv, UNCHANGED auction, docked \subseteq docked', LeaderBacked'
  PROVE  AuctionInv'
<1> USE DEF auction
<1>1. \A p : Highest(p)' = Highest(p)
  BY DEF Highest, Outranks
<1>2. OneLive'
  BY DEF AuctionInv, OneLive, Live
<1>3. Unbid' /\ TopBid' /\ Unsold'
  BY <1>1 DEF AuctionInv, Unbid, TopBid, Unsold
<1>4. BidsRise'
  BY DEF AuctionInv, BidsRise
<1>5. TimeToAnswer'
  BY DEF AuctionInv, TimeToAnswer
<1>6. LeaderWins'
  BY <1>1 DEF AuctionInv, LeaderWins
<1> QED BY <1>2, <1>3, <1>4, <1>5, <1>6 DEF AuctionInv

(* Whoever spends what the reservation leaves keeps every leader backed.   *)
LEMMA Spending ==
  ASSUME TypeOK, AuctionInv, UNCHANGED <<auction, docked>>,
         NEW u \in Users, NEW amount \in Nat, NEW reason,
         amount <= wallet[u] - ReservedBuyCoins(u, {}),
         Post(u, reason, -amount)
  PROVE  AuctionInv'
<1> USE DEF auction
<1>1. wallet' = [wallet EXCEPT ![u] = @ - amount]
  BY DEF Post, TypeOK
<1>2. ASSUME NEW p \in Live, NEW b \in Highest(p), b.user \notin docked
      PROVE  wallet'[b.user] >= b.amount
  <2>1. p \in Products /\ b \in BidRow
    BY <1>2, HighestIsTop DEF Live
  <2>2. b.user \in Users /\ b.amount \in Nat /\ wallet[b.user] \in Nat
    BY <2>1 DEF BidRow, TypeOK
  <2>3. wallet[b.user] >= b.amount
    BY <1>2 DEF AuctionInv, LeaderBacked
  <2>4. CASE b.user = u
    <3>1. amount <= wallet[u] - b.amount
      BY <1>2, <2>4, Reservation DEF AuctionInv
    <3>2. wallet'[u] = wallet[u] - amount
      BY <1>1, <2>2 DEF TypeOK
    <3> QED BY <2>2, <2>4, <3>1, <3>2
  <2>5. CASE b.user # u
    BY <1>1, <2>2, <2>3, <2>5 DEF TypeOK
  <2> QED BY <2>4, <2>5
<1>3. Live' = Live /\ \A p : Highest(p)' = Highest(p)
  BY DEF Live, Highest, Outranks
<1>4. LeaderBacked'
  BY <1>2, <1>3 DEF LeaderBacked
<1> QED BY <1>4, WalletSteps

(* A deduction by the organiser marks its user; an addition harms nobody.  *)
LEMMA AdjustWalletStep ==
  ASSUME TypeOK, AuctionInv, NEW u \in Users, NEW delta \in AdminDeltas,
         AdjustWallet(u, delta)
  PROVE  AuctionInv'
<1> USE DEF auction, coins
<1>1. delta \in Int /\ wallet' = [wallet EXCEPT ![u] = @ + delta]
  BY BoundAssumption DEF AdjustWallet, Post
<1>2. docked' = (IF delta < 0 THEN docked \cup {u} ELSE docked) /\ UNCHANGED auction
  BY DEF AdjustWallet
<1>3. ASSUME NEW p \in Live, NEW b \in Highest(p), b.user \notin docked'
      PROVE  wallet'[b.user] >= b.amount
  <2>1. p \in Products /\ b \in BidRow
    BY HighestIsTop DEF Live
  <2>2. b.user \in Users /\ b.amount \in Nat /\ wallet[b.user] \in Nat
    BY <2>1 DEF BidRow, TypeOK
  <2>3. wallet[b.user] >= b.amount
    BY <1>2, <1>3 DEF AuctionInv, LeaderBacked
  <2>4. wallet'[b.user] = wallet[b.user] \/ (b.user = u /\ ~(delta < 0))
    BY <1>1, <1>2, <1>3, <2>2 DEF TypeOK
  <2> QED BY <1>1, <2>2, <2>3, <2>4 DEF TypeOK
<1>4. Live' = Live /\ \A p : Highest(p)' = Highest(p)
  BY <1>2 DEF Live, Highest, Outranks
<1>5. LeaderBacked'
  BY <1>3, <1>4 DEF LeaderBacked
<1>6. docked \subseteq docked'
  BY <1>2
<1> QED BY <1>2, <1>5, <1>6, WalletSteps

(* A bid becomes the one highest bid, and its owner has the coins.         *)
LEMMA PlaceBidStep ==
  ASSUME TypeOK, AuctionInv, NEW u \in Users, NEW p \in Products,
         NEW amount \in 1..wallet[u], PlaceBid(u, p, amount)
  PROVE  AuctionInv'
<1> DEFINE new == [user |-> u, amount |-> amount, at |-> now]
<1>1. /\ amount \in Nat \ {0} /\ now \in Nat /\ new \in BidRow
      /\ p \in Live /\ status' = status /\ now < endsAt[p]
  BY DEF TypeOK, PlaceBid, BidRow, Live
<1>2. /\ bids' = [bids EXCEPT ![p] = @ \cup {new}]
      /\ UNCHANGED <<winner, finalPrice, wallet, docked>>
  BY DEF PlaceBid, coins
<1>3. /\ bids'[p] = bids[p] \cup {new}
      /\ \A q \in Products : q # p => bids'[q] = bids[q]
  BY <1>2 DEF TypeOK
<1>4. \A q \in Products : q # p => Highest(q)' = Highest(q)
  BY <1>3 DEF Highest, Outranks
<1>5. ASSUME NEW c \in bids[p]
      PROVE  c \in BidRow /\ c.amount + BidIncrement <= amount
  <2>1. PICK h : h \in Highest(p)
    BY DEF AuctionInv, TopBid
  <2>2. Highest(p) = {h} /\ h \in BidRow /\ c.amount <= h.amount
    BY <2>1, HighestIsTop
  <2>3. NextMinBid(p) = h.amount + BidIncrement
    BY <2>2 DEF NextMinBid
  <2>4. c \in BidRow
    BY DEF TypeOK
  <2>5. c.amount \in Nat /\ h.amount \in Nat /\ BidIncrement \in Nat
    BY <2>2, <2>4, PriceAssumption DEF BidRow
  <2>6. amount >= h.amount + BidIncrement
    BY <2>3 DEF PlaceBid
  <2> QED BY <1>1, <2>2, <2>4, <2>5, <2>6
<1>6. Highest(p)' = {new}
  <2>1. new.amount = amount
    OBVIOUS
  <2>2. ASSUME NEW c \in bids[p] PROVE c.amount < new.amount
    BY <1>1, <1>5, <2>1, PriceAssumption DEF BidRow
  <2>3. ASSUME NEW c \in bids[p] PROVE c # new /\ c.amount \in Nat
    BY <1>1, <1>5, <2>1, <2>2 DEF BidRow
  <2>4. new \in Highest(p)'
    BY <1>1, <1>3, <2>2 DEF Highest, Outranks
  <2>5. ASSUME NEW c \in bids[p] PROVE c \notin Highest(p)'
    BY <1>1, <1>3, <2>1, <2>2, <2>3 DEF Highest, Outranks
  <2> QED BY <1>3, <2>4, <2>5 DEF Highest
<1>7. OneLive' /\ Unbid' /\ Unsold'
  BY <1>1, <1>2, <1>3 DEF AuctionInv, OneLive, Live, Unbid, Unsold
<1>8. TopBid'
  BY <1>3, <1>4, <1>6 DEF AuctionInv, TopBid
<1>9. BidsRise'
  <2>1. ASSUME NEW q \in Products, NEW b \in bids'[q], NEW c \in bids'[q], b # c
        PROVE  b.amount + BidIncrement <= c.amount \/ c.amount + BidIncrement <= b.amount
    BY <1>3, <1>5, <2>1 DEF AuctionInv, BidsRise
  <2> QED BY <2>1 DEF BidsRise
<1>10. TimeToAnswer'
  <2>1. /\ endsAt'[p] \in Nat /\ endsAt[p] \in Nat /\ endsAt'[p] >= endsAt[p]
        /\ endsAt'[p] - now > AntiSnipeWindow \/ endsAt'[p] - now > AntiSnipeExtend
        /\ \A q \in Products : q # p => endsAt'[q] = endsAt[q]
    BY <1>1, TimeAssumption DEF PlaceBid, TypeOK
  <2>2. ASSUME NEW b \in bids[p]
        PROVE  endsAt'[p] - b.at > AntiSnipeWindow \/ endsAt'[p] - b.at > AntiSnipeExtend
    <3>1. b.at \in Nat
      BY <1>5 DEF BidRow
    <3>2. endsAt[p] - b.at > AntiSnipeWindow \/ endsAt[p] - b.at > AntiSnipeExtend
      BY <1>1 DEF AuctionInv, TimeToAnswer, Live
    <3> QED BY <2>1, <3>1, <3>2, TimeAssumption
  <2>3. new.at = now
    OBVIOUS
  <2> QED BY <1>1, <1>3, <2>1, <2>2, <2>3 DEF AuctionInv, TimeToAnswer
<1>11. LeaderBacked'
  <2>1. wallet[u] - ReservedBuyCoins(u, {p}) >= amount
    BY DEF PlaceBid
  <2>2. ReservedBuyCoins(u, {p}) = 0
    BY <1>1, NoReservation DEF AuctionInv
  <2>3. wallet'[new.user] >= new.amount
    BY <1>1, <1>2, <2>1, <2>2 DEF TypeOK
  <2>4. Live' = {p}
    BY <1>1 DEF AuctionInv, OneLive, Live
  <2> QED BY <1>6, <2>3, <2>4 DEF LeaderBacked
<1>12. LeaderWins'
  <2>1. ASSUME NEW q \in Products, status'[q] = "ENDED" PROVE q # p
    BY <1>1, <2>1 DEF Live
  <2> QED BY <1>1, <1>2, <1>3, <1>4, <2>1 DEF AuctionInv, LeaderWins
<1> QED BY <1>7, <1>8, <1>9, <1>10, <1>11, <1>12 DEF AuctionInv

(* An auction starts with no bids, and only when no other one is LIVE.     *)
LEMMA StartStep ==
  ASSUME TypeOK, AuctionInv, NEW s \in Starters, StartNextAuction(s)
  PROVE  AuctionInv'
<1>1. UNCHANGED <<winner, finalPrice, bids, wallet, docked>>
  BY DEF StartNextAuction, coins
<1>2. CASE UNCHANGED <<status, endsAt>>
  BY <1>1, <1>2, QueueSteps
<1>3. CASE ~UNCHANGED <<status, endsAt>>
  <2>1. PICK p \in Products : /\ status[p] = "SCHEDULED" /\ Live = {}
                              /\ status' = [status EXCEPT ![p] = "LIVE"]
                              /\ endsAt' = [endsAt EXCEPT ![p] = now + armed[s]]
    BY <1>3 DEF StartNextAuction
  <2>2. /\ Live' = {p} /\ bids[p] = {} /\ status'[p] = "LIVE"
        /\ \A q \in Products : q # p => status'[q] = status[q] /\ endsAt'[q] = endsAt[q]
    BY <2>1 DEF AuctionInv, Unbid, Live, TypeOK
  <2>3. \A q : Highest(q)' = Highest(q)
    BY <1>1 DEF Highest, Outranks
  <2>4. OneLive' /\ Unbid' /\ TopBid' /\ Unsold'
    BY <1>1, <2>1, <2>2, <2>3 DEF AuctionInv, OneLive, Unbid, TopBid, Unsold
  <2>5. BidsRise'
    BY <1>1 DEF AuctionInv, BidsRise
  <2>6. TimeToAnswer'
    BY <1>1, <2>2 DEF AuctionInv, TimeToAnswer
  <2>7. LeaderBacked'
    BY <1>1, <2>2 DEF LeaderBacked, Highest
  <2>8. LeaderWins'
    BY <1>1, <2>2, <2>3 DEF AuctionInv, LeaderWins
  <2> QED BY <2>4, <2>5, <2>6, <2>7, <2>8 DEF AuctionInv
<1> QED BY <1>2, <1>3

(* A leader whose coins are there is the winner settleCore picks.          *)
LEMMA BackedLeaderIsPicked ==
  ASSUME TypeOK, NEW p \in Products, NEW b \in Highest(p), wallet[b.user] >= b.amount
  PROVE  FirstPriceWinner(bids[p], wallet) = {b}
<1>1. b \in bids[p] /\ \A c \in bids[p] : c \in BidRow
  BY HighestIsTop DEF TypeOK
<1>2. \A c \in bids[p] : c.amount \in Nat /\ c.at \in Nat
  BY <1>1 DEF BidRow
<1>3. \A c \in bids[p] : c = b \/ Outranks(b, c)
  BY DEF Highest
<1>4. \A c \in bids[p] : c # b => ~Outranks(c, b)
  BY <1>1, <1>2, <1>3 DEF Outranks
<1>5. b \in BestBids(bids[p])
  BY <1>1, <1>3 DEF BestBids
<1>6. b \in FirstPriceWinner(bids[p], wallet)
  BY <1>3, <1>5 DEF FirstPriceWinner, BestBids
<1>7. ASSUME NEW c \in FirstPriceWinner(bids[p], wallet) PROVE c = b
  BY <1>4, <1>5, <1>7 DEF FirstPriceWinner, BestBids
<1> QED BY <1>6, <1>7

(* A settlement leaves no auction LIVE and names the backed leader.        *)
LEMMA SettleStep ==
  ASSUME TypeOK, AuctionInv, NEW s \in Settlers, NEW p \in Products, SettleCore(s, p)
  PROVE  AuctionInv'
<1> DEFINE picked == FirstPriceWinner(bids[p], wallet)
<1>1. UNCHANGED <<endsAt, bids, docked>>
  BY DEF SettleCore
<1>2. CASE UNCHANGED <<status, wallet, winner, finalPrice>>
  BY <1>1, <1>2, QueueSteps
<1>3. CASE ~UNCHANGED <<status, wallet, winner, finalPrice>>
  <2>1. /\ status[p] = "LIVE" /\ status' = [status EXCEPT ![p] = "ENDED"]
        /\ IF picked = {} THEN UNCHANGED <<winner, finalPrice>>
                          ELSE \E b \in picked : ChargeWinner(p, b)
    BY <1>3 DEF SettleCore
  <2>2. /\ status'[p] = "ENDED"
        /\ \A q \in Products : q # p => status'[q] = status[q]
    BY <2>1 DEF TypeOK
  <2>3. \A q \in Products : q # p => winner'[q] = winner[q] /\ finalPrice'[q] = finalPrice[q]
    BY <2>1 DEF ChargeWinner, TypeOK
  <2>4. Live' = {}
    BY <2>1, <2>2 DEF AuctionInv, OneLive, Live
  <2>5. \A q : Highest(q)' = Highest(q)
    BY <1>1 DEF Highest, Outranks
  <2>6. OneLive' /\ LeaderBacked'
    BY <2>4 DEF OneLive, LeaderBacked
  <2>7. Unbid' /\ TopBid' /\ Unsold'
    BY <1>1, <2>2, <2>3, <2>5 DEF AuctionInv, Unbid, TopBid, Unsold
  <2>8. BidsRise'
    BY <1>1 DEF AuctionInv, BidsRise
  <2>9. TimeToAnswer'
    BY <1>1, <2>1, <2>2 DEF AuctionInv, TimeToAnswer
  <2>10. ASSUME NEW b \in Highest(p), b.user \notin docked
         PROVE  winner'[p] = b.user /\ finalPrice'[p] = b.amount
    <3>1. wallet[b.user] >= b.amount
      BY <2>1, <2>10 DEF AuctionInv, LeaderBacked, Live
    <3>2. picked = {b}
      BY <3>1, BackedLeaderIsPicked
    <3>3. ChargeWinner(p, b)
      BY <2>1, <3>2
    <3> QED BY <3>3 DEF ChargeWinner, TypeOK
  <2>11. ASSUME winner'[p] # NoUser
         PROVE  \E b \in bids[p] : b.user = winner'[p] /\ b.amount = finalPrice'[p]
    <3>1. winner[p] = NoUser
      BY <2>1 DEF AuctionInv, Unsold
    <3>2. PICK b \in picked : ChargeWinner(p, b)
      BY <2>1, <2>11, <3>1
    <3>3. b \in bids[p]
      BY WinnerIsBid
    <3>4. winner'[p] = b.user /\ finalPrice'[p] = b.amount
      BY <3>2 DEF ChargeWinner, TypeOK
    <3> QED BY <3>3, <3>4
  <2>12. LeaderWins'
    BY <1>1, <2>2, <2>3, <2>5, <2>10, <2>11 DEF AuctionInv, LeaderWins
  <2> QED BY <2>6, <2>7, <2>8, <2>9, <2>12 DEF AuctionInv
<1> QED BY <1>2, <1>3

(* No auction, no bid: the invariant holds at the start.                   *)
LEMMA AuctionInvInit == Init => AuctionInv
BY DEF Init, AuctionInv, OneLive, Live, Unbid, TopBid, Unsold, BidsRise,
       TimeToAnswer, LeaderBacked, LeaderWins

(* Every action keeps the invariant: one step for each of them.            *)
LEMMA AuctionInvNext == TypeOK /\ AuctionInv /\ [Next]_vars => AuctionInv'
<1> SUFFICES ASSUME TypeOK, AuctionInv, [Next]_vars PROVE AuctionInv'
  OBVIOUS
<1> USE DEF store, auction, coins, clients, runners
<1>1. ASSUME NEW u \in Users, PassMarketGate(u) \/ RequestRefused(u) PROVE AuctionInv'
  BY <1>1, QueueSteps DEF PassMarketGate, RequestRefused
<1>2. ASSUME NEW u \in Users, NEW p \in Products, PurchaseProduct(u, p) PROVE AuctionInv'
  BY <1>2, Spending, PriceAssumption DEF PurchaseProduct
<1>3. ASSUME NEW u \in Users, NEW p \in Products, NEW amount \in 1..wallet[u],
             Invest(u, p, amount)
      PROVE  AuctionInv'
  <2>1. amount \in Nat
    BY DEF TypeOK
  <2> QED BY <1>3, <2>1, Spending DEF Invest
<1>4. ASSUME NEW p \in Products, EnqueueGate(p) PROVE AuctionInv'
  BY <1>4, QueueSteps DEF EnqueueGate
<1>5. ASSUME NEW p \in Products, EnqueueAuction(p) PROVE AuctionInv'
  BY <1>5, QueueSteps DEF EnqueueAuction, TypeOK
<1>6. ASSUME EnsureAuctionsRead PROVE AuctionInv'
  BY <1>6, QueueSteps DEF EnsureAuctionsRead
<1>7. ASSUME EnsureAuctions PROVE AuctionInv'
  <2>1. \A p \in Products : \/ status'[p] = status[p]
                            \/ status[p] = "NONE" /\ status'[p] = "SCHEDULED"
    BY <1>7 DEF EnsureAuctions, Rows
  <2>2. UNCHANGED <<endsAt, winner, finalPrice, bids, wallet, docked>>
    BY <1>7 DEF EnsureAuctions
  <2> QED BY <2>1, <2>2, QueueSteps
<1>8. ASSUME NEW p \in Products, NEW q \in Products, MoveAuction(p, q) PROVE AuctionInv'
  BY <1>8, QueueSteps DEF MoveAuction
<1>9. ASSUME AdminArmsStart \/ AdminReadsLive PROVE AuctionInv'
  BY <1>9, QueueSteps DEF AdminArmsStart, AdminReadsLive
<1>10. ASSUME NEW s \in Settlers, RecordEnded(s) \/ RecordFails(s) PROVE AuctionInv'
  BY <1>10, QueueSteps DEF RecordEnded, RecordFails
<1>11. ASSUME BeginTick \/ ReadExpired \/ ContestHasEnded \/ AfterSettling \/ CheckGap
       PROVE  AuctionInv'
  BY <1>11, QueueSteps DEF BeginTick, ReadExpired, ContestHasEnded, AfterSettling, CheckGap
<1>12. ASSUME CloseAtDeadline \/ EndContest \/ SettleGame PROVE AuctionInv'
  BY <1>12, QueueSteps DEF CloseAtDeadline, EndContest, SettleGame
<1>13. ASSUME GameEndReadsLive \/ GameEndReadsLeftover \/ CloseAuctionsFails PROVE AuctionInv'
  BY <1>13, QueueSteps DEF GameEndReadsLive, GameEndReadsLeftover, CloseAuctionsFails
<1>14. ASSUME GameEndDeletesLeftover PROVE AuctionInv'
  BY <1>14, QueueSteps DEF GameEndDeletesLeftover
<1>15. ASSUME NEW s \in {"open", "closed"}, SetMarket(s) PROVE AuctionInv'
  BY <1>15, QueueSteps DEF SetMarket
<1>16. ASSUME AdvanceClock \/ Restart PROVE AuctionInv'
  BY <1>16, QueueSteps DEF AdvanceClock, Restart
<1>17. ASSUME UNCHANGED vars PROVE AuctionInv'
  BY <1>17, QueueSteps DEF vars
<1> QED
  BY <1>1, <1>2, <1>3, <1>4, <1>5, <1>6, <1>7, <1>8, <1>9, <1>10, <1>11, <1>12, <1>13,
     <1>14, <1>15, <1>16, <1>17, AdjustWalletStep, PlaceBidStep, StartStep, SettleStep
  DEF Next

(* The invariant holds in every reachable state.                           *)
LEMMA AuctionInvariant == Spec => [](TypeOK /\ AuctionInv)
<1>1. Init => TypeOK /\ AuctionInv
  BY TypeOKInit, AuctionInvInit
<1>2. TypeOK /\ AuctionInv /\ [Next]_vars => (TypeOK /\ AuctionInv)'
  BY TypeOKNext, AuctionInvNext
<1> QED BY <1>1, <1>2, PTL DEF Spec

(* However the starts of the scheduler and of the organiser interleave, at *)
(* most one auction is live.                                               *)
THEOREM AtMostOneLive == Spec => []OneLive
<1>1. AuctionInv => OneLive
  BY DEF AuctionInv
<1> QED BY <1>1, AuctionInvariant, PTL

(* Bids on one auction differ by the increment at least.                   *)
THEOREM BidsAlwaysRise == Spec => []BidsRise
<1>1. AuctionInv => BidsRise
  BY DEF AuctionInv
<1> QED BY <1>1, AuctionInvariant, PTL

(* The reservation keeps the leading bid of every live auction covered,    *)
(* whatever else its owner does; only an organiser's deduction breaks it.  *)
THEOREM LeaderAlwaysBacked == Spec => []LeaderBacked
<1>1. AuctionInv => LeaderBacked
  BY DEF AuctionInv
<1> QED BY <1>1, AuctionInvariant, PTL

(* So the highest bid wins, at its own price.                              *)
THEOREM HighestBidWins == Spec => []LeaderWins
<1>1. AuctionInv => LeaderWins
  BY DEF AuctionInv
<1> QED BY <1>1, AuctionInvariant, PTL

(* No bid comes too late to be answered.                                   *)
THEOREM TimeToAnswerAlways == Spec => []TimeToAnswer
<1>1. AuctionInv => TimeToAnswer
  BY DEF AuctionInv
<1> QED BY <1>1, AuctionInvariant, PTL
--------------------------------------------------------------------------------
(* What a step may never do *)

(* Only settling, bidding, the queue and the sweep change an auction.      *)
LEMMA UntouchedAuctions ==
  ASSUME TypeOK, [Next]_vars
  PROVE  \/ UNCHANGED <<status, winner, finalPrice, bids>>
         \/ \E u \in Users, p \in Products : \E amount \in 1..wallet[u] : PlaceBid(u, p, amount)
         \/ \E p \in Products : EnqueueAuction(p)
         \/ EnsureAuctions \/ GameEndDeletesLeftover
         \/ \E s \in Starters : StartNextAuction(s)
         \/ \E s \in Settlers, p \in Products : SettleCore(s, p)
BY DEF Next, vars, store, auction, coins, clients, runners,
       PassMarketGate, RequestRefused, PurchaseProduct, Invest, AdjustWallet,
       EnqueueGate, EnsureAuctionsRead, MoveAuction, AdminArmsStart, AdminReadsLive,
       RecordEnded, RecordFails, BeginTick, ReadExpired, ContestHasEnded,
       AfterSettling, CheckGap, CloseAtDeadline, EndContest,
       GameEndReadsLive, GameEndReadsLeftover, CloseAuctionsFails, SettleGame,
       SetMarket, AdvanceClock, Restart

(* What no step does to an ended auction, nor to a live one.               *)
LEMMA AuctionStep ==
  ASSUME TypeOK, [Next]_vars, NEW p \in Products
  PROVE  /\ status[p] = "ENDED" => /\ status'[p] = "ENDED"
                                   /\ winner'[p] = winner[p] /\ finalPrice'[p] = finalPrice[p]
                                   /\ bids'[p] = bids[p]
         /\ status[p] = "LIVE" => status'[p] \in {"LIVE", "ENDED"}
<1> USE DEF auction
<1>1. CASE UNCHANGED <<status, winner, finalPrice, bids>>
  BY <1>1
<1>2. ASSUME NEW u \in Users, NEW q \in Products, NEW amount \in 1..wallet[u],
             PlaceBid(u, q, amount)
      PROVE  /\ status' = status /\ winner' = winner /\ finalPrice' = finalPrice
             /\ status[p] = "ENDED" => bids'[p] = bids[p]
  BY <1>2 DEF PlaceBid, TypeOK
<1>3. ASSUME NEW q \in Products, EnqueueAuction(q)
      PROVE  /\ winner' = winner /\ finalPrice' = finalPrice /\ bids' = bids
             /\ status[p] \in {"LIVE", "ENDED"} => status'[p] = status[p]
  BY <1>3 DEF EnqueueAuction, TypeOK
<1>4. ASSUME EnsureAuctions
      PROVE  /\ winner' = winner /\ finalPrice' = finalPrice /\ bids' = bids
             /\ status[p] \in {"LIVE", "ENDED"} => status'[p] = status[p]
  BY <1>4 DEF EnsureAuctions, Rows
<1>5. ASSUME GameEndDeletesLeftover
      PROVE  /\ winner' = winner /\ finalPrice' = finalPrice /\ bids' = bids
             /\ status[p] \in {"LIVE", "ENDED"} => status'[p] = status[p]
  BY <1>5 DEF GameEndDeletesLeftover
<1>6. ASSUME NEW s \in Starters, StartNextAuction(s)
      PROVE  /\ winner' = winner /\ finalPrice' = finalPrice /\ bids' = bids
             /\ status[p] \in {"LIVE", "ENDED"} => status'[p] = status[p]
  BY <1>6 DEF StartNextAuction, TypeOK
<1>7. ASSUME NEW s \in Settlers, NEW q \in Products, SettleCore(s, q)
      PROVE  /\ status[p] = "ENDED" => /\ status'[p] = "ENDED"
                                       /\ winner'[p] = winner[p]
                                       /\ finalPrice'[p] = finalPrice[p]
                                       /\ bids'[p] = bids[p]
             /\ status[p] = "LIVE" => status'[p] \in {"LIVE", "ENDED"}
  BY <1>7 DEF SettleCore, ChargeWinner, TypeOK
<1> QED BY <1>1, <1>2, <1>3, <1>4, <1>5, <1>6, <1>7, UntouchedAuctions

(* An ended auction is settled once and takes no late bid.                 *)
THEOREM ResultsAreFrozen == Spec => ResultFrozen
<1>1. TypeOK /\ [Next]_vars =>
        [\A p \in Products : status[p] = "ENDED" =>
           /\ status'[p] = "ENDED"
           /\ winner'[p] = winner[p] /\ finalPrice'[p] = finalPrice[p]
           /\ bids'[p] = bids[p]]_vars
  BY AuctionStep
<1> QED BY <1>1, TypeCorrect, PTL DEF Spec, ResultFrozen

(* The sweep at the end of the contest takes no auction that went live.    *)
THEOREM LiveIsNotSwept == Spec => LiveNotSwept
<1>1. TypeOK /\ [Next]_vars =>
        [\A p \in Products : status[p] = "LIVE" => status'[p] \in {"LIVE", "ENDED"}]_vars
  BY AuctionStep
<1> QED BY <1>1, TypeCorrect, PTL DEF Spec, LiveNotSwept

(* A posting for another reason is not an AUCTION_WIN.                     *)
LEMMA OtherReasons ==
  ASSUME TypeOK, NEW u \in Users, NEW r, r # "AUCTION_WIN", NEW delta, Post(u, r, delta)
  PROVE  \A v \in Users : ledger'[v]["AUCTION_WIN"] = ledger[v]["AUCTION_WIN"]
<1>1. ledger \in [Users -> [Reasons -> Int]] /\ "AUCTION_WIN" \in Reasons
  BY DEF TypeOK, Reasons
<1>2. ledger' = [ledger EXCEPT ![u] = [ledger[u] EXCEPT ![r] = @ + delta]]
  BY DEF Post
<1> QED BY <1>1, <1>2

(* No step after the final settlement wins an auction.                     *)
LEMMA FinalStep ==
  ASSUME TypeOK, settledFinal, [Next]_vars
  PROVE  /\ winner' = winner /\ finalPrice' = finalPrice
         /\ \A v \in Users : ledger'[v]["AUCTION_WIN"] = ledger[v]["AUCTION_WIN"]
<1> USE DEF auction
<1>1. ASSUME NEW u \in Users, NEW p \in Products, PurchaseProduct(u, p)
      PROVE  /\ winner' = winner /\ finalPrice' = finalPrice
             /\ \A v \in Users : ledger'[v]["AUCTION_WIN"] = ledger[v]["AUCTION_WIN"]
  BY <1>1, OtherReasons DEF PurchaseProduct
<1>2. ASSUME NEW u \in Users, NEW p \in Products, NEW amount, Invest(u, p, amount)
      PROVE  /\ winner' = winner /\ finalPrice' = finalPrice
             /\ \A v \in Users : ledger'[v]["AUCTION_WIN"] = ledger[v]["AUCTION_WIN"]
  BY <1>2, OtherReasons DEF Invest
<1>3. ASSUME NEW u \in Users, NEW delta, AdjustWallet(u, delta)
      PROVE  /\ winner' = winner /\ finalPrice' = finalPrice
             /\ \A v \in Users : ledger'[v]["AUCTION_WIN"] = ledger[v]["AUCTION_WIN"]
  BY <1>3, OtherReasons DEF AdjustWallet
<1>4. ASSUME NEW s \in Settlers, NEW p \in Products, SettleCore(s, p)
      PROVE  UNCHANGED <<winner, finalPrice, ledger>>
  BY <1>4 DEF SettleCore, SettleRefused
<1>5. CASE UNCHANGED <<winner, finalPrice, ledger>>
  BY <1>5
<1>6. \/ UNCHANGED <<winner, finalPrice, ledger>>
      \/ \E u \in Users, p \in Products : PurchaseProduct(u, p)
      \/ \E u \in Users, p \in Products : \E amount \in 1..wallet[u] : Invest(u, p, amount)
      \/ \E u \in Users, delta \in AdminDeltas : AdjustWallet(u, delta)
      \/ \E s \in Settlers, p \in Products : SettleCore(s, p)
  BY ZenonT(40) DEF Next, vars, store, coins, clients, runners,
         PassMarketGate, RequestRefused, PlaceBid, EnqueueGate, EnqueueAuction,
         EnsureAuctionsRead, EnsureAuctions, MoveAuction, AdminArmsStart, AdminReadsLive,
         StartNextAuction, RecordEnded, RecordFails, BeginTick, ReadExpired,
         ContestHasEnded, AfterSettling, CheckGap,
         CloseAtDeadline, EndContest, GameEndReadsLive, GameEndReadsLeftover,
         GameEndDeletesLeftover, CloseAuctionsFails, SettleGame, SetMarket,
         AdvanceClock, Restart
<1> QED BY <1>1, <1>2, <1>3, <1>4, <1>5, <1>6

(* After the final settlement no auction is won, whoever still tries to    *)
(* settle one.                                                             *)
THEOREM NoWinAfterFinalSettlement == Spec => NoWinAfterFinal
<1>1. TypeOK /\ [Next]_vars =>
        [settledFinal => /\ winner' = winner /\ finalPrice' = finalPrice
                         /\ \A u \in Users :
                              ledger'[u]["AUCTION_WIN"] = ledger[u]["AUCTION_WIN"]]_vars
  BY FinalStep
<1> QED BY <1>1, TypeCorrect, PTL DEF Spec, NoWinAfterFinal
--------------------------------------------------------------------------------
(* The auction implements the coin economy *)

(* Posting one entry is one booking of the coin economy.                   *)
LEMMA PostBooks ==
  ASSUME TypeOK, NEW u \in Users, NEW r \in Reasons, NEW delta \in Int, Post(u, r, delta)
  PROVE  Accounts!Book
<1>1. wallet' \in [Users -> Nat] /\ ledger' \in [Users -> [Reasons -> Int]]
  BY PostType
<1>2. ledger \in [Users -> [Reasons -> Int]] /\ wallet \in [Users -> Nat]
  BY DEF TypeOK
<1>3. /\ ledger' = [ledger EXCEPT ![u] = [ledger[u] EXCEPT ![r] = @ + delta]]
      /\ wallet' = [wallet EXCEPT ![u] = @ + delta]
  BY DEF Post
<1>4. \A v \in Users : LedgerTotal(v)' \in Int
  BY <1>1 DEF LedgerTotal, Reasons
<1>5. ASSUME NEW v \in Users
      PROVE  wallet'[v] - wallet[v] = LedgerTotal(v)' - LedgerTotal(v)
  <2>1. CASE v = u
    <3>1. wallet'[u] = wallet[u] + delta
      BY <1>2, <1>3
    <3>2. \A x \in Reasons : ledger'[u][x] = IF x = r THEN ledger[u][x] + delta
                                                      ELSE ledger[u][x]
      BY <1>2, <1>3
    <3>3. \A x \in Reasons : ledger[u][x] \in Int
      BY <1>2
    <3>4. LedgerTotal(u)' = LedgerTotal(u) + delta
      BY <3>2, <3>3 DEF LedgerTotal, Reasons
    <3>5. LedgerTotal(u) \in Int
      BY <3>3 DEF LedgerTotal, Reasons
    <3> QED BY <1>2, <2>1, <3>1, <3>4, <3>5
  <2>2. CASE v # u
    <3>1. wallet'[v] = wallet[v] /\ ledger'[v] = ledger[v]
      BY <1>2, <1>3, <2>2
    <3>2. LedgerTotal(v)' = LedgerTotal(v) /\ LedgerTotal(v) \in Int
      BY <1>2, <3>1 DEF LedgerTotal, Reasons
    <3> QED BY <1>2, <3>1, <3>2
  <2> QED BY <2>1, <2>2
<1> QED BY <1>1, <1>4, <1>5 DEF Accounts!Book

(* Every step books, or leaves wallets and ledger alone.                   *)
LEMMA BookStep ==
  ASSUME TypeOK, [Next]_vars
  PROVE  Accounts!Book \/ UNCHANGED <<wallet, ledger>>
<1>1. ASSUME NEW u \in Users, NEW p \in Products, PurchaseProduct(u, p) PROVE Accounts!Book
  <2>1. -Price[p] \in Int /\ "PURCHASE" \in Reasons
    BY PriceAssumption DEF Reasons
  <2> QED BY <1>1, <2>1, PostBooks DEF PurchaseProduct
<1>2. ASSUME NEW u \in Users, NEW p \in Products, NEW amount \in 1..wallet[u],
             Invest(u, p, amount)
      PROVE  Accounts!Book
  <2>1. -amount \in Int /\ "INVEST" \in Reasons
    BY DEF TypeOK, Reasons
  <2> QED BY <1>2, <2>1, PostBooks DEF Invest
<1>3. ASSUME NEW u \in Users, NEW delta \in AdminDeltas, AdjustWallet(u, delta)
      PROVE  Accounts!Book
  <2>1. delta \in Int /\ "ADMIN" \in Reasons
    BY BoundAssumption DEF Reasons
  <2> QED BY <1>3, <2>1, PostBooks DEF AdjustWallet
<1>4. ASSUME NEW s \in Settlers, NEW p \in Products, SettleCore(s, p)
      PROVE  Accounts!Book \/ UNCHANGED <<wallet, ledger>>
  <2>1. ASSUME NEW b \in FirstPriceWinner(bids[p], wallet), ChargeWinner(p, b)
        PROVE  Accounts!Book
    <3>1. b \in BidRow
      BY WinnerIsBid DEF TypeOK
    <3>2. b.user \in Users /\ -b.amount \in Int /\ "AUCTION_WIN" \in Reasons
      BY <3>1 DEF BidRow, Reasons
    <3> QED BY <2>1, <3>2, PostBooks DEF ChargeWinner
  <2> QED BY <1>4, <2>1 DEF SettleCore
<1>5. ASSUME NEW u \in Users, NEW p \in Products, NEW amount \in 1..wallet[u],
             PlaceBid(u, p, amount)
      PROVE  UNCHANGED <<wallet, ledger>>
  BY <1>5 DEF PlaceBid, coins
<1>6. ASSUME NEW p \in Products, NEW q \in Products,
             EnqueueGate(p) \/ EnqueueAuction(p) \/ MoveAuction(p, q)
      PROVE  UNCHANGED <<wallet, ledger>>
  BY <1>6 DEF EnqueueGate, EnqueueAuction, MoveAuction, coins
<1>7. ASSUME EnsureAuctionsRead \/ EnsureAuctions \/ AdminArmsStart \/ AdminReadsLive
      PROVE  UNCHANGED <<wallet, ledger>>
  BY <1>7 DEF EnsureAuctionsRead, EnsureAuctions, AdminArmsStart, AdminReadsLive, coins
<1>8. ASSUME NEW s \in Starters, StartNextAuction(s) PROVE UNCHANGED <<wallet, ledger>>
  BY <1>8 DEF StartNextAuction, coins
<1>9. ASSUME NEW s \in Settlers, RecordEnded(s) \/ RecordFails(s)
      PROVE  UNCHANGED <<wallet, ledger>>
  BY <1>9 DEF RecordEnded, RecordFails, coins
<1>10. ASSUME \/ BeginTick \/ ReadExpired \/ ContestHasEnded \/ AfterSettling \/ CheckGap
              \/ CloseAtDeadline \/ EndContest
              \/ GameEndReadsLive \/ GameEndReadsLeftover \/ GameEndDeletesLeftover
              \/ CloseAuctionsFails \/ SettleGame \/ AdvanceClock \/ Restart
              \/ UNCHANGED vars
       PROVE  UNCHANGED <<wallet, ledger>>
  BY <1>10 DEF BeginTick, ReadExpired, ContestHasEnded, AfterSettling, CheckGap,
               CloseAtDeadline, EndContest,
               GameEndReadsLive, GameEndReadsLeftover, GameEndDeletesLeftover,
               CloseAuctionsFails, SettleGame, AdvanceClock, Restart, vars, coins
<1>11. ASSUME NEW u \in Users, PassMarketGate(u) \/ RequestRefused(u)
       PROVE  UNCHANGED <<wallet, ledger>>
  BY <1>11 DEF PassMarketGate, RequestRefused, coins
<1>12. ASSUME NEW s \in {"open", "closed"}, SetMarket(s) PROVE UNCHANGED <<wallet, ledger>>
  BY <1>12 DEF SetMarket, coins
<1> QED
  BY <1>1, <1>2, <1>3, <1>4, <1>5, <1>6, <1>7, <1>8, <1>9, <1>10, <1>11, <1>12 DEF Next

(* Whatever the auctions, the market, the support of ideas and the         *)
(* organiser do with coins, each step is one booking of the coin economy.  *)
THEOREM AuctionImplementsAccounts == Spec => ImplementsAccounts
<1>1. Init => Accounts!AccountsInit
  BY UserAssumption DEF Init, Accounts!AccountsInit, LedgerTotal, Reasons
<1>2. TypeOK /\ [Next]_vars => [Accounts!Book]_(Accounts!accountVars)
  <2> SUFFICES ASSUME TypeOK, [Next]_vars, UNCHANGED <<wallet, ledger>>
               PROVE  UNCHANGED Accounts!accountVars
    BY BookStep
  <2>1. \A u : LedgerTotal(u)' = LedgerTotal(u)
    BY DEF LedgerTotal
  <2> QED BY <2>1 DEF Accounts!accountVars
<1> QED BY <1>1, <1>2, TypeCorrect, PTL DEF Spec, ImplementsAccounts, Accounts!AccountsSpec
--------------------------------------------------------------------------------
(* The books of the sales *)

(* A user's books, and what they are made of: the user's row of the ledger *)
(* and of the two tables of sales, and the auctions the user won.          *)
WonBy(u) == {p \in Products : winner[p] = u}
BooksOf(u) ==
  /\ ledger[u]["AUCTION_WIN"] = -SumOver(finalPrice, WonBy(u))
  /\ ledger[u]["AUCTION_WIN"] + ledger[u]["PURCHASE"] = -SumOver(purchases[u], Products)
  /\ ledger[u]["INVEST"] = -SumOver(support[u], Products)

(* Adding to one row of a table of sales adds as much to the user's sum.   *)
LEMMA SaleAdds ==
  ASSUME NEW row \in [Products -> Nat], NEW p \in Products, NEW n \in Nat
  PROVE  /\ SumOver([row EXCEPT ![p] = @ + n], Products) = SumOver(row, Products) + n
         /\ SumOver(row, Products) \in Int
<1> DEFINE new == [row EXCEPT ![p] = @ + n]
<1>1. /\ \A q \in Products : row[q] \in Int
      /\ new[p] = row[p] + n
      /\ \A q \in Products \ {p} : new[q] = row[q]
  OBVIOUS
<1> HIDE DEF new
<1>2. row[p] \in Int /\ new[p] \in Int
  BY <1>1
<1>3. SumOf(new, Products) = SumOf(row, Products) + new[p] - row[p]
  BY <1>1, <1>2, FiniteAssumption, SumChange
<1>4. SumOf(row, Products) \in Int
  BY <1>1, FiniteAssumption, SumIsInt
<1>5. SumOf(new, Products) = SumOf(row, Products) + n
  BY <1>1, <1>2, <1>3, <1>4
<1> QED BY <1>4, <1>5, SumOverIsSum DEF new

(* One entry changes one reason of one user.                               *)
LEMMA PostEntries ==
  ASSUME TypeOK, NEW u \in Users, NEW r \in Reasons, NEW delta \in Int, Post(u, r, delta)
  PROVE  /\ \A v \in Users : v # u => ledger'[v] = ledger[v]
         /\ ledger'[u][r] = ledger[u][r] + delta
         /\ \A x \in Reasons : x # r => ledger'[u][x] = ledger[u][x]
<1>1. ledger \in [Users -> [Reasons -> Int]]
  BY DEF TypeOK
<1>2. ledger' = [ledger EXCEPT ![u] = [ledger[u] EXCEPT ![r] = @ + delta]]
  BY DEF Post
<1> QED BY <1>1, <1>2

(* Who has no entry, sale or win in a step keeps the books.                *)
LEMMA BooksFrame ==
  ASSUME NEW v, BooksOf(v), ledger'[v] = ledger[v],
         purchases'[v] = purchases[v], support'[v] = support[v],
         WonBy(v)' = WonBy(v), SumOver(finalPrice', WonBy(v)) = SumOver(finalPrice, WonBy(v))
  PROVE  BooksOf(v)'
  BY DEF BooksOf

LEMMA PurchaseBooks ==
  ASSUME TypeOK, BooksMatchSales, NEW u \in Users, NEW p \in Products, PurchaseProduct(u, p)
  PROVE  BooksMatchSales'
<1>1. /\ Post(u, "PURCHASE", -Price[p]) /\ UNCHANGED <<winner, finalPrice, support>>
      /\ purchases' = [purchases EXCEPT ![u][p] = @ + Price[p]]
      /\ Price[p] \in Nat /\ -Price[p] \in Int /\ "PURCHASE" \in Reasons
  BY PriceAssumption DEF PurchaseProduct, auction, Reasons
<1>2. /\ \A v \in Users : v # u => ledger'[v] = ledger[v]
      /\ ledger'[u]["PURCHASE"] = ledger[u]["PURCHASE"] - Price[p]
      /\ ledger'[u]["AUCTION_WIN"] = ledger[u]["AUCTION_WIN"]
      /\ ledger'[u]["INVEST"] = ledger[u]["INVEST"]
      /\ ledger[u]["PURCHASE"] \in Int /\ ledger[u]["AUCTION_WIN"] \in Int
  BY <1>1, PostEntries DEF TypeOK, Reasons
<1>3. /\ purchases'[u] = [purchases[u] EXCEPT ![p] = @ + Price[p]]
      /\ purchases[u] \in [Products -> Nat]
      /\ \A v \in Users : v # u => purchases'[v] = purchases[v]
  BY <1>1 DEF TypeOK
<1>4. /\ SumOver(purchases'[u], Products) = SumOver(purchases[u], Products) + Price[p]
      /\ SumOver(purchases[u], Products) \in Int
  BY <1>1, <1>3, SaleAdds
<1>5. ASSUME NEW v \in Users PROVE BooksOf(v)'
  <2>1. BooksOf(v) /\ WonBy(v)' = WonBy(v)
    BY <1>1 DEF BooksMatchSales, BooksOf, WonBy
  <2>2. CASE v = u
    BY <1>1, <1>2, <1>4, <2>1, <2>2 DEF BooksOf
  <2>3. CASE v # u
    BY <1>1, <1>2, <1>3, <2>1, <2>3, BooksFrame
  <2> QED BY <2>2, <2>3
<1> QED BY <1>5 DEF BooksMatchSales, BooksOf, WonBy

LEMMA InvestBooks ==
  ASSUME TypeOK, BooksMatchSales, NEW u \in Users, NEW p \in Products, NEW amount \in Nat,
         Invest(u, p, amount)
  PROVE  BooksMatchSales'
<1>1. /\ Post(u, "INVEST", -amount) /\ UNCHANGED <<winner, finalPrice, purchases>>
      /\ support' = [support EXCEPT ![u][p] = @ + amount]
      /\ -amount \in Int /\ "INVEST" \in Reasons
  BY DEF Invest, auction, Reasons
<1>2. /\ \A v \in Users : v # u => ledger'[v] = ledger[v]
      /\ ledger'[u]["INVEST"] = ledger[u]["INVEST"] - amount
      /\ ledger'[u]["AUCTION_WIN"] = ledger[u]["AUCTION_WIN"]
      /\ ledger'[u]["PURCHASE"] = ledger[u]["PURCHASE"]
      /\ ledger[u]["INVEST"] \in Int
  BY <1>1, PostEntries DEF TypeOK, Reasons
<1>3. /\ support'[u] = [support[u] EXCEPT ![p] = @ + amount]
      /\ support[u] \in [Products -> Nat]
      /\ \A v \in Users : v # u => support'[v] = support[v]
  BY <1>1 DEF TypeOK
<1>4. /\ SumOver(support'[u], Products) = SumOver(support[u], Products) + amount
      /\ SumOver(support[u], Products) \in Int
  BY <1>3, SaleAdds
<1>5. ASSUME NEW v \in Users PROVE BooksOf(v)'
  <2>1. BooksOf(v) /\ WonBy(v)' = WonBy(v)
    BY <1>1 DEF BooksMatchSales, BooksOf, WonBy
  <2>2. CASE v = u
    BY <1>1, <1>2, <1>4, <2>1, <2>2 DEF BooksOf
  <2>3. CASE v # u
    BY <1>1, <1>2, <1>3, <2>1, <2>3, BooksFrame
  <2> QED BY <2>2, <2>3
<1> QED BY <1>5 DEF BooksMatchSales, BooksOf, WonBy

LEMMA AdjustBooks ==
  ASSUME TypeOK, BooksMatchSales, NEW u \in Users, NEW delta \in Int, AdjustWallet(u, delta)
  PROVE  BooksMatchSales'
<1>1. /\ Post(u, "ADMIN", delta) /\ UNCHANGED <<winner, finalPrice, purchases, support>>
      /\ "ADMIN" \in Reasons
  BY DEF AdjustWallet, auction, Reasons
<1>2. \A v \in Users : /\ ledger'[v]["AUCTION_WIN"] = ledger[v]["AUCTION_WIN"]
                       /\ ledger'[v]["PURCHASE"] = ledger[v]["PURCHASE"]
                       /\ ledger'[v]["INVEST"] = ledger[v]["INVEST"]
  BY <1>1, PostEntries DEF Reasons
<1> QED BY <1>1, <1>2 DEF BooksMatchSales

(* The winner of an auction had not won it before, so the price is one     *)
(* more summand; nobody else's auctions or prices change.                  *)
LEMMA ChargeBooks ==
  ASSUME TypeOK, BooksMatchSales, NEW p \in Products, winner[p] = NoUser,
         NEW b \in BidRow, ChargeWinner(p, b), UNCHANGED support
  PROVE  BooksMatchSales'
<1> DEFINE u == b.user
<1>1. /\ u \in Users /\ b.amount \in Nat /\ -b.amount \in Int /\ "AUCTION_WIN" \in Reasons
      /\ Post(u, "AUCTION_WIN", -b.amount)
      /\ purchases' = [purchases EXCEPT ![u][p] = @ + b.amount]
      /\ winner' = [winner EXCEPT ![p] = u]
      /\ finalPrice' = [finalPrice EXCEPT ![p] = b.amount]
  BY DEF BidRow, ChargeWinner, Reasons
<1> HIDE DEF u
<1>2. /\ \A v \in Users : v # u => ledger'[v] = ledger[v]
      /\ ledger'[u]["AUCTION_WIN"] = ledger[u]["AUCTION_WIN"] - b.amount
      /\ ledger'[u]["PURCHASE"] = ledger[u]["PURCHASE"]
      /\ ledger'[u]["INVEST"] = ledger[u]["INVEST"]
      /\ ledger[u]["AUCTION_WIN"] \in Int /\ ledger[u]["PURCHASE"] \in Int
  BY <1>1, PostEntries DEF TypeOK, Reasons
<1>3. /\ purchases'[u] = [purchases[u] EXCEPT ![p] = @ + b.amount]
      /\ purchases[u] \in [Products -> Nat]
      /\ \A v \in Users : v # u => purchases'[v] = purchases[v]
  BY <1>1 DEF TypeOK
<1>4. /\ SumOver(purchases'[u], Products) = SumOver(purchases[u], Products) + b.amount
      /\ SumOver(purchases[u], Products) \in Int
  BY <1>1, <1>3, SaleAdds
<1>5. ASSUME NEW v \in Users
      PROVE  /\ p \notin WonBy(v) /\ IsFiniteSet(WonBy(v))
             /\ \A q \in WonBy(v) : finalPrice[q] \in Int /\ finalPrice'[q] = finalPrice[q]
             /\ SumOver(finalPrice', WonBy(v)) = SumOver(finalPrice, WonBy(v))
             /\ SumOver(finalPrice, WonBy(v)) \in Int
  <2>1. p \notin WonBy(v) /\ WonBy(v) \in SUBSET Products
    BY UserAssumption DEF WonBy
  <2>2. IsFiniteSet(WonBy(v))
    BY <2>1, FiniteAssumption, FS_Subset
  <2>3. \A q \in WonBy(v) : finalPrice[q] \in Int /\ finalPrice'[q] = finalPrice[q]
    BY <1>1, <2>1 DEF TypeOK
  <2>4. SumOf(finalPrice', WonBy(v)) = SumOf(finalPrice, WonBy(v))
    BY <2>2, <2>3, SumSame
  <2>5. SumOf(finalPrice, WonBy(v)) \in Int
    BY <2>2, <2>3, SumIsInt
  <2> QED BY <2>1, <2>2, <2>3, <2>4, <2>5, SumOverIsSum
<1>6. SumOver(finalPrice', WonBy(u)') = SumOver(finalPrice, WonBy(u)) + b.amount
  <2>1. WonBy(u)' = WonBy(u) \cup {p}
    BY <1>1 DEF WonBy, TypeOK
  <2>2. finalPrice'[p] = b.amount
    BY <1>1 DEF TypeOK
  <2>3. \A q \in WonBy(u) \cup {p} : finalPrice'[q] \in Int
    BY <1>1, <1>5, <2>2
  <2>4. SumOf(finalPrice', WonBy(u) \cup {p}) = finalPrice'[p] + SumOf(finalPrice', WonBy(u))
    BY <1>1, <1>5, <2>3, SumAdd
  <2>5. /\ SumOver(finalPrice', WonBy(u) \cup {p}) = b.amount + SumOver(finalPrice', WonBy(u))
        /\ SumOver(finalPrice', WonBy(u)) = SumOver(finalPrice, WonBy(u))
        /\ SumOver(finalPrice, WonBy(u)) \in Int
    BY <1>1, <1>5, <2>2, <2>4, SumOverIsSum
  <2> QED BY <1>1, <2>1, <2>5
<1>7. ASSUME NEW v \in Users PROVE BooksOf(v)'
  <2>1. BooksOf(v)
    BY DEF BooksMatchSales, BooksOf, WonBy
  <2>2. CASE v = u
    BY <1>1, <1>2, <1>4, <1>5, <1>6, <2>1, <2>2 DEF BooksOf
  <2>3. CASE v # u
    <3>1. WonBy(v)' = WonBy(v)
      BY <1>1, <1>5, <2>3, UserAssumption DEF WonBy, TypeOK
    <3> QED BY <1>2, <1>3, <1>5, <2>1, <2>3, <3>1, BooksFrame
  <2> QED BY <2>2, <2>3
<1> QED BY <1>7 DEF BooksMatchSales, BooksOf, WonBy

LEMMA SettleBooks ==
  ASSUME TypeOK, Unsold, BooksMatchSales, NEW s \in Settlers, NEW p \in Products, SettleCore(s, p)
  PROVE  BooksMatchSales'
<1>1. CASE UNCHANGED <<ledger, purchases, winner, finalPrice>>
  BY <1>1 DEF SettleCore, BooksMatchSales
<1>2. ASSUME status[p] = "LIVE", NEW b \in FirstPriceWinner(bids[p], wallet), ChargeWinner(p, b)
      PROVE  BooksMatchSales'
  <2>1. b \in BidRow /\ winner[p] = NoUser /\ UNCHANGED support
    BY <1>2, WinnerIsBid DEF TypeOK, Unsold, SettleCore
  <2> QED BY <1>2, <2>1, ChargeBooks
<1> QED BY <1>1, <1>2 DEF SettleCore

LEMMA BooksNext == TypeOK /\ AuctionInv /\ BooksMatchSales /\ [Next]_vars => BooksMatchSales'
<1> SUFFICES ASSUME TypeOK, AuctionInv, BooksMatchSales, [Next]_vars PROVE BooksMatchSales'
  OBVIOUS
<1>1. ASSUME NEW u \in Users, NEW p \in Products, PurchaseProduct(u, p) PROVE BooksMatchSales'
  BY <1>1, PurchaseBooks
<1>2. ASSUME NEW u \in Users, NEW p \in Products, NEW amount \in 1..wallet[u], Invest(u, p, amount)
      PROVE  BooksMatchSales'
  <2>1. amount \in Nat
    BY DEF TypeOK
  <2> QED BY <1>2, <2>1, InvestBooks
<1>3. ASSUME NEW u \in Users, NEW delta \in AdminDeltas, AdjustWallet(u, delta)
      PROVE  BooksMatchSales'
  BY <1>3, BoundAssumption, AdjustBooks
<1>4. ASSUME NEW s \in Settlers, NEW p \in Products, SettleCore(s, p) PROVE BooksMatchSales'
  BY <1>4, SettleBooks DEF AuctionInv
<1>5. CASE UNCHANGED <<winner, finalPrice, ledger, purchases, support>>
  BY <1>5 DEF BooksMatchSales
<1>6. \/ UNCHANGED <<winner, finalPrice, ledger, purchases, support>>
      \/ \E u \in Users, p \in Products : PurchaseProduct(u, p)
      \/ \E u \in Users, p \in Products : \E amount \in 1..wallet[u] : Invest(u, p, amount)
      \/ \E u \in Users, delta \in AdminDeltas : AdjustWallet(u, delta)
      \/ \E s \in Settlers, p \in Products : SettleCore(s, p)
  BY ZenonT(40) DEF Next, vars, store, auction, coins, clients, runners,
         PassMarketGate, RequestRefused, PlaceBid, EnqueueGate, EnqueueAuction,
         EnsureAuctionsRead, EnsureAuctions, MoveAuction, AdminArmsStart, AdminReadsLive,
         StartNextAuction, RecordEnded, RecordFails, BeginTick, ReadExpired,
         ContestHasEnded, AfterSettling, CheckGap,
         CloseAtDeadline, EndContest, GameEndReadsLive, GameEndReadsLeftover,
         GameEndDeletesLeftover, CloseAuctionsFails, SettleGame, SetMarket,
         AdvanceClock, Restart
<1> QED BY <1>1, <1>2, <1>3, <1>4, <1>5, <1>6

LEMMA BooksInit == Init => BooksMatchSales
<1> SUFFICES ASSUME Init, NEW u \in Users
             PROVE  /\ ledger[u]["AUCTION_WIN"] = 0 /\ ledger[u]["PURCHASE"] = 0
                    /\ ledger[u]["INVEST"] = 0
                    /\ SumOver(finalPrice, {p \in Products : winner[p] = u}) = 0
                    /\ SumOver(purchases[u], Products) = 0 /\ SumOver(support[u], Products) = 0
  BY DEF BooksMatchSales
<1>1. ledger[u] = [r \in Reasons |-> 0]
  BY DEF Init
<1>2. {p \in Products : winner[p] = u} = {}
  BY UserAssumption DEF Init
<1>3. purchases[u] = [p \in Products |-> 0] /\ support[u] = [p \in Products |-> 0]
  BY DEF Init
<1>4. SumOf([p \in Products |-> 0], Products) = 0
  BY FiniteAssumption, SumZero
<1> QED BY <1>1, <1>2, <1>3, <1>4, SumOverEmpty, SumOverIsSum DEF Reasons

(* Ledger, purchases, support and the results of the auctions always tell  *)
(* the same story, however many products and users there are.              *)
THEOREM BooksAlwaysMatchSales == Spec => []BooksMatchSales
<1>1. TypeOK /\ AuctionInv /\ BooksMatchSales /\ [Next]_vars => BooksMatchSales'
  BY BooksNext
<1> QED BY <1>1, BooksInit, AuctionInvariant, PTL DEF Spec

Books == INSTANCE CoinAccounts_proofs WITH posted <- [u \in Users |-> LedgerTotal(u)]

(* So through every bid, settlement, purchase and correction a wallet is what *)
(* its owner started with and what the ledger's reasons add up to.         *)
THEOREM AuctionAlwaysBalanced == Spec => []Accounts!Balanced
  BY AuctionImplementsAccounts, Books!AlwaysBalanced, PTL
  DEF ImplementsAccounts, Accounts!AccountsSpec, Books!AccountsSpec, Accounts!AccountsInit,
      Books!AccountsInit, Accounts!Book, Books!Book, Accounts!Balanced, Books!Balanced,
      Accounts!accountVars, Books!accountVars
--------------------------------------------------------------------------------
(* The auction implements the ascending auctions *)

(* What AscendingAuctions sees of the bids and of the results.             *)
OffersOf  == [p \in Products |-> {OfferOf(b) : b \in bids[p]}]
ResultsOf == [p \in Products |-> [user |-> winner[p], amount |-> finalPrice[p]]]

(* An auction that has not ended has no price yet.                         *)
Unpriced == \A p \in Products : status[p] # "ENDED" => finalPrice[p] = 0

LEMMA UnpricedNext == TypeOK /\ Unpriced /\ [Next]_vars => Unpriced'
<1> SUFFICES ASSUME TypeOK, Unpriced, [Next]_vars PROVE Unpriced'
  OBVIOUS
<1> USE DEF auction
<1>1. CASE UNCHANGED <<status, finalPrice>>
  BY <1>1 DEF Unpriced
<1>2. ASSUME NEW u \in Users, NEW p \in Products, NEW amount \in 1..wallet[u],
             PlaceBid(u, p, amount)
      PROVE  Unpriced'
  BY <1>2 DEF PlaceBid, Unpriced
<1>3. ASSUME finalPrice' = finalPrice,
             \A p \in Products : status[p] = "ENDED" => status'[p] = "ENDED",
             \A p \in Products : status'[p] = "ENDED" => status[p] = "ENDED"
      PROVE  Unpriced'
  BY <1>3 DEF Unpriced
<1>4. ASSUME NEW p \in Products, EnqueueAuction(p) PROVE Unpriced'
  BY <1>3, <1>4 DEF EnqueueAuction, TypeOK
<1>5. ASSUME EnsureAuctions \/ GameEndDeletesLeftover PROVE Unpriced'
  BY <1>3, <1>5 DEF EnsureAuctions, GameEndDeletesLeftover, Rows, TypeOK
<1>6. ASSUME NEW s \in Starters, StartNextAuction(s) PROVE Unpriced'
  BY <1>3, <1>6 DEF StartNextAuction, TypeOK
<1>7. ASSUME NEW s \in Settlers, NEW p \in Products, SettleCore(s, p) PROVE Unpriced'
  BY <1>7 DEF SettleCore, ChargeWinner, Unpriced, TypeOK
<1> QED BY <1>1, <1>2, <1>4, <1>5, <1>6, <1>7, UntouchedAuctions

(* A bid is an offer above the last one, or above the base price.          *)
LEMMA BidIsOffer ==
  ASSUME TypeOK, AuctionInv, NEW u \in Users, NEW p \in Products,
         NEW amount \in 1..wallet[u], PlaceBid(u, p, amount)
  PROVE  Ascending!Offer(p)
<1> DEFINE new == [user |-> u, amount |-> amount, at |-> now]
           o   == [user |-> u, amount |-> amount]
<1>1. /\ status[p] = "LIVE" /\ u \in Users \ Members[p] /\ amount \in Nat
      /\ amount >= NextMinBid(p)
      /\ bids' = [bids EXCEPT ![p] = @ \cup {new}]
      /\ UNCHANGED <<status, winner, finalPrice, docked>>
  BY DEF PlaceBid, TypeOK, coins
<1>2. OfferOf(new) = o
  BY DEF OfferOf
<1>3. /\ bids'[p] = bids[p] \cup {new}
      /\ \A q \in Products : q # p => bids'[q] = bids[q]
  BY <1>1 DEF TypeOK
<1> HIDE DEF new, o
<1>4. OffersOf'[p] = OffersOf[p] \cup {o}
  BY <1>2, <1>3 DEF OffersOf
<1>5. OffersOf' = [OffersOf EXCEPT ![p] = @ \cup {o}]
  BY <1>3, <1>4 DEF OffersOf
<1>6. ASSUME OffersOf[p] = {} PROVE o.amount >= StartPrice(p)
  <2>1. bids[p] = {}
    BY <1>6 DEF OffersOf
  <2>2. Highest(p) = {}
    BY <2>1 DEF Highest
  <2> QED BY <1>1, <2>2 DEF NextMinBid, o
<1>7. ASSUME NEW c \in bids[p] PROVE o.amount >= OfferOf(c).amount + BidIncrement
  <2>1. PICK h : h \in Highest(p)
    BY DEF AuctionInv, TopBid
  <2>2. Highest(p) = {h} /\ h \in BidRow /\ c.amount <= h.amount
    BY <2>1, HighestIsTop
  <2>3. NextMinBid(p) = h.amount + BidIncrement
    BY <2>2 DEF NextMinBid
  <2>4. c.amount \in Nat /\ h.amount \in Nat /\ BidIncrement \in Nat
    BY <2>2, PriceAssumption DEF BidRow, TypeOK
  <2> QED BY <1>1, <2>2, <2>3, <2>4 DEF OfferOf, o
<1>8. \A other \in OffersOf[p] : o.amount >= other.amount + BidIncrement
  BY <1>7 DEF OffersOf
<1>9. o.user \in Users \ Members[p] /\ o \in OffersOf'[p]
  BY <1>1, <1>4 DEF o
<1>10. UNCHANGED ResultsOf
  BY <1>1 DEF ResultsOf
<1> QED
  BY <1>1, <1>5, <1>6, <1>8, <1>9, <1>10 DEF Ascending!Offer, OffersOf, ResultsOf

(* The highest bid is the leading offer.                                   *)
LEMMA HighestLeads ==
  ASSUME TypeOK, NEW p \in Products, NEW b \in Highest(p)
  PROVE  OfferOf(b) \in Ascending!Leading(p)
<1>1. b \in bids[p] /\ \A c \in bids[p] : c.amount <= b.amount
  BY HighestIsTop
<1> QED BY <1>1 DEF Ascending!Leading, OfferOf

(* A settlement closes the auction as its offers say, or finds it closed.  *)
LEMMA SettlementCloses ==
  ASSUME TypeOK, AuctionInv, Unpriced, NEW s \in Settlers, NEW p \in Products, SettleCore(s, p)
  PROVE  Ascending!Close(p) \/ UNCHANGED <<status, bids, winner, finalPrice, docked>>
<1> DEFINE picked == FirstPriceWinner(bids[p], wallet)
<1>1. UNCHANGED <<bids, docked>>
  BY DEF SettleCore
<1>2. CASE UNCHANGED <<status, winner, finalPrice>>
  BY <1>1, <1>2
<1>3. CASE ~UNCHANGED <<status, winner, finalPrice>>
  <2>1. /\ status[p] = "LIVE" /\ status' = [status EXCEPT ![p] = "ENDED"]
        /\ IF picked = {} THEN UNCHANGED <<winner, finalPrice>>
                          ELSE \E b \in picked : ChargeWinner(p, b)
    BY <1>3 DEF SettleCore
  <2>2. winner[p] = NoUser /\ finalPrice[p] = 0
    BY <2>1 DEF AuctionInv, Unsold, Unpriced
  <2>3. ASSUME NEW b \in picked, ChargeWinner(p, b)
        PROVE  ResultsOf' = [ResultsOf EXCEPT ![p] = OfferOf(b)]
    BY <2>3 DEF ChargeWinner, ResultsOf, OfferOf, TypeOK
  <2>4. ASSUME picked = {}
        PROVE  /\ UNCHANGED ResultsOf
               /\ ResultsOf' = [ResultsOf EXCEPT ![p] = Ascending!Unsold]
    BY <2>1, <2>2, <2>4 DEF ResultsOf, Ascending!Unsold
  <2>5. \/ OffersOf[p] = {} /\ UNCHANGED ResultsOf
        \/ \E o \in Ascending!Leading(p) : ResultsOf' = [ResultsOf EXCEPT ![p] = o]
        \/ /\ \E o \in Ascending!Leading(p) : o.user \in docked
           /\ \E o \in OffersOf[p] \cup {Ascending!Unsold} :
                ResultsOf' = [ResultsOf EXCEPT ![p] = o]
    <3>1. CASE bids[p] = {}
      <4>1. picked = {}
        BY <3>1 DEF FirstPriceWinner, BestBids
      <4> QED BY <2>4, <3>1, <4>1 DEF OffersOf
    <3>2. CASE bids[p] # {}
      <4>1. PICK h : h \in Highest(p)
        BY <3>2 DEF AuctionInv, TopBid
      <4>2. OfferOf(h) \in Ascending!Leading(p) /\ OfferOf(h).user = h.user
        BY <4>1, HighestLeads DEF OfferOf
      <4>3. CASE wallet[h.user] >= h.amount
        <5>1. picked = {h}
          BY <4>1, <4>3, BackedLeaderIsPicked
        <5> QED BY <2>1, <2>3, <4>2, <5>1
      <4>4. CASE ~(wallet[h.user] >= h.amount)
        <5>1. h.user \in docked
          BY <2>1, <4>1, <4>4 DEF AuctionInv, LeaderBacked, Live
        <5>2. \A b \in picked : OfferOf(b) \in OffersOf[p]
          BY WinnerIsBid DEF OffersOf
        <5>3. \E o \in OffersOf[p] \cup {Ascending!Unsold} :
                ResultsOf' = [ResultsOf EXCEPT ![p] = o]
          BY <2>1, <2>3, <2>4, <5>2
        <5> QED BY <4>2, <5>1, <5>3
      <4> QED BY <4>3, <4>4
    <3> QED BY <3>1, <3>2
  <2>6. Ascending!Moves({p}, "LIVE", "ENDED")
    BY <2>1 DEF Ascending!Moves, TypeOK
  <2>7. UNCHANGED <<OffersOf, docked>>
    BY <1>1 DEF OffersOf
  <2> QED BY <2>5, <2>6, <2>7 DEF Ascending!Close, OffersOf, ResultsOf
<1> QED BY <1>2, <1>3

(* The queue of the auctions is the queue of the ascending auctions.       *)
LEMMA QueueMoves ==
  ASSUME TypeOK, NEW p \in Products, EnqueueAuction(p)
  PROVE  Ascending!Queue({p}) \/ UNCHANGED <<status, bids, winner, finalPrice, docked>>
<1>1. UNCHANGED <<bids, winner, finalPrice, docked>>
  BY DEF EnqueueAuction, coins
<1>2. ASSUME status[p] = "NONE", status' = [status EXCEPT ![p] = "SCHEDULED"]
      PROVE  Ascending!Queue({p})
  BY <1>1, <1>2 DEF Ascending!Queue, Ascending!Moves, TypeOK
<1> QED BY <1>1, <1>2 DEF EnqueueAuction

LEMMA EnsureMoves ==
  ASSUME TypeOK, EnsureAuctions
  PROVE  \/ \E S \in SUBSET Products : Ascending!Queue(S)
         \/ UNCHANGED <<status, bids, winner, finalPrice, docked>>
<1>1. UNCHANGED <<bids, winner, finalPrice, docked>>
  BY DEF EnsureAuctions, coins
<1>2. PICK S \in SUBSET Products : S = ensure.products
  BY DEF TypeOK
<1>3. ASSUME S \cap Rows = {},
             status' = [p \in Products |-> IF p \in S THEN "SCHEDULED" ELSE status[p]]
      PROVE  Ascending!Queue(S)
  <2>1. \A p \in S : status[p] = "NONE"
    BY <1>3 DEF Rows
  <2> QED BY <1>1, <1>3, <2>1 DEF Ascending!Queue, Ascending!Moves
<1> QED BY <1>1, <1>2, <1>3 DEF EnsureAuctions

LEMMA SweepMoves ==
  ASSUME TypeOK, GameEndDeletesLeftover
  PROVE  \E S \in SUBSET Products : Ascending!Unqueue(S)
<1>1. UNCHANGED <<bids, winner, finalPrice, docked>>
  BY DEF GameEndDeletesLeftover, coins
<1>2. PICK S \in SUBSET Products : S = {p \in leftover : status[p] = "SCHEDULED" /\ bids[p] = {}}
  BY DEF TypeOK
<1>3. status' = [p \in Products |-> IF p \in S THEN "NONE" ELSE status[p]]
  BY <1>2 DEF GameEndDeletesLeftover
<1>4. \A p \in S : status[p] = "SCHEDULED"
  BY <1>2
<1>5. Ascending!Unqueue(S)
  BY <1>1, <1>3, <1>4 DEF Ascending!Unqueue, Ascending!Moves
<1> QED BY <1>5

LEMMA StartOpens ==
  ASSUME TypeOK, NEW s \in Starters, StartNextAuction(s)
  PROVE  \/ \E p \in Products : Ascending!Open(p)
         \/ UNCHANGED <<status, bids, winner, finalPrice, docked>>
<1>1. UNCHANGED <<bids, winner, finalPrice, docked>>
  BY DEF StartNextAuction, coins
<1>2. CASE UNCHANGED status
  BY <1>1, <1>2
<1>3. CASE ~UNCHANGED status
  <2>1. PICK p \in Products : /\ status[p] = "SCHEDULED" /\ Live = {}
                              /\ status' = [status EXCEPT ![p] = "LIVE"]
    BY <1>3 DEF StartNextAuction
  <2>2. Ascending!Moves({p}, "SCHEDULED", "LIVE") /\ \A q \in Products : status[q] # "LIVE"
    BY <2>1 DEF Ascending!Moves, TypeOK, Live
  <2> QED BY <1>1, <2>2 DEF Ascending!Open
<1> QED BY <1>2, <1>3

LEMMA CorrectionDocks ==
  ASSUME NEW u \in Users, NEW delta \in AdminDeltas, AdjustWallet(u, delta)
  PROVE  Ascending!Dock(u) \/ UNCHANGED <<status, bids, winner, finalPrice, docked>>
  BY DEF AdjustWallet, Ascending!Dock, auction

(* No other action touches what the ascending auctions see.                *)
LEMMA UnseenSteps ==
  ASSUME [Next]_vars
  PROVE  \/ UNCHANGED <<status, bids, winner, finalPrice, docked>>
         \/ \E u \in Users, p \in Products : \E amount \in 1..wallet[u] : PlaceBid(u, p, amount)
         \/ \E u \in Users, delta \in AdminDeltas : AdjustWallet(u, delta)
         \/ \E p \in Products : EnqueueAuction(p)
         \/ EnsureAuctions \/ GameEndDeletesLeftover
         \/ \E s \in Starters : StartNextAuction(s)
         \/ \E s \in Settlers, p \in Products : SettleCore(s, p)
BY DEF Next, vars, store, auction, coins, clients, runners,
       PassMarketGate, RequestRefused, PurchaseProduct, Invest,
       EnqueueGate, EnsureAuctionsRead, MoveAuction, AdminArmsStart, AdminReadsLive,
       RecordEnded, RecordFails, BeginTick, ReadExpired, ContestHasEnded,
       AfterSettling, CheckGap, CloseAtDeadline, EndContest,
       GameEndReadsLive, GameEndReadsLeftover, CloseAuctionsFails, SettleGame,
       SetMarket, AdvanceClock, Restart

(* So each step is a step of the ascending auctions, or one they miss.     *)
LEMMA AscendingStep ==
  ASSUME TypeOK, AuctionInv, Unpriced, [Next]_vars
  PROVE  [Ascending!AuctionsNext]_(Ascending!auctionVars)
<1>1. CASE UNCHANGED <<status, bids, winner, finalPrice, docked>>
  BY <1>1 DEF Ascending!auctionVars
<1>2. ASSUME NEW u \in Users, NEW p \in Products, NEW amount \in 1..wallet[u],
             PlaceBid(u, p, amount)
      PROVE  Ascending!AuctionsNext
  BY <1>2, BidIsOffer DEF Ascending!AuctionsNext
<1>3. ASSUME NEW u \in Users, NEW delta \in AdminDeltas, AdjustWallet(u, delta)
      PROVE  Ascending!AuctionsNext \/ UNCHANGED <<status, bids, winner, finalPrice, docked>>
  BY <1>3, CorrectionDocks DEF Ascending!AuctionsNext
<1>4. ASSUME NEW p \in Products, EnqueueAuction(p)
      PROVE  Ascending!AuctionsNext \/ UNCHANGED <<status, bids, winner, finalPrice, docked>>
  BY <1>4, QueueMoves DEF Ascending!AuctionsNext
<1>5. ASSUME EnsureAuctions
      PROVE  Ascending!AuctionsNext \/ UNCHANGED <<status, bids, winner, finalPrice, docked>>
  BY <1>5, EnsureMoves DEF Ascending!AuctionsNext
<1>6. ASSUME GameEndDeletesLeftover PROVE Ascending!AuctionsNext
  BY <1>6, SweepMoves DEF Ascending!AuctionsNext
<1>7. ASSUME NEW s \in Starters, StartNextAuction(s)
      PROVE  Ascending!AuctionsNext \/ UNCHANGED <<status, bids, winner, finalPrice, docked>>
  BY <1>7, StartOpens DEF Ascending!AuctionsNext
<1>8. ASSUME NEW s \in Settlers, NEW p \in Products, SettleCore(s, p)
      PROVE  Ascending!AuctionsNext \/ UNCHANGED <<status, bids, winner, finalPrice, docked>>
  BY <1>8, SettlementCloses DEF Ascending!AuctionsNext
<1> QED BY <1>1, <1>2, <1>3, <1>4, <1>5, <1>6, <1>7, <1>8, UnseenSteps

(* To the players every behaviour of the system, with its restarts and its *)
(* failing steps, is one of ascending auctions.                            *)
THEOREM AuctionImplementsAscending == Spec => ImplementsAscending
<1>1. Init => Unpriced
  BY DEF Init, Unpriced
<1>2. Init => Ascending!AuctionsInit
  BY DEF Init, Ascending!AuctionsInit, Ascending!Unsold
<1>3. TypeOK /\ AuctionInv /\ Unpriced /\ [Next]_vars => Unpriced'
  BY UnpricedNext
<1>4. TypeOK /\ AuctionInv /\ Unpriced /\ [Next]_vars
        => [Ascending!AuctionsNext]_(Ascending!auctionVars)
  BY AscendingStep
<1> QED
  BY <1>1, <1>2, <1>3, <1>4, AuctionInvariant, PTL
  DEF Spec, ImplementsAscending, Ascending!AuctionsSpec
================================================================================
