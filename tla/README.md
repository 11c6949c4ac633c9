# Founders Arena in TLA+

A verification project for the game server in `src/` (Next.js, Prisma, SQLite): models that TLC checks on small
contests, and theorems about them that TLAPS proves for contests of any size. File names below are relative to
`src/src/`; `lib/auction.ts` is `src/src/lib/auction.ts` of the repository.

## 1. The system

Teams of one to three players submit ideas and products. Players spend coins: they support ideas, buy products on
the market, bid for products in a live auction, and teams bid for advertising slots. Coins can also be bought with
money. A contest is LIVE until its deadline or until the organiser ends it; then the auctions are closed, undelivered
slots are refunded, and scores are computed and written as final.

One Node process serves everything. What runs concurrently are the handlers of requests, the scheduler's tick (every
30 s, one at a time), and the end-of-contest handler. They interleave at every `await`. `lib/db.ts` puts a FIFO lock
around the one SQLite connection, so **a `$transaction`, or a query outside one, runs alone**. This is what the models
build on: a transaction is one action; two queries of a handler that are not in one transaction are two actions, with
anything in between, unless the text below says that they were joined.

### Inventory

| Component (files in `lib/` unless said) | State it keeps | Operations | Interacts with | Hard behaviour | Correct when |
|---|---|---|---|---|---|
| Live auction (`auction.ts`, `reservations.ts`, `economy/bids.ts`, `app/admin/auction/actions.ts`) | `Auction`, `Bid`, `last_auction_ended_at` | enqueue, bulk enqueue, move, start, bid, settle, sweep at the end | wallets, ledger, scheduler, end of contest | starts and settlements by several handlers; coins of the leader are reserved by computation only; the end of the contest races all of it | one live auction; leader covered; highest bid wins once; everything queued ends |
| Coin economy (`schema.prisma`) | `User.buyWallet`, `LedgerEntry` | every spending path | all of the below | each path must change both | wallet = start + ledger, never negative |
| Market (`market.ts`) | `Purchase` | purchase | wallets, reservation, module gate | gate and price are read before the transaction | spends only unreserved coins |
| Idea support (`invest.ts`, `app/idea/actions.ts`) | `Investment`, `Idea.editedAt` | support, withdraw after an edit, edit | wallets, reservation | an edit racing a support or a withdrawal | withdrawn at most once, only after an edit |
| Coin purchase (`coins.ts`) | `CoinOrder` | create, verify, cancel, mark paid, reject | gateway, wallets | the gateway answers late, twice, or not at all | credited once per payment, at most `max coins` |
| Ad slots (`adslots.ts`) | `AdSlot`, `AdSlotBid`, push marks | bid, deliver push, refund at the end | wallets, scheduler, end of contest | outbid refunds, refund retries, delivery racing refund | each slot delivered or refunded, never both |
| Scheduler (`scheduler.ts`, `instrumentation.ts`) | `running` flag, timer | tick | auction, ad slots, end of contest | a tick overtaken by the organiser | every due thing is done in the end |
| End of contest (`phase-transition.ts`, `phase.ts`, `app/admin/control/actions.ts`) | `phase`, `phase_ends_at`, `closed_at` | close at deadline, close by hand, move the deadline | auction, ad slots, settlement, AI jury | two closers, a crash between the steps, stale phase written back | closed once and settled |
| Settlement and scoring (`settlement.ts`, `scoring.ts`, `economy/engine.ts`) | `TeamScore`, `settled_at`, `settled_final` | settle, re-settle, read results | end of contest, AI jury | scores computed outside the writing transaction | the final result has all of the contest in it |
| Module gates (`module-state.ts`, `modules.ts`) | `module_*`, `ModuleException` | gate, set status, except | every handler | checked before the transaction | nothing of the game changes after the end |
| Teams (`team.ts`, `app/admin/teams/actions.ts`) | `Team`, `User.teamId`, `TeamInvite` | create, join by four ways, leave, merge, delete | ideas, products | joins racing merges, last members leaving together | one to three members, no empty team with an idea |
| Database lock (`db.ts`) | FIFO queue | acquire, release, query | all | query inside an open transaction, nested transactions | mutual exclusion without deadlock |
| Cache and events (`ttl-cache.ts`, `auction-events.ts`) | promises, subscribers | get, invalidate, publish | readers | load begun before an invalidation | no stale answer after invalidation; last change is broadcast |
| Login codes (`otp.ts`, `rate-limit.ts`) | `OtpCode`, counters | request, verify | SMS | concurrent requests | codes used once, within limits |
| Product (`app/build/actions.ts`) | one `Product` row per team and track | save, submit, unlock | showcase, studio, feedback, settlement | reads the row, waits, writes some of its columns; no transaction | what was decided about it stands |
| Feedback of the AI (`jury-ai.ts`, `ai.ts`) | score and notes in the row, `ai:jury:*` cache rows, counters | evaluate, count, recheck once, final evaluation | AI service, settlement | two evaluations at once, a stop between two writes, the cap is read before a long call | every answer counted, the cache answers for the stored score |
| Showcase (`showcase.ts`) | `showcaseStatus`, `showcaseFeatured`, votes | request, withdraw, review, pick, vote | product | the organiser decides on a page loaded earlier | what is shown is what was approved |
| Studio (`studio.ts`, `bazaar.ts`) | `liveStatus`, statistics of the store | request, cancel, set the status, poll | product | a request written over a publication | the organiser's status stays |
| Ranking and prizes (`economy/engine.ts`, `prizes.ts`) | none: functions of the scores | rank, award | settlement | ties, drafts, few contenders | ranks count who is ahead; nobody is passed over or wins twice |
| Board, hearts, notifications, push, feed, analytics, pages | rows and output | single writes, output | none that the game reads back | - | not modelled, see section 6 |

`PROJECT.json` lists all components with their status, and under `hazards` what in this code is hard to test.

## 2. Modules

| Module | What it is |
|---|---|
| `CoinAccounts` | abstract specification of the coin economy: each step books some entries and changes the wallets by exactly them |
| `AscendingAuctions` | abstract specification of the live auction as players see it: a queue sold one at a time, rising offers, the highest wins, results stay |
| `AtomicJobs` | abstract specification of the database as handlers see it: queries and transactions in the order of asking, each in one step, as a whole or not at all |
| `LiveAuction` | the live auction with everything that shares its wallets, its clock and its end |
| `CoinOrders` | buying coins with money: orders, the gateway's callbacks, the organiser's corrections |
| `GameEnd` | the end of the contest: who closes it, settlement and resettlement, the final AI evaluation |
| `AdSlots` | the auction of ad slots, the pushes, and the refunds at the end and by the scheduler |
| `Teams` | all ways into and out of a team, with what each handler reads before its transaction |
| `IdeaSupport` | the support of one idea while its team edits it |
| `Products` | one product: saving and unlocking, the AI's feedback, the showcase, going live |
| `Standings` | the ranking of scored entries and the award of the prizes |
| `LoginCodes` | the codes sent by SMS to one phone number |
| `LiveReads` | the cache and the broadcaster behind what players see of the live auction |
| `DbLock` | the lock around the one connection: why a transaction is one step in all other modules |
| `MCLiveAuction`, `MCCoinOrders`, `MCGameEnd`, `MCAdSlots`, `MCTeams` | small instances for TLC |
| `MCParts` | small instances of `IdeaSupport`, `LoginCodes`, `LiveReads`, `DbLock`, `Products` and `Standings` in one module: its variable `part` says which one a behaviour runs; they share no state, so nothing is lost by not interleaving them |
| `CoinAccounts_proofs`, `LiveAuction_proofs`, `CoinOrders_proofs`, `GameEnd_proofs`, `AdSlots_proofs`, `Teams_proofs`, `Parts_proofs` | the theorems; `Parts_proofs` has those of `IdeaSupport`, `LoginCodes`, `LiveReads`, `DbLock`, `Products`, `Standings` and their composition |
| `SetSums` | lemmas about sums over finite sets, used by the proofs of the auction and of the sale |

`LiveAuction`, `CoinOrders`, `AdSlots` and `IdeaSupport` all implement `CoinAccounts`; `LiveAuction` implements
`AscendingAuctions` as well, and `DbLock` implements `AtomicJobs`. The auction and the sale are not composed: the sale only adds coins, which the
auction would see as a correction by the organiser (`AdjustWallet` with a positive delta), and reads nothing of it.
`LiveAuction` and `GameEnd` look at the same event from two sides. In `LiveAuction` one closer ends the contest, and its
auctions are modelled in full; in `GameEnd` they are one sale, and everything about closers and the result is in full. `AdSlots` is the third side: its
enders are the steps of `transitionTo` before and after the refunds. What its bidders lead live auctions with is a constant,
`Reserved`.

### LiveAuction and the code

A product is auctioned at most once (`Auction.productId` is unique), so auctions are named by their product and the
columns of the row are functions `status`, `order`, `endsAt`, `winner`, `finalPrice`; `status[p] = "NONE"` means no
row. `ledger[u][r]` is the sum of the user's entries of reason `r`; `purchases` and `support` are the sums of the
`Purchase` and `Investment` rows. What a handler remembers between two of its queries is a variable too:

| Variable | Handler between two queries |
|---|---|
| `passed` | `placeBidAction` or `purchaseProduct` after `moduleGate("market")` |
| `enqueuing` | `enqueueAuction` after its gate and cutoff |
| `ensure` | `ensureAuctions` with the products and last order it read |
| `armed` | `startNextAuction` with the duration it resolved, before its transaction (0: not running) |
| `due` | `settleIfEnded`, `settleAuction` and `closeAuctionsForGameEnd` with auctions read as LIVE |
| `unrecorded` | a committed settlement before `last_auction_ended_at` is written |
| `tick` | the scheduler: `closing` (in `transitionTo`), `begun` (the deadline is not reached), `settling`, `gap` (all its checks but the gap passed), `starting` |
| `ending`, `leftover` | `transitionTo("CLOSED")`: `read`, `settle`, `sweep` within `closeAuctionsForGameEnd`, then `final`; `lost` after a restart |

The actions, in the order of the module:

* `PassMarketGate`, `RequestRefused`, `PurchaseProduct`, `Invest`, `AdjustWallet`, `PlaceBid`: requests of players and
  the organiser's wallet correction. `investCore` checks its gate inside its transaction, so it is one action.
  Purchases and bids check it before, so they may commit in a contest that has just ended.
* `EnqueueGate`/`EnqueueAuction`, `EnsureAuctionsRead`/`EnsureAuctions`, `MoveAuction`: the queue. `ensureAuctions` finds
  any of the products without a row, because products may be submitted and taken back at any time; its shuffle is a
  free choice of positions, and two rows may end up with one order (then either may be first).
* `StartNextAuction`, `AdminArmsStart`, `AdminReadsLive`, `SettleCore`, `RecordEnded`, `RecordFails`.
* `BeginTick`, `ReadExpired`, `ContestHasEnded`, `AfterSettling`, `CheckGap`: the scheduler's tick.
* `CloseAtDeadline`, `EndContest`, `GameEndReadsLive`, `GameEndReadsLeftover`, `GameEndDeletesLeftover`,
  `CloseAuctionsFails`, `SettleGame`: the end of the contest.
* `SetMarket`, `AdvanceClock`, `Restart`.

Conditions with a name of their own: `Biddable` (what `placeBidAction` asks of the auction), `InWindow` (the anti-sniping test),
`MayStart` (what the transaction of `startNextAuction` looks at), `ClaimsLive` (the conditional update of `settleCore`) and
`Swept` (what the sweep deletes).

`Manual` is the set of organiser's operations and failures a run takes; it bounds the size of a run.

Abstractions:

* Consecutive reads with no write of the same handler between them are joined: the reads of `moduleGate`, the market check and
  the live check in `AfterSettling`, the gap and the duration in `CheckGap`, `getPhase` and the claim in
  `closeAtDeadline`, the two reads of `ensureAuctions` (a product queued between them makes its transaction fail on
  the unique `productId`, as it does in the model).
* `settleCore` and then its caller each write `last_auction_ended_at`; this is one `RecordEnded`.
* Time is in units, one unit standing for whatever the constants make of it; minutes and seconds are not told apart.
  `now` may stand still while handlers run, and every handler may be overtaken by the clock.
* A user has one market request past its gate at a time. Membership, prices and base prices are constants; team
  exceptions of the market, `auto_auction` = "0", and other processes (`scripts/start-auction.ts`) are left out.
* `getPublicAuctionState` (`auction.ts:533`) also settles an auction that has expired, on a page read or a broadcast. The settlers of the
  model are the scheduler, the organiser (`AdminReadsLive`, at any time) and the end of the contest; the
  organiser's settlement has every interleaving with the others that a page read would have, and without page reads the liveness
  properties have to be kept by the scheduler alone.
* One closer ends the contest, and `settleGame` succeeds: two closers and failures are in `GameEnd`.
* Withdrawing idea support only adds to a wallet; it is in `IdeaSupport`.

### CoinOrders and the code

An order is named before it exists; `Owner`, `Coins` and `Online` (is its driver online) are constants of the name.
`status`, `authority` and `refId` are columns of `CoinOrder`; `posted` is the sum of the user's COIN_PURCHASE entries and
`credits[o]` counts those that refer to `o`. Handlers between two awaits:

| Variable | Handler |
|---|---|
| `asking` | `createCoinOrder` past its gate, before its transaction |
| `starting` | `createCoinOrder` waiting for `driver.start` |
| `callback[c]` | `verifyCoinOrder`: `gateway` (awaiting `driver.verify`), `confirmed` (before `markPaidAndCredit`), `reread`, `note` |
| `clerk[a]` | `adminMarkOrderPaid` with the order as it read it: `reopen` or `mark` |

`MarkPaid` is the transaction of `markPaidAndCredit`, used by `CallbackCredits` and `AdminMarks`. A refused payment is one step
with its write, because a refusal needs nothing to hold and the write is conditional. The gateway itself is external: it
takes a user's money once the authority is stored (`GatewayCaptures`), confirms only money it has taken, and may refuse or
fail at any time (a user may come back before paying). `driver.start` of the two drivers in the code cannot fail, but the
write of the authority inside the same `try` can, and a real gateway is to be added behind the same interface.
`late` (credited although it had been canceled) and `overwritten` (a failing start wrote FAILED over PAID) are history
variables; no guard reads them.

### GameEnd and the code

The teams' activity and the jury's scores are one counter, `facts`; a score is the values it was computed from
(`[facts, ai]`), so that "contains everything up to" is a comparison. The AI's evaluation is the value of `facts` at which it
read the product; one product stands for all. Handlers between two awaits:

| Variable | Handler |
|---|---|
| `mover` | `setDeadlineAction`: `read` (it found LIVE), `phase` (the first of the two rows of `setPhase` written) |
| `closer[c]` | `closeAtDeadline` or `endContestAction`: `read`, `claimed` (the scheduler's conditional update), then `transitionTo`: `phase`, `closing`, `ended`, `settle` (in the queue), `ai` |
| `settleQueue`, `settleRun` | the chain of promises behind `settleInFlight`, and `settleGameOnce` of the first in it |
| `resettle[r]` | `resettleGame` called by the button or after an AI evaluation: waiting for the settlement that was last when it began, or computed and not yet written |
| `ai` | `runFinalAiEvaluation`, one in the process (`finalRunning`) |

`setPhase` writes two rows, so the phase and the deadline are two steps. The conditional claim of the scheduler and the repeated
write of the phase in `transitionTo` are steps of their own; the organiser's end has no claim. `Restart` loses all
handlers; nothing resumes them. `mustCount`, `forced` and `mishaps` are history. `mishaps` has `early` when the contest
was closed, or its auction sold, while a settlement or resettlement was already under way or final.

Abstractions: `computeScores` reads at one moment; its reads are queries of one `Promise.all`, and between them a fact could be
seen by one and not by another, which the counter does not tell apart. Closing the auctions is one sale. Refunds of ad slots,
statistics and notifications are left out. Each button is pressed once at a time, and the deadline is moved once.
A resettlement that fails writes nothing, as one that has not come to its write.

### AdSlots and the code

A slot is named by its kind and hour. `status[s] = "NONE"` means that `ensureAdSlots` has not created the row yet. `booked[s][u]` is the
part of the user's ADSLOT and ADSLOT_REFUND entries that refers to the slot. `BidAdSlot` is the whole transaction of `bidAdSlot`: the
quota, the wallet less the reserved coins, the refund of the holder before, the payment. The scheduler: `BeginTick` (`TickHasClosed`
when the deadline has passed, then `WriteClosedAt` and the refunds), `TickReadsPhase`, `ReadDueSlots`, `MarkPush`, `ClaimPush`,
`SendPush`, `RetryAdSlotRefunds`, `EndTick`. Both enders, the organiser and the scheduler, take `EnderReadsSlots` and then one
`RefundAdSlot` or `RefundFails` for each row that they read; the transaction claims the row only while it is OPEN. `Restart`
loses the handlers. `SendPushFails` is a throw after the claim: of the query for the product or of `notifyAll`, which end the whole
`sendDuePushSlots` of this tick, or of the write of "skipped", whose error the code swallows (`adslots.ts:244`). History: `sent`,
`overtaken` (pushes of a tick that had seen LIVE when the contest closed), `dropped` (claimed and then not sent).

### Teams and the code

`teamRow[t]` is the row and its column `solo` (`free`: not created, `gone`: deleted). Every handler of `lib/team.ts` and of the
organiser's page reads first (`...Reads`) and commits later; `request[r]` keeps what it read and does not look at again, `compose` the
same for `adminAutoCompose`, which counts all teams once and then runs one transaction for each player. What a transaction does
repeat is in its guard: `Joinable` (open, not full, not solo) for the ways in, `PendingOf` for invitations, `DeleteEmptyTeam` after
each way out. Any team with a place stands for the one that matchmaking would choose by roles. An idea or product of a team is one
flag (`hasWork`), its submission another (`finalWork`). Renaming, logos and roles change nothing here.

### IdeaSupport and the code

One idea, players of other teams and several handlers of its team. Texts are numbers. `investCore` and `withdrawInvestment` are
one action each, because they are one transaction each. `saveIdeaAction` is `SaveChecks` (the module, the idea as it was),
`SaveTooSoon` or `SaveCompares` (with the last revision) and `SaveWrites`; `unsubmitIdeaAction` is `UnsubmitReads` and `UnsubmitWrites`.
`raced` notes a handler that wrote after another handler of the team had written since its read.

### Products and the code

Nothing about a product is a transaction, so every query that matters is a step. `hand[h]` is a request of the team: `save`
(`saveProductAction` past its check of `submittedAt`), `unlock`, `show`, `publish`, and the evaluation `eval`, `mark`, `read`, `look`,
`ask`, `store`, `after`, `count`, `swap`, `reset` (`runCappedAiEval` around `runJuryAi`, or `requestAiRecheck` with `force`). What the
form sends is one value, `page`; `quality` is the page that the AI's score in the row is about, and `juryCache` the page and a count for
the date of the cache row, by which `runCappedAiEval` sees whether an evaluation took place (`CapReads`). `CountReads`, `CountSwaps`,
`CountMisses` and `CountGivesUp` are the loop of `incrementAiEvalCount`, a compare-and-set of `CountTries` attempts.
`panel` has the organiser's pages that list the product:
the organiser decides on what the page showed when it was loaded. The contest is in one phase, so there is one counter.

Any query of a request may throw (`HandThrows`). Inside `runJuryAi` of a submission the error is swallowed (`app/build/actions.ts:249`)
and the request goes on to the count, with or without a new cache row; everywhere else the request ends, also a recheck between its
claim and its answer. `SetFeaturedThrows` is the same of the organiser's pick, and `ProductsRestart` ends all handlers.
A query that throws has no effect. `MaxMishaps` bounds errors and restarts together.

History: `approved` and `decided` (what the organiser last decided), `overtaken`, `outrun`; `answers` and `rechecks`; `uncounted`
(answers of submissions that were not counted because the request threw, stopped or gave up), `burned` (a recheck threw or stopped
before its answer), `mixed` (two answers were being stored at once, or one was stored in the row and not in the cache). No guard reads them
except `AiAnswers`, for the bound.

### Standings and the code

`RankNext` is one turn of the loop that numbers the sorted results: the entry that `compareRank` puts before all that are left.
`AwardRank` and `AwardSpecial` are one turn of the loop of `computeAwards`. An entry has what these functions compare, so that
the scores themselves, floating-point sums, are only ordered. Ids are numbers in the order of `entryKey` and of `listPrizes`.

### LoginCodes, LiveReads and DbLock and the code

`LoginCodes`: one phone number. `RequestReads` and `RequestOtp` are the two halves of `requestOtp` around its await, `VerifyReads`,
`VerifyCounts` and `VerifyConsumes` the steps of `verifyOtp`; each conditional update is one step. `otp`, `clock`, `smsLeft` are its
rows, the time and the hourly budget.

`LiveReads`: every commit in `auction.ts` raises `version`; `PublishAuctionChange` comes some time after it. A load is a promise
that reads the version some time after it began; the cache (`entry`) holds promises, readers wait for them. The broadcaster's run
takes the live auction's id and then its state from the cache (`RunHasId`, `RunSends`), may fail, and starts over when `dirty`. When `getPublicAuctionState` settles an expired auction it loads the state a
second time (`auction.ts:539`) and answers with that; the model answers with the first load, which can only be older.

`DbLock`: a job is a lone query, or a transaction of two writes. The connection does not know who asks, so a write while a
BEGIN is open becomes part of it. Only the lock keeps jobs apart. Towards `AtomicJobs` a job is answered in the step that
releases the lock, and `stored` is what is committed: writes inside an open transaction are invisible. A job ends with its commit or rollback.
In the code a callback that Prisma has timed out may still be running after the rollback, and its later queries through `prisma` bypass
the lock, because its chain still has `inTransaction` set (`lib/db.ts:48`); this is not modelled. Nor is a
commit that throws: `finish` releases the lock all the same (`lib/db.ts:65`), and what the database then holds is up to the driver.

## 3. Properties

| Property | What it says | Why it is not obvious |
|---|---|---|
| `OneLive` | at most one auction is LIVE | scheduler and organiser both decide before an `await` |
| `LeaderBacked` | the leader of a live auction holds the coins of the leading bid, unless the organiser deducted some | reserved coins stay in the wallet; every spending path must compute the reservation |
| `LeaderWins` | an ended auction belongs to its highest bid, at its price, unless the organiser deducted the leader's coins | the payment happens long after the bid |
| `TimeToAnswer` | after every bid more than the window, or than the extension, was left | boundary of the window, last instant |
| `BooksMatchSales` | AUCTION_WIN entries = won auctions, Purchase and Investment rows = their entries | three tables written by different handlers |
| `LiveNotSwept` | the sweep takes no auction that went live | it deletes what it read earlier |
| `NoWinAfterFinal` | after the final result no auction is won | handlers that read the auction before the end |
| `ImplementsAccounts` | every step is one booking of `CoinAccounts` | the promise all spending paths share |
| `ImplementsAscending` | every step is one of `AscendingAuctions` or invisible to the players; the one exception there is a leader whose coins the organiser took | the promise of the whole auction, kept by starters, settlers, sweep, clock and wallets together |
| `AuctionsProgress` | every live auction ends (`AuctionsEnd`); every product queued in a running contest leaves the queue (`QueueEmpties`) | depends on ticks, gap, deadline and sweep together |
| `PaymentsBooked` | no order is credited twice (`CreditedOnce`), and the PAID orders are the credited ones (`PaidIsCredited`), unless a failing start erased a PAID | callbacks repeat and race the organiser; two tables, and orders read earlier are reopened |
| `CapKept` | what counts in the cap stays under it, but for orders credited after a cancellation (`RoomKept`), and what a user was credited exceeds it by no more than these orders, unless a failing start erased a PAID of the user (`ExcessIsLate`) | check and write of two handlers; relates what was credited to what counts, over orders that changed in between |
| `ConfirmedIsKept` | a payment the gateway confirmed makes the order PAID or leaves its code on it, unless the process restarts | the order may change at each of three awaits |
| `FinalHasAll` | a final result contains all that happened until the contest closed and what its last auction sold, unless a settlement was under way then | scores are computed before the transaction that writes them, by up to four handlers |
| `SettleKeepsFinal` | only a resettlement replaces a final result | something else may become final while scores are computed |
| `ForcedIsFresh` | after the end's own AI evaluation no older answer is stored | the panel's evaluation may be under way at the end |
| `EndsSettled` | a deadline that has passed leads to a final result, unless it is moved, a step fails or the process stops | two closers, one claim, a queue of settlements |
| `HolderPaid` | for every slot the ledger leaves its holder exactly the price and nobody else anything | outbid, refunded by two enders and by every later tick |
| `QuotaKept` | no team holds more than its hours, whichever members bid | quota is per team, bids are per user |
| `PushKept` | a push goes out at most once; what is marked as sent went out, is on its way or its sender failed (`dropped`); what was refunded did not go out, unless it was on its way at the close | mark, claim, send and refund are four steps of two handlers |
| `SlotsSettled` | once the end is dated, every slot that was sold is at last shown, sent (its push really went out, whatever its mark says) or refunded, except pushes that were claimed and then not sent (`dropped`) | transactions fail, the process stops, the scheduler retries |
| `FullKept` | no team has more members than its capacity, unless a merge overfilled it | seven ways in, each with its own check |
| `SoloAlone` | a solo team has one member, unless `autoComposeTeams` added to it | goSolo races every way in |
| `TeamsInUse` | nobody's team is deleted; a team without members has work, or the organiser took its last member | the last two leave at once, joins race deletions |
| `SupportBooked` | what a user has on the idea is what is missing in its wallet and in its ledger | partial withdrawals after several edits |
| `SupportersKept` | while the idea is submitted every supporter has seen its content or can withdraw, unless two handlers of the team raced | edits compare with a revision, withdrawal with a date |
| `CodesSpentOnce` | one open code per purpose, each good for one entry and compared at most the allowed times | concurrent requests and answers |
| `FreshReads` | whoever asks after a publication gets nothing older, and no stream keeps something older than the load of its last message had to have | shared promises begun before the invalidation |
| `JobsAreAtomic` | the lock implements `AtomicJobs`: jobs happen in one step and in the order of asking, and whoever is answered has given the lock back | queries of others inside an open transaction; what all other modules assume |
| `DecisionsStand` | what the showcase shows is what the organiser approved, a picked product is in the showcase, a publication keeps the organiser's status; unless a handler wrote over what it had not read (`overtaken`, `outrun`) | decisions, unlocks and saves over any number of rounds |
| `FeedbackKept` | every answer of the AI for a submission is counted or about to be, except one for each request that threw, stopped or gave up on the counter after it (`uncounted`), and the cap is exceeded at most by the handlers at work; one recheck, which has its answer or its request once it is used, unless that threw or stopped (`burned`); the cache answers for the stored score unless two evaluations stored at once or one did not get to the cache (`mixed`) | three writes after a long call, a counter without a transaction, two different callers, errors at each query |
| `StandingsFair` | a rank is the number of those ahead plus one; one prize of each sort for an entry; nobody who qualifies is passed over; while entries or prizes wait, exactly one is next (`OneComesNext`) | a comparison of six levels must be a total order; ties at five levels, categories, thin tracks, prizes of one rank |
| `ResultCoversContest` | when everything has run to its end the result contains the contest | **violated**, see section 4 |
| `ClosedForGood` | a closed contest stays closed | **violated**, see section 4 |
| `BoughtWithinCap` | nobody buys more than the cap | **violated**, see section 4 |
| `NoneLeftLive` | no auction is LIVE once the result is final | **violated**, see section 4 |

`TypeOK` and its like are the type invariants; where there are wallets they include that none is negative. `PartsTypeOK` is
the one of the part that runs. `BidsRise` (bids differ by the increment at least), `LeadsKept` (a slot's bid leaves the coins that
its bidder leads auctions with), `ResultFrozen` (an ended auction never changes) and `AnsweredIsStored` (what was answered is in the
database, what failed is not) are proved and not in a run, the last two because the refinements `ImplementsAscending` and
`JobsAreAtomic` say them; in the runs the mutants of others catch what they would.

Every property has a mutant in its module: a definition changed as a slip in the code would change it
(`PurchaseUnreserved` forgets the reservation, `SettleUnclaimed` the claim on the row, and so on); TLC finds the
property violated with it.

## 4. Runs

| Run | Bounds | What it shows |
|---|---|---|
| `auction_money` | 2 users with 3 and 2 coins, 1 product at price 2, increment 1, auctions of 2, window and extension 1, deadline 3, corrections of -1, manual settlement; 2.1 M states | money and bids: all interleavings of raising, outbidding, buying, supporting, deducting and settling up to and after the deadline; both refinements |
| `auction_queue` | 1 user with 1 coin who owns one of 2 products, organiser starts, moves, settles and ends, steps fail, 1 restart, deadline 3; 4.5 M states | scheduling: starters, settlers and closer against each other |
| `auction_liveness` | as above without organiser's starts and ends, failures and restart; the market closes and opens, bulk enqueue; deadline 3, clock to 4; 0.3 M states | liveness under `Fairness` |
| `auction_late_start` | as `auction_queue` with only the organiser's end | **violation** of `NoneLeftLive` |
| `coin_sale` | 1 user, orders of 1 and 2 coins under a cap of 2, 2 callbacks and 1 organiser at a time, failing starts, the sale closes and opens, 1 restart; 0.3 M states | the sale: `ConfirmedIsKept` under `Fairness`, the rest safety |
| `coin_cap` | the same without failures | **violation** of `BoughtWithinCap` |
| `game_end` | with AI, one change of the contest and the last sale, up to three of: end, deadline moved, settle, resettle, AI, failure, restart; 1.6 M states | closers, settlers, resettlers and AI against each other |
| `ad_slots` | 3 users of 2 teams with 1 to 2 coins, one of which is reserved, a push in hour 1 and a banner in hour 2, quota 1, deadline 3; products taken back, the module closed, one failure or restart; 1.0 M states | bids, pushes, refunds; `SlotsSettled` under `FairSpec` |
| `teams` | 3 players, 2 teams of two, 1 invitation, 2 requests at a time and 4 in all, the organiser's tools; alike players, teams and requests are symmetric; 0.9 M states | every pair of ways in and out between check and commit |
| `parts` | support: 1 user with 2 coins, 2 handlers, 2 texts, 3 dates; codes: 3 codes, 2 purposes, 2 requests and 2 answers at a time, 2 attempts, clock to 2; reads: 3 promises, 1 reader beside the broadcaster, 1 stream, 2 commits; lock: 3 jobs; product: 2 requests, 2 pages, cap 2, 4 answers, 2 attempts at the counter, 1 error or restart, requests and pages symmetric; standings: 3 entries of 10 sorts, 2 prizes of 4 sorts; 2.7 M states | the six parts, each in all its interleavings or inputs |
| `end_stale` | without AI; end and settle | **violation** of `ResultCoversContest` |
| `end_reopen` | end and deadline | **violation** of `ClosedForGood` |

Why these bounds. The end: a stale score needs one change after it was computed (the sale, or the jury), and a second one to
tell two stale scores apart; three presses put every pair of tools next to either closer. The sale: the cap is per user and an order's money concerns its own row, so one user and two orders,
of which one fits the cap only when the other does not count, show every conflict; two callbacks and an organiser are
three claims on one order. The money of an auction concerns its leader, a challenger and the place where the leader could
spend the coins elsewhere: two users, three coins (two bids, or a bid and a purchase), one product that can also be
bought. The queue concerns the one that is live and the next: two products, one of them never bid on. Two products
also make a wrong `OneLive` visible. The clock needs a start, an end and an extension before the deadline and one
instant after it. Slots: a push and a banner are the two ways of delivery; a holder, a challenger and a team mate make every
refund and the quota. Teams: a place that two want needs teams of two and three players, and a conflict needs two requests;
the invariants are of one team each. Support: a withdrawal that is partial needs a support before and one after an edit, and two coins; another
supporter has its own rows and wallet. A code
and the one that replaces it are two, the third tells reuse from replacement. A promise begun before, one after the
invalidation and one in the broadcaster are three. A transaction, a query in its middle and one waiting are three jobs. A product's
conflicts are of two handlers; with a cap of 2 a third evaluation begun below it exceeds it and a fourth must not happen, so four
answers, one of which may be the recheck; a request loses both of its attempts at the counter when the other one counts twice
meanwhile. One error or restart at a time: each exception of `FeedbackKept` takes one. Of the modules AI, showcase and studio one is open in a behaviour, because their columns meet only in the save and the unlock,
which are in all three. Entries differ in each of the comparisons of `compareRank`, and the prizes are two places, a
category's first place and a committee's choice. The theorems of section 5 carry the invariants beyond these bounds. Most runs do not check deadlock: at `MaxTime`, at a bound on requests or answers,
or when every job is done and every prize given, the system stops.

**Fairness.** `AdvanceClock`: time passes. The tick's actions: `instrumentation.ts` starts a tick every 30 s and a
handler that has begun is resumed when the database answers. `StartNextAuction`, `SettleCore`, `RecordEnded` and the
`GameEnd...` actions for the same reason. Weak fairness is enough: once enabled each stays enabled until taken or made
pointless. Nothing is assumed of players and organisers. Failing queries and restarts are not in the liveness run: after
`CloseAuctionsFails` the code leaves the auction LIVE on purpose (comment at `lib/phase-transition.ts:41`), and after a
restart during the end nothing resumes it. In `CoinOrders` only the steps of a callback that the gateway has answered are
fair: nobody has to cancel, pay or come back. In `GameEnd` time, the tick and the steps of a `transitionTo` or `settleGame` that
has begun are fair; the AI's answers and the organiser's tools are not, and `EndsSettled` does not need them. In `AdSlots` the tick (its timer runs
on), and the steps of an end and of its refunds that have begun are fair; bids, failures and restarts are not. The other modules claim only safety.

**The violations.** `auction_late_start` finds, in thirteen steps: a product is queued, a tick begins and passes its
checks, the organiser ends the contest, `closeAuctionsForGameEnd` reads the live auctions (none), and the tick starts
the next auction. `startNextAuction` does not look at the phase; `resolveAuctionDuration` reads CLOSED and answers
the configured duration. The sweep skips the auction, and `settleCore` refuses everybody from then on, so it stays
LIVE after the final result. The comments at `lib/auction.ts:130` and `lib/auction.ts:135` say that the live auction
is settled at the end and the next one must not start. Closing at the deadline does not have this race, because the tick
itself closes the contest; the liveness run shows it.

`coin_cap`: a user pays for the order of two coins, cancels it while `driver.verify` is awaited, orders one coin, and both are
credited: three coins under a cap of two. `docs/ops.md:271` says that paid and pending orders both count in the cap;
crediting the canceled order is deliberate (`lib/coins.ts:216`), its effect on the cap is not considered there. `ExcessIsLate`,
checked and proved, says that this is the only way above the cap.

`end_stale`: the organiser ends the contest, the phase is CLOSED, settle-now is pressed and computes, the auction is sold, the
button's result is written and marked final by the phase, and the settlement of the end finds a final result and leaves it.
The same happens to a settlement that computed while the contest was LIVE and writes after it closed. The comment at
`lib/phase-transition.ts:31` says that reaching CLOSED always settles again. With an AI configured, the end's evaluation
is followed by a resettlement, which repairs it; the run is without one.

`end_reopen`: `setDeadlineAction` writes back the LIVE that it read, although the contest was closed in between; the
panel calls the end irreversible (`app/admin/control/ControlForms.tsx:127`). The final settlement stays, and with a new
deadline the contest is closed a second time with nothing left to settle.

Other disagreements are visible in the models and have no run of their own; the properties except exactly these cases, through
history variables:

* `adminMergeTeams` counts outside its transaction (`lib/team.ts:611`): a join in between makes a team of more than three.
* The last two members of a team with an idea leave at once: each counts the other outside the transaction (`lib/team.ts:562`), and
  the team stays without members, which the comment at `lib/team.ts:561` wants to prevent.
* `adminAutoCompose` counts everything once (`lib/team.ts:686`) and moves players who have joined a team since, or into a team that went solo.
* A push that the tick had read as due is delivered and refunded when the contest closes in between; without `closed_at`, after a
  crash or a failing write, nothing is refunded (`lib/scheduler.ts:97`).
* `adminMarkOrderPaid` takes the gateway's code from the row that it read first (`lib/coins.ts:263`) and compares only the status when
  it reopens the order (`lib/coins.ts:258`): a code that a callback noted in between, so that it is not lost (comment at
  `lib/coins.ts:222`), is replaced by a manual one. The order is PAID, which is all that `ConfirmedIsKept` asks.
* `requestOtp` reads the recent codes before an await: concurrent requests do not see each other's resend window.
* A draft of an idea, or its unlock, is written over a submission that came after its read (`app/idea/actions.ts:80`).
* A save that found the product unlocked is written after it was submitted, which the comment at `app/build/actions.ts:120` wants to
  prevent; an approval given while a product is unlocked, or after the unlock read the status, lasts through the edit
  (comment at `app/build/actions.ts:273`); an unlock that read APPROVED brings a product back that was withdrawn meanwhile.
* A request to go live is written over PUBLISHING or LIVE that came after its read (`lib/studio.ts:58`).
* A push slot that was claimed and then not sent keeps the mark of its sending: `notifyAll` or the query for the product throws, the
  write of "skipped" fails (`lib/adslots.ts:244`), or the process stops. Such a slot (`dropped`) is never sent and never refunded, although
  the comments at `lib/adslots.ts:265` (a push is delivered only if it was really sent) and `lib/adslots.ts:279` (what did not go out is
  returned) say otherwise: `isAdSlotDelivered` looks only at the mark, which the claim sets before the sending.
* The cap on evaluations is exceeded by those under way when it was read, and two evaluations that store at once leave a score of one page
  and a cache of another.
* When the write of the cache row (`lib/jury-ai.ts:126`) throws after the score was stored, `app/build/actions.ts:249` swallows it: the
  score is about a page that the cache does not know, and the evaluation is not counted, although "only a real evaluation is counted"
  (comment at `lib/ai.ts:171`) takes the cache row as its sign. An evaluation is also not counted when a query of the count throws, or when five
  attempts of its compare-and-set fail (`lib/ai.ts:155`), which returns without an error.
* A throw inside `requestAiRecheck` after its claim (`lib/jury-ai.ts:143`), or a stop, burns the one recheck, although the comment at
  `lib/jury-ai.ts:145` says that the share must not be burned when the evaluation was not done: only an answer of null gives it back.

Four more hazards of the code are in the models without a property of their own: after a crash between a settlement and
`last_auction_ended_at` (`lib/auction.ts:277`) the next auction starts without the gap, which is a courtesy to viewers; two rows of the queue may get one order
(`lib/auction.ts:110`), and either may be next; a purchase past its gate commits in a market that has just closed
(`lib/market.ts:154`); a `$transaction` inside another one would wait for itself (`lib/db.ts:47`), and the code has none.

Another disagreement: the end asks for an evaluation of everybody from scratch
(`lib/phase-transition.ts:58`), but while the panel's evaluation is under way it gets nothing done and does not repeat
it. `ForcedIsFresh` therefore speaks only of an end whose evaluation was stored.

## 5. Theorems

TLAPS proves, for every value of the constants that the `ASSUME`s of the modules allow (any set of users, any
finite set of products, any prices, durations and coins; bounds such as `MaxTime` and `Manual` are arbitrary too):

* of the auction: `TypeCorrect`, `AtMostOneLive`, `BidsAlwaysRise`, `LeaderAlwaysBacked`, `HighestBidWins`, `TimeToAnswerAlways`,
  `BooksAlwaysMatchSales`; the action properties `ResultsAreFrozen`, `LiveIsNotSwept`, `NoWinAfterFinalSettlement`; the refinements
  `AuctionImplementsAccounts` and `AuctionImplementsAscending`;
* of the sale, for any numbers of users, orders, callbacks and organisers: `SaleTypeCorrect`, `PaymentsAlwaysBooked` (with its
  halves `AlwaysCreditedOnce` and `PaidAlwaysCredited`), `CapAlwaysKept` (with its halves `RoomAlwaysKept` and
  `ExcessAlwaysLate`) and `SaleImplementsAccounts`;
* of the end, for any number of presses and changes: `EndTypeCorrect`, `FinalAlwaysHasAll`, `SettleAlwaysKeepsFinal`,
  `ForcedAlwaysFresh`;
* of the slots, for any users, teams, slots and failures: `SlotTypeCorrect`, `SlotLeadsKept`, `SlotPaidOnce`, `SlotQuota`, `SlotPush`
  and `SlotsImplementAccounts`;
* of the teams, for any number of players, teams, requests and any capacity: `TeamsTypeCorrect`, `FullAlwaysKept`, `SoloAlwaysAlone`,
  `TeamsAlwaysInUse`;
* of the support: `IdeasTypeCorrect`, `SupportAlwaysBooked`, `SupportersAlwaysKept`, `SupportImplementsAccounts`;
* of codes and reads, for any number of requests and streams: `CodesTypeCorrect`, `CodesAlwaysSpentOnce`, `ReadsTypeCorrect`,
  `ReadsAlwaysFresh`;
* of the lock, for any number of jobs: `LockTypeCorrect`, `AnsweredAlwaysStored`, and the refinement `LockIsAtomic`;
* of a product, for any number of requests, pages, attempts at the counter and queries that throw: `ProductsTypeCorrect`, `DecisionsAlwaysStand`, `FeedbackAlwaysKept`;
* of ranking and prizes, for any entries, ties and prizes: `StandingsTypeCorrect`, `StandingsAlwaysFair`, and its part
  `OneAlwaysComesNext`;
* of `CoinAccounts`: `AlwaysBalanced`; through the refinements it holds of what implements it, as `AuctionAlwaysBalanced`,
  `SaleAlwaysBalanced` and `SlotsAlwaysBalanced`: every wallet is what its owner started with plus what the ledger records;
* of `MCParts`: `PartsAreAlone` (each part behaves as its own specification alone) and `PartsTypeCorrect`.

The argument: `TypeOK` is inductive by itself (`TypeOKNext`, one step per action). `LeaderWins` is not: it needs
`LeaderBacked` at the moment of settlement; that needs `OneLive` (with two live auctions the reservation of one could
pay for the other), `BidsRise` (the leader is one row) and that a started auction has no bids. `AuctionInv` adds these:
`Unbid` (no bids before LIVE), `TopBid` (some bid is the highest once there is one, which spares an induction over
finite sets), `Unsold` (no winner before ENDED). Most actions are covered by two lemmas, `QueueSteps` for what only
moves products in the queue or does not touch auctions, and `WalletSteps` for what only moves coins; `PlaceBidStep`,
`StartStep` and `SettleStep` are the ones with content. `Reservation` and `NoReservation` evaluate the reserved sum:
by `OneLive` it is a sum over at most one auction, which `SumOverEmpty` and `SumOverOne` compute from the fold's definition.

`SetSums` has what larger sums need: a sum exists, is an integer, changes by one summand when one element comes, goes or changes, and
grows with its set. The fold picks elements by `CHOOSE`, so each of these is an induction over finite sets; the library's induction
theorem cannot be instantiated here, and the lemmas take a minimal counterexample instead (`MinimalSubset`: a non-empty family of
subsets of a finite set has a minimal one, from the well-foundedness of the proper subset).

`BooksAlwaysMatchSales` is `BooksMatchSales` with `TypeOK` and the finite products: a settlement adds one product to those a user has
won and one entry to the ledger (`SaleAdds`), every other payment changes one entry and one row together (`ChargeBooks`).
`AuctionImplementsAscending` maps an auction with its bids to what players see; it needs `AuctionInv` and `Unpriced` (no price before
ENDED). One lemma per kind of step: `QueueMoves`, `EnsureMoves` and `SweepMoves` are steps of the queue, `StartOpens` opens only when nothing
is live, `BidIsOffer` shows that a bid is above all others, and `SettlementCloses` that the leader wins when its coins are there and
was docked when they are not. `UnseenSteps` collects what players do not see.

In the sale `CreditedOnce` is inductive only together with `PaidIsCredited` (an unpaid order has no credit yet, so the one
that `MarkPaid` adds is the first) and two facts about creation: a request that still asks has no row (`AskedFirst`), one
that waits for the driver has one (`StartedLater`); otherwise creating an order could make a credited one PENDING.

`CapInv` is `RoomKept` together with finitely many orders made so far; the set of all orders may be infinite. Whoever creates or reopens
an order adds its coins to the sum in the transaction that compared it; nobody else adds to the orders that count.
`PostedIsPaid` says that what a user was credited is the sum of the user's PAID orders, unless a PAID was erased, and the two give
`ExcessAlwaysLate`.

At the end `FinalHasAll` is not inductive, because a score is computed in one step and written in a later one. `CountsAll` says it
of every computed score as well, and `NotedChange` is the heart: what must count grows only when nothing is computed or
final, or it is noted as early; this needs that a running settlement is in the queue (`RunIsQueued`). `ForcedIsFresh`
needs in addition that a closer behind `SetClosed` finds the phase CLOSED (`ClosersClosed`), hence has a final result when it
asks the AI (`AiAfterFinal`), and that the panel asks only while nothing is stored.

Of the slots, `MoneyInv` strengthens `HolderPaid`: a row is refunded only after the close (`RefundsAfterClose`), when nobody
bids any more, so what a refunder has read (`RowsCurrent`) is what the row still says, or the row is refunded already. `PushInv` ties
the slot in hand (`PushInHand`) to its mark, and every push that a tick still holds at the close to `overtaken` (`OvertakenAtClose`).

`TeamsInv` is `TypesInv` (types, and what each kind of request has read) with all four properties at once: no team is deleted with
members because a deletion counts them in its transaction, which needs that members' teams exist. Every commit is a change of
`teamOf` and `teamRow` of one or two teams, and one lemma per kind of change carries the four.

Of the support, `BooksInv` sums the coins of a user's rows as the size of a set of pairs (`CoinPairs`), so that no induction is
needed. `KeptInv` says of an unlocked idea (`Unlocked`) that its supporters have seen the last revision, and of a saver that was
not overtaken that what it read is still so (`ReadStill`).

`CodesInv`: a code counts an attempt before it is compared (`Counted`), and it is consumed when it was good (`SpentOnce`).
`ReadsInv`: a load in the cache that has read is at least as new as the last announcement (`StoreFresh`), because an announcement
voids the cache; readers and the run hold loads that began after what they must see. `LockInv`: the holder of the lock is the only
one that runs (`LockHeld`, `OneBegin`), so the open writes are its own (`OpenOfRunner`). `LockIsAtomic` uses the same: at the commit the open
writes are all of the job's and nothing else, so that the commit is the one step of `AtomicJobs`. `DecisionsInv`: an approval stands only
while the product is submitted; a pick under way belongs to a product of the showcase; and an unlock that read another
status will not find an approval (`ApprovalHolds`), all unless `overtaken`.

`FeedbackInv` has what each kind of request holds (`HandsFit`), that an answer is counted or the request that owes it is under way
or was noted as `uncounted` when it failed (`AnswersOwed`), that the counter and those that may still count stay near the cap (`CapNear`), that one request holds the claim of the
recheck (`ClaimHeld`), and that until the cache has an answer its request knows the page of the score (`ScoreKnown`). Whatever ends a
request before its time, an error, a last attempt at the counter, is one lemma, `OwedIsLost`: what it owed moves to the history.

Of the standings, `Ahead` and `Before` are shown to be strict total orders (`AheadTotal`, `AheadTransitive`, `BeforeOrders`), and a finite set that is
not empty has a first element (`FirstExists`, again by a minimal set): that is `OneAlwaysComesNext`. `RanksInv` says that the ranked
are ahead of all others and that the counter of a track is the number of its ranked; `PrizesInv` the same of the prizes given.

Assumptions used: coins of an order and prices and the increment are positive (`lib/settings-schema.ts`, `validatePurchase`), durations are
positive; products, slots, players, entries, prizes and the requests to one product are finitely many. Each is an `ASSUME` that TLC evaluates in the runs.

Only model-checked: what is liveness under fairness, `AuctionsProgress`, `ConfirmedIsKept`, `EndsSettled` and
`SlotsSettled`; the provers here know neither weak fairness nor ENABLED. Every other property of a passing run is a theorem.

## 6. Not modelled

* Scores themselves: floating-point functions of one call (`scoreGame` up to the sort, `economy/engine.ts`); only their order matters to
  `Standings`.
* Bazaar statistics, votes, hearts, board: single writes, conditional on a unique row, that nothing else depends on.
* Notifications, web push, feed, analytics, snapshots, pages and components, most of the repository's lines: output that the game does
  not read back.
* The AI, SMS and payment services: external; their answers and failures are steps of the models.
* Module exceptions of single teams, rate limits of callers, phone proofs, passwords, sessions, uploads, validation of forms, the
  daily AI budget, seeds and load tests.

## 7. Running

    tlc -workers 2 -config LiveAuctionMoney.cfg MCLiveAuction.tla
    tlc -workers 2 -config CoinOrders.cfg MCCoinOrders.tla
    tlc -workers 2 -config GameEnd.cfg MCGameEnd.tla
    tlc -workers 2 -config AdSlots.cfg MCAdSlots.tla
    tlc -workers 2 -config Teams.cfg MCTeams.tla
    tlc -workers 2 -config Parts.cfg MCParts.tla
    tlapm SetSums.tla
    tlapm LiveAuction_proofs.tla    (and each other module named _proofs)
