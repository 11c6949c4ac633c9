------------------------------ MODULE IdeaSupport -------------------------------
(***************************************************************************)
(* The support of an idea (lib/invest.ts) while its team edits it          *)
(* (app/idea/actions.ts): one idea of one team and the players of other    *)
(* teams who put coins on it.                                              *)
(*                                                                         *)
(* investCore and withdrawInvestment are one transaction each.  The team's *)
(* save and unlock read the idea first and write later, and what was read  *)
(* is not looked at again: saver[m] keeps it.  A content is a number, 0    *)
(* before the first save.  Reservations for the auction, which bound an    *)
(* investment too, are in LiveAuction.                                     *)
(***************************************************************************)
EXTENDS Integers, FiniteSets

CONSTANTS
  Supporters,     \* players of other teams
  SupportCoins,   \* the wallet of each of them at the beginning
  Savers,         \* bound: handlers of the team at work at one time
  Contents,       \* bound: what the texts of the idea may be
  MaxCoins,       \* bound: the largest single support
  MaxStamp        \* bound: supports and edits that are ever stamped

ASSUME SupportAssumption ==
  /\ SupportCoins \in [Supporters -> Nat]
  /\ Contents \subseteq Nat \ {0}
  /\ MaxCoins \in Nat /\ MaxStamp \in Nat

VARIABLES
  idea,         \* the Idea row
  lastRevision, \* the newest IdeaRevision, 0 without one
  stamp,        \* the clock: every createdAt and editedAt has its own
  supports,     \* the Investment rows; seen is the content at that time
  purse,        \* User.buyWallet
  purseLog,     \* the sum of the user's ledger entries
  saver,        \* the team's handlers at work
  cooling,      \* a submit of the team in the last AI_SUBMIT_COOLDOWN_MS
  ideasOpen, investOpen,  \* the modules idea and invest
  raced         \* history: a handler wrote after another had overtaken it

supportTable == <<supports, purse, purseLog>>
ideaVars == <<idea, lastRevision, stamp, supportTable, saver, cooling, ideasOpen, investOpen, raced>>

IdleSaver == [at |-> "idle", submit |-> FALSE, content |-> 0, edited |-> 0, overtaken |-> FALSE]

(* What a saver does next; of an unlock, submit and content are the idea's *)
(* as it was read.                                                         *)
SaverStates == {"idle", "checked", "compared", "unlock"}

IdeasTypeOK ==
  /\ idea \in [content : Contents \cup {0}, submitted : BOOLEAN, editedAt : 0..MaxStamp]
  /\ lastRevision \in Contents \cup {0}
  /\ stamp \in 0..MaxStamp
  /\ supports \subseteq [by : Supporters, coins : 1..MaxCoins, at : 1..MaxStamp, seen : Contents \cup {0}]
  /\ purse \in [Supporters -> Nat]
  /\ purseLog \in [Supporters -> Int]
  /\ saver \in [Savers -> [at : SaverStates, submit : BOOLEAN, content : Contents \cup {0},
                           edited : 0..MaxStamp, overtaken : BOOLEAN]]
  /\ cooling \in BOOLEAN /\ ideasOpen \in BOOLEAN /\ investOpen \in BOOLEAN /\ raced \in BOOLEAN

IdeasInit ==
  /\ idea = [content |-> 0, submitted |-> FALSE, editedAt |-> 0]
  /\ lastRevision = 0 /\ stamp = 0
  /\ supports = {} /\ purse = SupportCoins
  /\ purseLog = [u \in Supporters |-> 0]
  /\ saver = [m \in Savers |-> IdleSaver]
  /\ cooling = FALSE /\ ideasOpen = TRUE /\ investOpen = TRUE /\ raced = FALSE

(* The sum of the coins of some rows.                                      *)
CoinsIn(rows) == Cardinality({c \in rows \X (1..MaxCoins) : c[2] <= c[1].coins})
SupportsOf(u) == {r \in supports : r.by = u}
--------------------------------------------------------------------------------
(* saveIdeaAction: the gate and the lock are checked ...                   *)

SaveChecks(m, content, submit) ==
  /\ saver[m].at = "idle" /\ ideasOpen
  /\ ~idea.submitted
  /\ saver' = [saver EXCEPT ![m] = [IdleSaver EXCEPT !.at = "checked", !.content = content,
                                                     !.submit = submit]]
  /\ UNCHANGED <<idea, lastRevision, stamp, supportTable, cooling, ideasOpen, investOpen, raced>>

(* ... a submit within the cooldown is refused ...                         *)
SaveTooSoon(m) ==
  /\ saver[m].at = "checked" /\ saver[m].submit /\ cooling
  /\ saver' = [saver EXCEPT ![m] = IdleSaver]
  /\ UNCHANGED <<idea, lastRevision, stamp, supportTable, cooling, ideasOpen, investOpen, raced>>

(* ... another one is stamped as an edit if it differs from the newest     *)
(* revision ...                                                            *)
ChangedFromDraft(content) == lastRevision # 0 /\ idea.content # content
Changed(content) == lastRevision # 0 /\ lastRevision # content

SaveCompares(m) ==
  LET changed == Changed(saver[m].content) IN
  /\ saver[m].at = "checked" /\ saver[m].submit /\ ~cooling
  /\ cooling' = TRUE
  /\ IF changed
     THEN stamp < MaxStamp /\ stamp' = stamp + 1
     ELSE UNCHANGED stamp
  /\ saver' = [saver EXCEPT ![m].at = "compared", ![m].edited = IF changed THEN stamp' ELSE 0]
  /\ UNCHANGED <<idea, lastRevision, supportTable, ideasOpen, investOpen, raced>>

(* The handler is done; what the others at work have read is now old.      *)
SaverDone(m) ==
  /\ saver' = [n \in Savers |->
                 IF n = m THEN IdleSaver
                 ELSE IF saver[n].at = "idle" THEN IdleSaver
                      ELSE [saver[n] EXCEPT !.overtaken = TRUE]]
  /\ raced' = (raced \/ saver[m].overtaken)

(* ... and the row is written, whatever happened to it since.              *)
SaveWrites(m) ==
  LET s == saver[m] IN
  /\ s.at = IF s.submit THEN "compared" ELSE "checked"
  /\ idea' = [content |-> s.content, submitted |-> (idea.submitted \/ s.submit),
              editedAt |-> IF s.edited # 0 THEN s.edited ELSE idea.editedAt]
  /\ SaverDone(m)
  /\ UNCHANGED <<lastRevision, stamp, supportTable, cooling, ideasOpen, investOpen>>

(* unsubmitIdeaAction: the idea that is read becomes a revision.           *)
UnsubmitReads(m) ==
  /\ saver[m].at = "idle" /\ ideasOpen
  /\ idea.content # 0
  /\ saver' = [saver EXCEPT ![m] = [IdleSaver EXCEPT !.at = "unlock", !.content = idea.content,
                                                     !.submit = idea.submitted]]
  /\ UNCHANGED <<idea, lastRevision, stamp, supportTable, cooling, ideasOpen, investOpen, raced>>

UnsubmitWrites(m) ==
  /\ saver[m].at = "unlock"
  /\ lastRevision' = IF saver[m].submit THEN saver[m].content ELSE lastRevision
  /\ idea' = [idea EXCEPT !.submitted = FALSE]
  /\ SaverDone(m)
  /\ UNCHANGED <<stamp, supportTable, cooling, ideasOpen, investOpen>>
--------------------------------------------------------------------------------
(* investCore and withdrawInvestment.                                      *)

PaysBack(u, coins) ==
  /\ purse' = [purse EXCEPT ![u] = @ + coins]
  /\ purseLog' = [purseLog EXCEPT ![u] = @ + coins]

HasAnyCoins(u, coins) == purse[u] > 0
HasCoins(u, coins) == coins <= purse[u]

InvestCore(u, coins) ==
  /\ investOpen /\ idea.submitted
  /\ HasCoins(u, coins)
  /\ stamp < MaxStamp /\ stamp' = stamp + 1
  /\ supports' = supports \cup {[by |-> u, coins |-> coins, at |-> stamp', seen |-> idea.content]}
  /\ PaysBack(u, 0 - coins)
  /\ UNCHANGED <<idea, lastRevision, saver, cooling, ideasOpen, investOpen, raced>>

CanWithdraw(r) == r.at < idea.editedAt

WithdrawAll(u) ==
  LET eligible == {r \in SupportsOf(u) : CanWithdraw(r)} IN
  /\ investOpen /\ eligible # {}
  /\ supports' = supports \ eligible
  /\ PaysBack(u, CoinsIn(SupportsOf(u)))
  /\ UNCHANGED <<idea, lastRevision, stamp, saver, cooling, ideasOpen, investOpen, raced>>

WithdrawInvestment(u) ==
  LET eligible == {r \in SupportsOf(u) : CanWithdraw(r)} IN
  /\ investOpen /\ eligible # {}
  /\ supports' = supports \ eligible
  /\ PaysBack(u, CoinsIn(eligible))
  /\ UNCHANGED <<idea, lastRevision, stamp, saver, cooling, ideasOpen, investOpen, raced>>
--------------------------------------------------------------------------------
(* Around the idea: time passes and the organiser opens and closes the     *)
(* modules.                                                                *)

CooldownEnds ==
  /\ cooling /\ cooling' = FALSE
  /\ UNCHANGED <<idea, lastRevision, stamp, supportTable, saver, ideasOpen, investOpen, raced>>

SetModules ==
  /\ \/ ideasOpen' = ~ideasOpen /\ UNCHANGED investOpen
     \/ investOpen' = ~investOpen /\ UNCHANGED ideasOpen
  /\ UNCHANGED <<idea, lastRevision, stamp, supportTable, saver, cooling, raced>>

IdeasNext ==
  \/ \E m \in Savers :
       \/ \E content \in Contents, submit \in BOOLEAN : SaveChecks(m, content, submit)
       \/ SaveTooSoon(m) \/ SaveCompares(m) \/ SaveWrites(m)
       \/ UnsubmitReads(m) \/ UnsubmitWrites(m)
  \/ \E u \in Supporters :
       \/ WithdrawInvestment(u)
       \/ \E coins \in 1..MaxCoins : InvestCore(u, coins)
  \/ CooldownEnds
  \/ SetModules

IdeasSpec == IdeasInit /\ [][IdeasNext]_ideaVars
--------------------------------------------------------------------------------
(* Properties *)

(* What a user has put on the idea and not taken back is what is missing   *)
(* in the wallet, and what the ledger says: the sum of the eligible rows   *)
(* is paid back once, rows of the same user after the edit stay.           *)
SupportBooked ==
  \A u \in Supporters :
    /\ purse[u] + CoinsIn(SupportsOf(u)) = SupportCoins[u]
    /\ purseLog[u] + CoinsIn(SupportsOf(u)) = 0

(* "If it differs from the previous version, the supporters before can     *)
(* take their support back" (idea/actions.ts:108): whenever the idea is    *)
(* submitted, a supporter has seen the content it has, or can withdraw;    *)
(* over any number of edits, back and forth, unless two handlers of the    *)
(* team raced.                                                             *)
SupportersKept ==
  idea.submitted /\ ~raced =>
    \A r \in supports : r.seen = idea.content \/ CanWithdraw(r)

Accounts == INSTANCE CoinAccounts
  WITH Users <- Supporters, InitialCoins <- SupportCoins, wallet <- purse, posted <- purseLog
================================================================================
