----------------------------- MODULE CoinAccounts -----------------------------
(***************************************************************************)
(* What the coin economy promises, whatever part of the game moves the     *)
(* coins: every user has one wallet (User.buyWallet), every change of it   *)
(* is written to the ledger (LedgerEntry) in the same transaction with the *)
(* same amount, and no wallet ever goes below zero.                        *)
(*                                                                         *)
(* posted[u] is the sum of the deltas of u's ledger entries.  The parts of *)
(* the game that spend or return coins implement this specification.       *)
(***************************************************************************)
EXTENDS Integers

CONSTANTS Users,         \* the players
          InitialCoins   \* starting_coins as each of them got it

VARIABLES wallet, posted

accountVars == <<wallet, posted>>

AccountsTypeOK ==
  /\ wallet \in [Users -> Nat]
  /\ posted \in [Users -> Int]

AccountsInit ==
  /\ InitialCoins \in [Users -> Nat]
  /\ wallet = InitialCoins
  /\ posted = [u \in Users |-> 0]

(* One transaction: some wallets change, each by what is posted for it. *)
Book ==
  /\ wallet' \in [Users -> Nat]
  /\ posted' \in [Users -> Int]
  /\ \A u \in Users : wallet'[u] - wallet[u] = posted'[u] - posted[u]

AccountsSpec == AccountsInit /\ [][Book]_accountVars

(* The wallet a user sees is the one the ledger explains.                  *)
Balanced == \A u \in Users : wallet[u] = InitialCoins[u] + posted[u]
===============================================================================
