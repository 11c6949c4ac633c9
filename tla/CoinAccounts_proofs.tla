-------------------------- MODULE CoinAccounts_proofs --------------------------
(* What follows from CoinAccounts alone, and so for every part of the game *)
(* that implements it.                                                     *)
EXTENDS CoinAccounts, TLAPS

(* Balanced is inductive once the wallets and the postings are known to be *)
(* numbers, the wallets that everyone started with among them.             *)
AccountsInv ==
  /\ InitialCoins \in [Users -> Nat]
  /\ AccountsTypeOK
  /\ Balanced

(* A booking keeps every wallet balanced.                                  *)
LEMMA BalancedNext == AccountsInv /\ [Book]_accountVars => AccountsInv'
<1> SUFFICES ASSUME AccountsInv, [Book]_accountVars
             PROVE  AccountsTypeOK' /\ Balanced'
  BY DEF AccountsInv
<1>1. CASE UNCHANGED accountVars
  BY <1>1 DEF accountVars, AccountsInv, AccountsTypeOK, Balanced
<1>2. CASE Book
  <2>1. AccountsTypeOK'
    BY <1>2 DEF Book, AccountsTypeOK
  <2>2. ASSUME NEW u \in Users PROVE wallet'[u] = InitialCoins[u] + posted'[u]
    <3>1. /\ wallet[u] \in Int /\ posted[u] \in Int /\ InitialCoins[u] \in Int
          /\ wallet'[u] \in Int /\ posted'[u] \in Int
      BY <2>1 DEF AccountsInv, AccountsTypeOK
    <3>2. /\ wallet'[u] - wallet[u] = posted'[u] - posted[u]
          /\ wallet[u] = InitialCoins[u] + posted[u]
      BY <1>2 DEF Book, AccountsInv, Balanced
    <3> QED BY <3>1, <3>2
  <2> QED BY <2>1, <2>2 DEF Balanced
<1> QED BY <1>1, <1>2

(* Every wallet is what its owner started with plus the ledger's entries.  *)
THEOREM AlwaysBalanced == AccountsSpec => []Balanced
<1>1. AccountsInit => AccountsInv
  BY DEF AccountsInit, AccountsInv, AccountsTypeOK, Balanced
<1>2. AccountsInv /\ [Book]_accountVars => AccountsInv'
  BY BalancedNext
<1>3. AccountsInv => Balanced
  BY DEF AccountsInv
<1> QED BY <1>1, <1>2, <1>3, PTL DEF AccountsSpec
================================================================================
