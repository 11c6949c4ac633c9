------------------------------ MODULE Parts_proofs -------------------------------
(***************************************************************************)
(* The parts of the server that share no state, for any number of          *)
(* supporters, requests, streams, jobs, pages, entries and prizes, and     *)
(* their composition in MCParts.                                           *)
(***************************************************************************)
EXTENDS MCParts, SetSums

(***************************************************************************)
(* The support of an idea.                                                 *)
(***************************************************************************)

(***************************************************************************)
(* The sum of the coins of some rows.                                      *)
(***************************************************************************)

SupportRows == [by : Supporters, coins : 1..MaxCoins, at : 1..MaxStamp, seen : Contents \cup {0}]
CoinPairs(rows) == {c \in rows \X (1..MaxCoins) : c[2] <= c[1].coins}

LEMMA PairsFinite ==
  ASSUME NEW rows, IsFiniteSet(rows)
  PROVE  IsFiniteSet(CoinPairs(rows)) /\ CoinsIn(rows) \in Nat
<1>1. IsFiniteSet(1..MaxCoins)
  BY SupportAssumption, FS_Interval
<1>2. IsFiniteSet(rows \X (1..MaxCoins))
  BY <1>1, FS_Product
<1>3. CoinPairs(rows) \subseteq rows \X (1..MaxCoins)
  BY DEF CoinPairs
<1>4. IsFiniteSet(CoinPairs(rows))
  BY <1>2, <1>3, FS_Subset
<1>5. CoinsIn(rows) = Cardinality(CoinPairs(rows))
  BY DEF CoinsIn, CoinPairs
<1> QED BY <1>4, <1>5, FS_CardinalityType

LEMMA NoCoins == CoinsIn({}) = 0
<1>1. CoinPairs({}) = {}
  BY DEF CoinPairs
<1> QED BY <1>1, FS_EmptySet DEF CoinsIn, CoinPairs

LEMMA CoinsOfOne ==
  ASSUME NEW r, r.coins \in 1..MaxCoins
  PROVE  IsFiniteSet({r}) /\ CoinsIn({r}) = r.coins
<1>1. CoinPairs({r}) = {r} \X (1..r.coins)
  <2>1. 1..r.coins = {n \in 1..MaxCoins : n <= r.coins}
    BY SupportAssumption
  <2> QED BY <2>1 DEF CoinPairs
<1>2. IsFiniteSet({r}) /\ Cardinality({r}) = 1
  BY FS_Singleton
<1>3. IsFiniteSet(1..r.coins) /\ Cardinality(1..r.coins) = r.coins
  BY SupportAssumption, FS_Interval
<1>4. Cardinality(CoinPairs({r})) = 1 * r.coins
  BY <1>1, <1>2, <1>3, FS_Product
<1> QED BY <1>2, <1>4, SupportAssumption DEF CoinsIn, CoinPairs

(* The coins of two separate sets of rows add up.                          *)
LEMMA CoinsAddUp ==
  ASSUME NEW S, NEW T, IsFiniteSet(S), IsFiniteSet(T), S \cap T = {}
  PROVE  CoinsIn(S \cup T) = CoinsIn(S) + CoinsIn(T)
<1>1. CoinPairs(S \cup T) = CoinPairs(S) \cup CoinPairs(T) /\ CoinPairs(S) \cap CoinPairs(T) = {}
  BY DEF CoinPairs
<1>2. /\ IsFiniteSet(CoinPairs(S)) /\ IsFiniteSet(CoinPairs(T))
      /\ CoinsIn(S) \in Nat /\ CoinsIn(T) \in Nat
  BY PairsFinite
<1>3. Cardinality(CoinPairs(S) \cup CoinPairs(T))
        = Cardinality(CoinPairs(S)) + Cardinality(CoinPairs(T)) - Cardinality({})
  BY <1>1, <1>2, FS_Union
<1>e. Cardinality({}) = 0
  BY FS_EmptySet
<1>4. /\ CoinsIn(S) = Cardinality(CoinPairs(S)) /\ CoinsIn(T) = Cardinality(CoinPairs(T))
      /\ CoinsIn(S \cup T) = Cardinality(CoinPairs(S) \cup CoinPairs(T))
  BY <1>1 DEF CoinsIn, CoinPairs
<1> QED BY <1>2, <1>3, <1>4, <1>e

(***************************************************************************)
(* Types and the books.                                                    *)
(***************************************************************************)

Stamped == IsFiniteSet(supports) /\ \A r \in supports : r.at <= stamp
BooksInv == IdeasTypeOK /\ Stamped /\ SupportBooked

SaverRows == [at : SaverStates, submit : BOOLEAN, content : Contents \cup {0},
              edited : 0..MaxStamp, overtaken : BOOLEAN]

LEMMA SaverDoneTypes ==
  ASSUME IdeasTypeOK, NEW m \in Savers, SaverDone(m)
  PROVE  saver' \in [Savers -> SaverRows] /\ raced' \in BOOLEAN
<1>1. IdleSaver \in SaverRows
  BY SupportAssumption DEF IdleSaver, SaverRows, SaverStates
<1>2. \A n \in Savers : [saver[n] EXCEPT !.overtaken = TRUE] \in SaverRows
  BY DEF IdeasTypeOK, SaverRows
<1>3. saver' \in [Savers -> SaverRows]
  <2> HIDE DEF IdleSaver
  <2> QED BY <1>1, <1>2 DEF SaverDone
<1> QED BY <1>3 DEF SaverDone, IdeasTypeOK

LEMMA SaverTypes ==
  ASSUME IdeasTypeOK, NEW m \in Savers, NEW row \in SaverRows, saver' = [saver EXCEPT ![m] = row]
  PROVE  saver' \in [Savers -> SaverRows]
  BY DEF IdeasTypeOK, SaverRows

(* The steps of the team keep the types and leave the books alone.         *)
TeamMoves ==
  \E m \in Savers :
    \/ \E content \in Contents, submit \in BOOLEAN : SaveChecks(m, content, submit)
    \/ SaveTooSoon(m) \/ SaveCompares(m) \/ SaveWrites(m)
    \/ UnsubmitReads(m) \/ UnsubmitWrites(m)

LEMMA TeamMovesTypes ==
  ASSUME IdeasTypeOK, TeamMoves
  PROVE  IdeasTypeOK' /\ UNCHANGED supportTable /\ stamp <= stamp'
<1>0. stamp \in Nat /\ 0 \in 0..MaxStamp
  BY SupportAssumption DEF IdeasTypeOK
<1>1. ASSUME NEW m \in Savers, NEW content \in Contents, NEW submit \in BOOLEAN,
             SaveChecks(m, content, submit)
      PROVE  IdeasTypeOK' /\ UNCHANGED supportTable /\ stamp <= stamp'
  <2>1. [IdleSaver EXCEPT !.at = "checked", !.content = content, !.submit = submit] \in SaverRows
    BY <1>0 DEF IdleSaver, SaverRows, SaverStates
  <2>2. saver' \in [Savers -> SaverRows]
    BY <1>1, <2>1, SaverTypes DEF SaveChecks
  <2> QED BY <1>0, <1>1, <2>2 DEF SaveChecks, IdeasTypeOK, SaverRows, supportTable
<1>2. ASSUME NEW m \in Savers, SaveTooSoon(m)
      PROVE  IdeasTypeOK' /\ UNCHANGED supportTable /\ stamp <= stamp'
  <2>1. IdleSaver \in SaverRows
    BY <1>0 DEF IdleSaver, SaverRows, SaverStates
  <2>2. saver' \in [Savers -> SaverRows]
    BY <1>2, <2>1, SaverTypes DEF SaveTooSoon
  <2> QED BY <1>0, <1>2, <2>2 DEF SaveTooSoon, IdeasTypeOK, SaverRows, supportTable
<1>3. ASSUME NEW m \in Savers, SaveCompares(m)
      PROVE  IdeasTypeOK' /\ UNCHANGED supportTable /\ stamp <= stamp'
  <2> DEFINE stamped == IF Changed(saver[m].content) THEN stamp' ELSE 0
  <2>1. stamp' \in 0..MaxStamp /\ stamp <= stamp'
    BY <1>0, <1>3, SupportAssumption DEF SaveCompares, IdeasTypeOK
  <2>2. stamped \in 0..MaxStamp
    BY <1>0, <2>1
  <2>3. saver' = [saver EXCEPT ![m] = [saver[m] EXCEPT !.at = "compared", !.edited = stamped]]
    BY <1>3 DEF SaveCompares, IdeasTypeOK
  <2>4. [saver[m] EXCEPT !.at = "compared", !.edited = stamped] \in SaverRows
    <3> HIDE DEF stamped
    <3> QED BY <2>2 DEF IdeasTypeOK, SaverRows, SaverStates
  <2>5. saver' \in [Savers -> SaverRows]
    BY <2>3, <2>4, SaverTypes
  <2> QED BY <1>3, <2>1, <2>5 DEF SaveCompares, IdeasTypeOK, SaverRows, supportTable
<1>4. ASSUME NEW m \in Savers, SaveWrites(m)
      PROVE  IdeasTypeOK' /\ UNCHANGED supportTable /\ stamp <= stamp'
  <2>1. saver' \in [Savers -> SaverRows] /\ raced' \in BOOLEAN
    BY <1>4, SaverDoneTypes DEF SaveWrites
  <2>2. idea' \in [content : Contents \cup {0}, submitted : BOOLEAN, editedAt : 0..MaxStamp]
    <3>1. /\ saver[m].content \in Contents \cup {0} /\ saver[m].submit \in BOOLEAN
          /\ saver[m].edited \in 0..MaxStamp /\ idea.submitted \in BOOLEAN /\ idea.editedAt \in 0..MaxStamp
      BY DEF IdeasTypeOK
    <3> QED BY <1>4, <3>1 DEF SaveWrites
  <2> QED BY <1>0, <1>4, <2>1, <2>2 DEF SaveWrites, IdeasTypeOK, SaverRows, supportTable
<1>5. ASSUME NEW m \in Savers, UnsubmitReads(m)
      PROVE  IdeasTypeOK' /\ UNCHANGED supportTable /\ stamp <= stamp'
  <2>1. [IdleSaver EXCEPT !.at = "unlock", !.content = idea.content, !.submit = idea.submitted] \in SaverRows
    BY <1>0 DEF IdleSaver, SaverRows, SaverStates, IdeasTypeOK
  <2>2. saver' \in [Savers -> SaverRows]
    BY <1>5, <2>1, SaverTypes DEF UnsubmitReads
  <2> QED BY <1>0, <1>5, <2>2 DEF UnsubmitReads, IdeasTypeOK, SaverRows, supportTable
<1>6. ASSUME NEW m \in Savers, UnsubmitWrites(m)
      PROVE  IdeasTypeOK' /\ UNCHANGED supportTable /\ stamp <= stamp'
  <2>1. saver' \in [Savers -> SaverRows] /\ raced' \in BOOLEAN
    BY <1>6, SaverDoneTypes DEF UnsubmitWrites
  <2>2. idea' \in [content : Contents \cup {0}, submitted : BOOLEAN, editedAt : 0..MaxStamp]
    BY <1>6 DEF UnsubmitWrites, IdeasTypeOK
  <2>3. lastRevision' \in Contents \cup {0}
    BY <1>6 DEF UnsubmitWrites, IdeasTypeOK
  <2> QED BY <1>0, <1>6, <2>1, <2>2, <2>3 DEF UnsubmitWrites, IdeasTypeOK, SaverRows, supportTable
<1> QED BY <1>1, <1>2, <1>3, <1>4, <1>5, <1>6 DEF TeamMoves

LEMMA InvestBooks ==
  ASSUME BooksInv, NEW u \in Supporters, NEW coins \in 1..MaxCoins, InvestCore(u, coins)
  PROVE  BooksInv'
<1> DEFINE r == [by |-> u, coins |-> coins, at |-> stamp', seen |-> idea.content]
<1>1. /\ coins <= purse[u] /\ stamp < MaxStamp /\ stamp' = stamp + 1
      /\ supports' = supports \cup {r}
      /\ purse' = [purse EXCEPT ![u] = @ + (0 - coins)]
      /\ purseLog' = [purseLog EXCEPT ![u] = @ + (0 - coins)]
      /\ UNCHANGED <<idea, lastRevision, saver, cooling, ideasOpen, investOpen, raced>>
  BY DEF InvestCore, HasCoins, PaysBack
<1>2. stamp \in Nat /\ coins \in Nat /\ purse \in [Supporters -> Nat] /\ purseLog \in [Supporters -> Int]
  BY SupportAssumption DEF BooksInv, IdeasTypeOK
<1>3. stamp' \in 1..MaxStamp
  BY <1>1, <1>2, SupportAssumption
<1>4. r \in SupportRows /\ r.by = u /\ r.coins = coins /\ r.at = stamp'
  BY <1>3 DEF SupportRows, BooksInv, IdeasTypeOK
<1>5. r \notin supports
  BY <1>1, <1>2, <1>4 DEF BooksInv, Stamped, IdeasTypeOK
<1> HIDE DEF r
<1>6. IdeasTypeOK'
  <2>1. purse[u] + (0 - coins) \in Nat /\ purseLog[u] + (0 - coins) \in Int
    BY <1>1, <1>2
  <2>2. purse' \in [Supporters -> Nat] /\ purseLog' \in [Supporters -> Int]
    BY <1>1, <1>2, <2>1
  <2>3. stamp' \in 0..MaxStamp
    BY <1>3
  <2> QED BY <1>1, <1>4, <2>2, <2>3 DEF BooksInv, IdeasTypeOK, SupportRows
<1>7. Stamped'
  <2>1. IsFiniteSet(supports')
    BY <1>1, FS_AddElement DEF BooksInv, Stamped
  <2>2. \A q \in supports : q.at \in Int
    BY DEF BooksInv, IdeasTypeOK
  <2> QED BY <1>1, <1>2, <1>4, <2>1, <2>2 DEF BooksInv, Stamped
<1>8. SupportBooked'
  <2> SUFFICES ASSUME NEW w \in Supporters
               PROVE  /\ purse'[w] + CoinsIn(SupportsOf(w))' = SupportCoins[w]
                      /\ purseLog'[w] + CoinsIn(SupportsOf(w))' = 0
    BY DEF SupportBooked
  <2>1. purse[w] + CoinsIn(SupportsOf(w)) = SupportCoins[w] /\ purseLog[w] + CoinsIn(SupportsOf(w)) = 0
    BY DEF BooksInv, SupportBooked
  <2>2. CASE w # u
    <3>1. SupportsOf(w)' = SupportsOf(w)
      BY <1>1, <1>4, <2>2 DEF SupportsOf
    <3>2. CoinsIn(SupportsOf(w))' = CoinsIn(SupportsOf(w))
      BY <3>1 DEF CoinsIn
    <3> QED BY <1>1, <1>2, <2>1, <2>2, <3>2
  <2>3. CASE w = u
    <3>1. SupportsOf(u)' = SupportsOf(u) \cup {r} /\ SupportsOf(u) \cap {r} = {}
      BY <1>1, <1>4, <1>5 DEF SupportsOf
    <3>2. IsFiniteSet(SupportsOf(u))
      BY FS_Subset DEF SupportsOf, BooksInv, Stamped
    <3>3. IsFiniteSet({r}) /\ CoinsIn({r}) = coins
      BY <1>4, CoinsOfOne
    <3>4. CoinsIn(SupportsOf(u) \cup {r}) = CoinsIn(SupportsOf(u)) + coins
      BY <3>1, <3>2, <3>3, CoinsAddUp
    <3>5. CoinsIn(SupportsOf(u))' = CoinsIn(SupportsOf(u)) + coins
      BY <3>1, <3>4 DEF CoinsIn
    <3>6. CoinsIn(SupportsOf(u)) \in Nat
      BY <3>2, PairsFinite
    <3>7. purse'[u] = purse[u] - coins /\ purseLog'[u] = purseLog[u] - coins
      BY <1>1, <1>2
    <3> QED BY <1>2, <2>1, <2>3, <3>5, <3>6, <3>7
  <2> QED BY <2>2, <2>3
<1> QED BY <1>6, <1>7, <1>8 DEF BooksInv

LEMMA WithdrawBooks ==
  ASSUME BooksInv, NEW u \in Supporters, WithdrawInvestment(u)
  PROVE  BooksInv'
<1> DEFINE eligible == {r \in SupportsOf(u) : CanWithdraw(r)}
<1>1. /\ supports' = supports \ eligible
      /\ purse' = [purse EXCEPT ![u] = @ + CoinsIn(eligible)]
      /\ purseLog' = [purseLog EXCEPT ![u] = @ + CoinsIn(eligible)]
      /\ UNCHANGED <<idea, lastRevision, stamp, saver, cooling, ideasOpen, investOpen, raced>>
  BY DEF WithdrawInvestment, PaysBack
<1>2. eligible \subseteq SupportsOf(u) /\ SupportsOf(u) \subseteq supports
  BY DEF SupportsOf
<1>3. \A w \in Supporters : w # u => eligible \cap SupportsOf(w) = {}
  BY DEF SupportsOf
<1> HIDE DEF eligible
<1>4. IsFiniteSet(supports) /\ IsFiniteSet(SupportsOf(u)) /\ IsFiniteSet(eligible)
  BY <1>2, FS_Subset DEF BooksInv, Stamped
<1>5. CoinsIn(eligible) \in Nat /\ CoinsIn(SupportsOf(u)) \in Nat
  BY <1>4, PairsFinite
<1>6. purse \in [Supporters -> Nat] /\ purseLog \in [Supporters -> Int]
  BY DEF BooksInv, IdeasTypeOK
<1>7. IdeasTypeOK'
  <2>1. purse[u] + CoinsIn(eligible) \in Nat /\ purseLog[u] + CoinsIn(eligible) \in Int
    BY <1>5, <1>6
  <2>2. purse' \in [Supporters -> Nat] /\ purseLog' \in [Supporters -> Int]
    BY <1>1, <1>6, <2>1
  <2> QED BY <1>1, <2>2 DEF BooksInv, IdeasTypeOK
<1>8. Stamped'
  BY <1>1, <1>4, FS_Difference DEF BooksInv, Stamped
<1>9. SupportBooked'
  <2> SUFFICES ASSUME NEW w \in Supporters
               PROVE  /\ purse'[w] + CoinsIn(SupportsOf(w))' = SupportCoins[w]
                      /\ purseLog'[w] + CoinsIn(SupportsOf(w))' = 0
    BY DEF SupportBooked
  <2>1. purse[w] + CoinsIn(SupportsOf(w)) = SupportCoins[w] /\ purseLog[w] + CoinsIn(SupportsOf(w)) = 0
    BY DEF BooksInv, SupportBooked
  <2>2. CASE w # u
    <3>1. SupportsOf(w)' = SupportsOf(w)
      BY <1>1, <1>3, <2>2 DEF SupportsOf
    <3>2. CoinsIn(SupportsOf(w))' = CoinsIn(SupportsOf(w))
      BY <3>1 DEF CoinsIn
    <3> QED BY <1>1, <1>6, <2>1, <2>2, <3>2
  <2>3. CASE w = u
    <3> DEFINE rest == SupportsOf(u) \ eligible
    <3>1. SupportsOf(u)' = rest
      BY <1>1 DEF SupportsOf
    <3>2. SupportsOf(u) = rest \cup eligible /\ rest \cap eligible = {}
      BY <1>2
    <3>3. IsFiniteSet(rest)
      BY <1>4, FS_Difference
    <3> HIDE DEF rest
    <3>4. CoinsIn(SupportsOf(u)) = CoinsIn(rest) + CoinsIn(eligible)
      BY <1>4, <3>2, <3>3, CoinsAddUp
    <3>5. CoinsIn(SupportsOf(u))' = CoinsIn(rest)
      BY <3>1 DEF CoinsIn
    <3>6. CoinsIn(rest) \in Nat
      BY <3>3, PairsFinite
    <3>7. purse'[u] = purse[u] + CoinsIn(eligible) /\ purseLog'[u] = purseLog[u] + CoinsIn(eligible)
      BY <1>1, <1>6
    <3> QED BY <1>5, <1>6, <2>1, <2>3, <3>4, <3>5, <3>6, <3>7
  <2> QED BY <2>2, <2>3
<1> QED BY <1>7, <1>8, <1>9 DEF BooksInv

LEMMA QuietBooks ==
  ASSUME BooksInv, IdeasTypeOK', UNCHANGED supportTable, stamp <= stamp'
  PROVE  BooksInv'
<1>1. Stamped'
  BY DEF BooksInv, Stamped, IdeasTypeOK, supportTable
<1>2. SupportBooked'
  BY DEF BooksInv, SupportBooked, supportTable, SupportsOf, CoinsIn
<1> QED BY <1>1, <1>2 DEF BooksInv

LEMMA BooksInvNext == BooksInv /\ [IdeasNext]_ideaVars => BooksInv'
<1> SUFFICES ASSUME BooksInv, [IdeasNext]_ideaVars PROVE BooksInv'
  OBVIOUS
<1>0. IdeasTypeOK /\ stamp <= stamp
  BY DEF BooksInv, IdeasTypeOK
<1>1. CASE TeamMoves
  BY <1>0, <1>1, TeamMovesTypes, QuietBooks
<1>2. ASSUME NEW u \in Supporters, WithdrawInvestment(u) PROVE BooksInv'
  BY <1>2, WithdrawBooks
<1>3. ASSUME NEW u \in Supporters, NEW coins \in 1..MaxCoins, InvestCore(u, coins) PROVE BooksInv'
  BY <1>3, InvestBooks
<1>4. CASE CooldownEnds \/ SetModules \/ UNCHANGED ideaVars
  <2>1. UNCHANGED <<idea, lastRevision, stamp, supportTable, saver, raced>>
    BY <1>4 DEF CooldownEnds, SetModules, ideaVars
  <2>2. cooling' \in BOOLEAN /\ ideasOpen' \in BOOLEAN /\ investOpen' \in BOOLEAN
    BY <1>0, <1>4 DEF CooldownEnds, SetModules, ideaVars, IdeasTypeOK
  <2>3. IdeasTypeOK'
    BY <1>0, <2>1, <2>2 DEF IdeasTypeOK, supportTable
  <2> QED BY <1>0, <2>1, <2>3, QuietBooks
<1> QED BY <1>1, <1>2, <1>3, <1>4 DEF IdeasNext, TeamMoves

LEMMA BooksInvInit == IdeasInit => BooksInv
<1> SUFFICES ASSUME IdeasInit PROVE BooksInv
  OBVIOUS
<1>1. IdleSaver \in SaverRows /\ 0 \in 0..MaxStamp
  BY SupportAssumption DEF IdleSaver, SaverRows, SaverStates
<1>2. IdeasTypeOK
  <2>1. saver \in [Savers -> SaverRows]
    <3> HIDE DEF IdleSaver
    <3> QED BY <1>1 DEF IdeasInit
  <2>2. purse \in [Supporters -> Nat] /\ purseLog \in [Supporters -> Int]
    BY SupportAssumption DEF IdeasInit
  <2>3. idea \in [content : Contents \cup {0}, submitted : BOOLEAN, editedAt : 0..MaxStamp]
    BY <1>1 DEF IdeasInit
  <2> QED BY <1>1, <2>1, <2>2, <2>3 DEF IdeasInit, IdeasTypeOK, SaverRows
<1>3. Stamped
  BY FS_EmptySet DEF IdeasInit, Stamped
<1>4. \A u \in Supporters : SupportsOf(u) = {}
  BY DEF IdeasInit, SupportsOf
<1>5. SupportBooked
  BY <1>4, NoCoins, SupportAssumption DEF IdeasInit, SupportBooked
<1> QED BY <1>2, <1>3, <1>5 DEF BooksInv

(* The idea, its supports and the handlers keep their types.               *)
THEOREM IdeasTypeCorrect == IdeasSpec => []IdeasTypeOK
<1>1. BooksInv => IdeasTypeOK  BY DEF BooksInv
<1> QED BY <1>1, BooksInvInit, BooksInvNext, PTL DEF IdeasSpec

(* Every coin on the idea is a coin out of a wallet and in the ledger,     *)
(* whatever is supported, edited and taken back.                           *)
THEOREM SupportAlwaysBooked == IdeasSpec => []SupportBooked
<1>1. BooksInv => SupportBooked  BY DEF BooksInv
<1> QED BY <1>1, BooksInvInit, BooksInvNext, PTL DEF IdeasSpec

(* Support implements the coin economy.                                    *)
THEOREM SupportImplementsAccounts == IdeasSpec => Accounts!AccountsSpec
<1>1. IdeasInit => Accounts!AccountsInit
  BY SupportAssumption DEF IdeasInit, Accounts!AccountsInit
<1>2. BooksInv /\ BooksInv' => Accounts!Book
  <2> SUFFICES ASSUME BooksInv, BooksInv' PROVE Accounts!Book
    OBVIOUS
  <2>1. /\ purse \in [Supporters -> Nat] /\ purseLog \in [Supporters -> Int]
        /\ purse' \in [Supporters -> Nat] /\ purseLog' \in [Supporters -> Int]
    BY DEF BooksInv, IdeasTypeOK
  <2>2. \A u \in Supporters : purse'[u] - purse[u] = purseLog'[u] - purseLog[u]
    <3> SUFFICES ASSUME NEW u \in Supporters
                 PROVE  purse'[u] - purse[u] = purseLog'[u] - purseLog[u]
      OBVIOUS
    <3>1. IsFiniteSet(SupportsOf(u)) /\ IsFiniteSet(SupportsOf(u)')
      BY FS_Subset DEF BooksInv, Stamped, SupportsOf
    <3>2. CoinsIn(SupportsOf(u)) \in Nat /\ CoinsIn(SupportsOf(u)') \in Nat
      BY <3>1, PairsFinite
    <3>3. CoinsIn(SupportsOf(u))' = CoinsIn(SupportsOf(u)')
      BY DEF CoinsIn
    <3>4. /\ purse[u] + CoinsIn(SupportsOf(u)) = SupportCoins[u]
          /\ purseLog[u] + CoinsIn(SupportsOf(u)) = 0
          /\ purse'[u] + CoinsIn(SupportsOf(u))' = SupportCoins[u]
          /\ purseLog'[u] + CoinsIn(SupportsOf(u))' = 0
      BY DEF BooksInv, SupportBooked
    <3> QED BY <2>1, <3>2, <3>3, <3>4
  <2> QED BY <2>1, <2>2 DEF Accounts!Book
<1> QED BY <1>1, <1>2, BooksInvInit, BooksInvNext, PTL DEF IdeasSpec, Accounts!AccountsSpec

(***************************************************************************)
(* What the supporters may count on.                                       *)
(***************************************************************************)

(* Always: what was submitted, or is about to be, is no empty idea, and    *)
(* nobody supported one.                                                   *)
Filled ==
  /\ idea.submitted => idea.content # 0
  /\ \A m \in Savers : saver[m].at \in {"checked", "compared"} => saver[m].content # 0
  /\ \A r \in supports : r.seen # 0

(* While no handler was overtaken by another: what one has read is so      *)
(* still, and a submit that stamps no edit brings back what was seen.      *)
NotOvertaken(m) == saver[m].at # "idle" /\ ~saver[m].overtaken
ReadStill(m) ==
  /\ saver[m].at \in {"checked", "compared"} => ~idea.submitted
  /\ saver[m].at = "checked" => saver[m].edited = 0
  /\ saver[m].at = "compared" =>
       /\ saver[m].edited = 0 => lastRevision \in {0, saver[m].content}
       /\ saver[m].edited # 0 => \A r \in supports : r.at < saver[m].edited
  /\ saver[m].at = "unlock" => saver[m].content = idea.content /\ saver[m].submit = idea.submitted
Unlocked == ~idea.submitted => \A r \in supports : r.seen = lastRevision \/ CanWithdraw(r)
Unraced == ~raced =>
  /\ \A m \in Savers : NotOvertaken(m) => ReadStill(m)
  /\ Unlocked /\ (idea.submitted => \A r \in supports : r.seen = idea.content \/ CanWithdraw(r))
KeptInv == BooksInv /\ Filled /\ Unraced

LEMMA FilledNext ==
  ASSUME BooksInv, Filled, [IdeasNext]_ideaVars
  PROVE  Filled'
<1>0. \A c \in Contents : c # 0
  BY SupportAssumption
<1>t. saver \in [Savers -> SaverRows]
  BY DEF BooksInv, IdeasTypeOK, SaverRows
<1>d. ASSUME NEW m \in Savers, SaverDone(m)
      PROVE  \A n \in Savers : saver'[n].at \in {"checked", "compared"} =>
               saver'[n].at = saver[n].at /\ saver'[n].content = saver[n].content
  BY <1>d, <1>t DEF SaverDone, IdleSaver, SaverRows
<1>1. ASSUME NEW m \in Savers, NEW content \in Contents, NEW submit \in BOOLEAN,
             SaveChecks(m, content, submit)
      PROVE  Filled'
  BY <1>0, <1>1, <1>t DEF SaveChecks, Filled, IdleSaver, supportTable, SaverRows
<1>2. ASSUME NEW m \in Savers, SaveTooSoon(m) PROVE Filled'
  BY <1>2, <1>t DEF SaveTooSoon, Filled, IdleSaver, supportTable, SaverRows
<1>3. ASSUME NEW m \in Savers, SaveCompares(m) PROVE Filled'
  <2>1. \A n \in Savers : saver'[n].content = saver[n].content
                          /\ (saver'[n].at = saver[n].at \/ saver[n].at = "checked")
    BY <1>3, <1>t DEF SaveCompares, SaverRows
  <2> QED BY <1>3, <2>1 DEF SaveCompares, Filled, supportTable
<1>4. ASSUME NEW m \in Savers, SaveWrites(m) PROVE Filled'
  <2>1. SaverDone(m) /\ saver[m].at \in {"checked", "compared"} /\ idea'.content = saver[m].content
        /\ UNCHANGED supportTable
    BY <1>4 DEF SaveWrites
  <2>2. \A n \in Savers : saver'[n].at \in {"checked", "compared"} =>
               saver'[n].at = saver[n].at /\ saver'[n].content = saver[n].content
    BY <1>d, <2>1
  <2> QED BY <2>1, <2>2 DEF Filled, supportTable
<1>5. ASSUME NEW m \in Savers, UnsubmitReads(m) PROVE Filled'
  BY <1>5, <1>t DEF UnsubmitReads, Filled, IdleSaver, supportTable, SaverRows
<1>6. ASSUME NEW m \in Savers, UnsubmitWrites(m) PROVE Filled'
  <2>1. SaverDone(m) /\ idea' = [idea EXCEPT !.submitted = FALSE] /\ UNCHANGED supportTable
    BY <1>6 DEF UnsubmitWrites
  <2>2. \A n \in Savers : saver'[n].at \in {"checked", "compared"} =>
               saver'[n].at = saver[n].at /\ saver'[n].content = saver[n].content
    BY <1>d, <2>1
  <2>3. ~idea'.submitted
    BY <2>1 DEF BooksInv, IdeasTypeOK
  <2> QED BY <2>1, <2>2, <2>3 DEF Filled, supportTable
<1>7. ASSUME NEW u \in Supporters, WithdrawInvestment(u) PROVE Filled'
  BY <1>7 DEF WithdrawInvestment, Filled
<1>8. ASSUME NEW u \in Supporters, NEW coins \in 1..MaxCoins, InvestCore(u, coins) PROVE Filled'
  BY <1>8 DEF InvestCore, Filled
<1>9. CASE CooldownEnds \/ SetModules \/ UNCHANGED ideaVars
  BY <1>9 DEF CooldownEnds, SetModules, ideaVars, Filled, supportTable
<1> QED BY <1>1, <1>2, <1>3, <1>4, <1>5, <1>6, <1>7, <1>8, <1>9 DEF IdeasNext

(* A write overtakes everyone else; after one that was overtaken there was *)
(* a race.                                                                 *)
LEMMA DoneOvertakes ==
  ASSUME IdeasTypeOK, NEW m \in Savers, SaverDone(m)
  PROVE  /\ \A n \in Savers : ~NotOvertaken(n)'
         /\ ~raced' => ~raced /\ ~saver[m].overtaken
<1>1. ASSUME NEW n \in Savers PROVE ~NotOvertaken(n)'
  <2>1. CASE n = m \/ saver[n].at = "idle"
    BY <2>1 DEF SaverDone, IdleSaver, NotOvertaken
  <2>2. CASE ~(n = m \/ saver[n].at = "idle")
    <3>1. saver'[n] = [saver[n] EXCEPT !.overtaken = TRUE]
      BY <2>2 DEF SaverDone
    <3> QED BY <3>1 DEF NotOvertaken, IdeasTypeOK
  <2> QED BY <2>1, <2>2
<1> QED BY <1>1 DEF SaverDone

LEMMA UnracedNext ==
  ASSUME KeptInv, [IdeasNext]_ideaVars, ~raced'
  PROVE  Unraced'
<1> USE DEF KeptInv
<1>t. saver \in [Savers -> SaverRows] /\ IdeasTypeOK /\ stamp \in Nat
  BY SupportAssumption DEF BooksInv, IdeasTypeOK, SaverRows
<1>k. ASSUME ~raced, UNCHANGED <<idea, lastRevision, supportTable>>
      PROVE  /\ Unlocked' /\ (idea'.submitted => \A r \in supports' : r.seen = idea'.content \/ CanWithdraw(r)')
             /\ \A n \in Savers : saver'[n] = saver[n] => (NotOvertaken(n)' => ReadStill(n)')
  BY <1>k DEF Unraced, Unlocked, NotOvertaken, ReadStill, CanWithdraw, supportTable
<1>1. ASSUME NEW m \in Savers, NEW content \in Contents, NEW submit \in BOOLEAN,
             SaveChecks(m, content, submit)
      PROVE  Unraced'
  <2>1. saver'[m].at = "checked" /\ saver'[m].edited = 0 /\ ~idea'.submitted
    BY <1>1, <1>t DEF SaveChecks, IdleSaver
  <2>2. \A n \in Savers : n # m => saver'[n] = saver[n]
    BY <1>1, <1>t DEF SaveChecks
  <2>3. ReadStill(m)'
    BY <2>1 DEF ReadStill
  <2> QED BY <1>1, <1>k, <2>2, <2>3 DEF SaveChecks, Unraced
<1>2. ASSUME NEW m \in Savers, SaveTooSoon(m) PROVE Unraced'
  <2>1. saver'[m].at = "idle"
    BY <1>2, <1>t DEF SaveTooSoon, IdleSaver
  <2>2. \A n \in Savers : n # m => saver'[n] = saver[n]
    BY <1>2, <1>t DEF SaveTooSoon
  <2>3. ~NotOvertaken(m)'
    BY <2>1 DEF NotOvertaken
  <2> QED BY <1>2, <1>k, <2>2, <2>3 DEF SaveTooSoon, Unraced
<1>3. ASSUME NEW m \in Savers, SaveCompares(m) PROVE Unraced'
  <2> DEFINE changed == Changed(saver[m].content)
  <2>1. /\ saver[m].at = "checked" /\ UNCHANGED <<idea, lastRevision, supportTable, raced>>
        /\ changed => stamp' = stamp + 1
        /\ saver' = [saver EXCEPT ![m] = [saver[m] EXCEPT !.at = "compared",
                                                         !.edited = IF changed THEN stamp' ELSE 0]]
    BY <1>3, <1>t DEF SaveCompares
  <2> HIDE DEF changed
  <2>2. /\ saver'[m].at = "compared" /\ saver'[m].content = saver[m].content
        /\ saver'[m].overtaken = saver[m].overtaken
        /\ saver'[m].edited = IF changed THEN stamp' ELSE 0
    BY <1>t, <2>1 DEF SaverRows
  <2>3. \A n \in Savers : n # m => saver'[n] = saver[n]
    BY <1>t, <2>1
  <2>4. NotOvertaken(m)' => ~idea.submitted
    BY <2>1, <2>2 DEF NotOvertaken, ReadStill, Unraced
  <2>5. ~changed => saver'[m].edited = 0 /\ lastRevision \in {0, saver[m].content}
    BY <2>2 DEF changed, Changed
  <2>6. changed => saver'[m].edited # 0 /\ \A r \in supports : r.at < saver'[m].edited
    <3>1. \A r \in supports : r.at \in Int /\ r.at <= stamp
      BY DEF BooksInv, Stamped, IdeasTypeOK
    <3> QED BY <1>t, <2>1, <2>2, <3>1
  <2>7. NotOvertaken(m)' => ReadStill(m)'
    BY <2>1, <2>2, <2>4, <2>5, <2>6 DEF ReadStill, supportTable
  <2> QED BY <1>k, <2>1, <2>3, <2>7 DEF Unraced
<1>4. ASSUME NEW m \in Savers, SaveWrites(m) PROVE Unraced'
  <2>1. ~raced /\ ~saver[m].overtaken /\ \A n \in Savers : ~NotOvertaken(n)'
    BY <1>4, <1>t, DoneOvertakes DEF SaveWrites
  <2>2. /\ saver[m].at = IF saver[m].submit THEN "compared" ELSE "checked"
        /\ idea' = [content |-> saver[m].content, submitted |-> (idea.submitted \/ saver[m].submit),
                    editedAt |-> IF saver[m].edited # 0 THEN saver[m].edited ELSE idea.editedAt]
        /\ UNCHANGED <<lastRevision, supports>>
    BY <1>4 DEF SaveWrites, supportTable
  <2>3. ReadStill(m) /\ ~idea.submitted /\ Unlocked
    BY <2>1, <2>2 DEF NotOvertaken, ReadStill, Unraced
  <2>4. CASE saver[m].submit
    <3>1. idea'.submitted /\ idea'.content = saver[m].content /\ saver[m].at = "compared"
      BY <2>2, <2>4
    <3>2. ASSUME NEW r \in supports PROVE r.seen = idea'.content \/ CanWithdraw(r)'
      <4>1. CASE saver[m].edited # 0
        BY <2>2, <2>3, <3>1, <4>1 DEF ReadStill, CanWithdraw
      <4>2. CASE saver[m].edited = 0
        BY <2>2, <2>3, <3>1, <4>2 DEF ReadStill, CanWithdraw, Unlocked, Filled
      <4> QED BY <4>1, <4>2
    <3> QED BY <2>1, <2>2, <3>1, <3>2 DEF Unraced, Unlocked
  <2>5. CASE ~saver[m].submit
    <3>1. ~idea'.submitted /\ idea'.editedAt = idea.editedAt
      BY <2>2, <2>3, <2>5 DEF ReadStill
    <3> QED BY <2>1, <2>2, <2>3, <3>1 DEF Unraced, Unlocked, CanWithdraw
  <2> QED BY <2>4, <2>5
<1>5. ASSUME NEW m \in Savers, UnsubmitReads(m) PROVE Unraced'
  <2>1. saver'[m].at = "unlock" /\ saver'[m].content = idea.content /\ saver'[m].submit = idea.submitted
    BY <1>5, <1>t DEF UnsubmitReads, IdleSaver
  <2>2. \A n \in Savers : n # m => saver'[n] = saver[n]
    BY <1>5, <1>t DEF UnsubmitReads
  <2>3. ReadStill(m)'
    BY <1>5, <2>1 DEF ReadStill, UnsubmitReads
  <2> QED BY <1>5, <1>k, <2>2, <2>3 DEF UnsubmitReads, Unraced
<1>6. ASSUME NEW m \in Savers, UnsubmitWrites(m) PROVE Unraced'
  <2>1. ~raced /\ ~saver[m].overtaken /\ \A n \in Savers : ~NotOvertaken(n)'
    BY <1>6, <1>t, DoneOvertakes DEF UnsubmitWrites
  <2>2. /\ saver[m].at = "unlock" /\ UNCHANGED supports
        /\ lastRevision' = IF saver[m].submit THEN saver[m].content ELSE lastRevision
        /\ ~idea'.submitted /\ idea'.editedAt = idea.editedAt
    BY <1>6, <1>t DEF UnsubmitWrites, supportTable, IdeasTypeOK
  <2>3. saver[m].content = idea.content /\ saver[m].submit = idea.submitted
    BY <2>1, <2>2 DEF NotOvertaken, ReadStill, Unraced
  <2>4. \A r \in supports : r.seen = lastRevision' \/ CanWithdraw(r)'
    BY <2>1, <2>2, <2>3 DEF Unraced, Unlocked, CanWithdraw
  <2> QED BY <2>1, <2>2, <2>4 DEF Unraced, Unlocked
<1>7. ASSUME NEW u \in Supporters, WithdrawInvestment(u) PROVE Unraced'
  <2>1. supports' \subseteq supports /\ UNCHANGED <<idea, lastRevision, stamp, saver, raced>>
    BY <1>7 DEF WithdrawInvestment
  <2> QED BY <2>1 DEF Unraced, Unlocked, NotOvertaken, ReadStill, CanWithdraw
<1>8. ASSUME NEW u \in Supporters, NEW coins \in 1..MaxCoins, InvestCore(u, coins) PROVE Unraced'
  <2> DEFINE r == [by |-> u, coins |-> coins, at |-> stamp', seen |-> idea.content]
  <2>1. /\ idea.submitted /\ supports' = supports \cup {r}
        /\ UNCHANGED <<idea, lastRevision, saver, raced>>
    BY <1>8 DEF InvestCore
  <2>2. r.seen = idea.content
    OBVIOUS
  <2> HIDE DEF r
  <2>3. \A n \in Savers : NotOvertaken(n) => saver[n].at \notin {"checked", "compared"}
    BY <2>1 DEF Unraced, ReadStill
  <2>4. \A n \in Savers : NotOvertaken(n)' => ReadStill(n)'
    BY <2>1, <2>3 DEF Unraced, NotOvertaken, ReadStill
  <2>5. \A q \in supports' : q.seen = idea'.content \/ CanWithdraw(q)'
    BY <2>1, <2>2 DEF Unraced, CanWithdraw
  <2> QED BY <2>1, <2>4, <2>5 DEF Unraced, Unlocked
<1>9. CASE CooldownEnds \/ SetModules \/ UNCHANGED ideaVars
  <2>1. UNCHANGED <<idea, lastRevision, supportTable, saver, raced>>
    BY <1>9 DEF CooldownEnds, SetModules, ideaVars
  <2> QED BY <1>k, <2>1 DEF Unraced
<1> QED BY <1>1, <1>2, <1>3, <1>4, <1>5, <1>6, <1>7, <1>8, <1>9 DEF IdeasNext

(* Over any number of edits, back and forth, a supporter has seen what is  *)
(* submitted or can take the support back, if the handlers of the team did *)
(* not race.                                                               *)
THEOREM SupportersAlwaysKept == IdeasSpec => []SupportersKept
<1>1. IdeasInit => KeptInv
  BY BooksInvInit DEF IdeasInit, KeptInv, Filled, Unraced, Unlocked, NotOvertaken, IdleSaver
<1>2. KeptInv /\ [IdeasNext]_ideaVars => KeptInv'
  <2> SUFFICES ASSUME KeptInv, [IdeasNext]_ideaVars PROVE KeptInv'
    OBVIOUS
  <2>1. BooksInv' /\ Filled'
    BY BooksInvNext, FilledNext DEF KeptInv
  <2>2. Unraced'
    BY UnracedNext DEF Unraced
  <2> QED BY <2>1, <2>2 DEF KeptInv
<1>3. KeptInv => SupportersKept
  BY DEF KeptInv, Unraced, SupportersKept
<1> QED BY <1>1, <1>2, <1>3, PTL DEF IdeasSpec

(***************************************************************************)
(* Login codes.                                                            *)
(***************************************************************************)

LEMMA FreshCode ==
  ASSUME Sent # Codes
  PROVE  (CHOOSE c \in Codes : c \notin Sent) \in Codes \ Sent
  BY DEF Sent

(* Counting an attempt and consuming a code keep a row a row.              *)
CodeRows == [purpose : Purposes \cup {"none"}, made : 0..MaxClock, expires : Nat,
             attempts : 0..OtpMaxAttempts, consumed : BOOLEAN]

LEMMA CodeRowChanges ==
  ASSUME NEW row \in CodeRows
  PROVE  /\ row.attempts < OtpMaxAttempts => [row EXCEPT !.attempts = @ + 1] \in CodeRows
         /\ [row EXCEPT !.consumed = TRUE] \in CodeRows
<1>1. ASSUME row.attempts < OtpMaxAttempts
      PROVE  [row EXCEPT !.attempts = @ + 1] \in CodeRows
  <2>1. row.attempts + 1 \in 0..OtpMaxAttempts
    BY <1>1, CodesAssumption DEF CodeRows
  <2>2. \A n \in 0..OtpMaxAttempts : [row EXCEPT !.attempts = n] \in CodeRows
    BY DEF CodeRows
  <2> QED BY <2>1, <2>2
<1>2. [row EXCEPT !.consumed = TRUE] \in CodeRows
  BY DEF CodeRows
<1> QED BY <1>1, <1>2

LEMMA CodesTypeOKNext == CodesTypeOK /\ [CodesNext]_codeVars => CodesTypeOK'
<1> SUFFICES ASSUME CodesTypeOK, [CodesNext]_codeVars PROVE CodesTypeOK'
  OBVIOUS
<1> USE CodesAssumption
<1>1. ASSUME NEW a \in Askers, NEW p \in Purposes, RequestReads(a, p) PROVE CodesTypeOK'
  BY <1>1 DEF CodesTypeOK, RequestReads
<1>2. ASSUME NEW a \in Askers, RequestOtp(a) PROVE CodesTypeOK'
  <2>1. CASE smsLeft > 0
    <3>1. PICK c \in Codes : ReplaceOpen(asker[a].purpose, c, asker[a].since)
      BY <1>2, <2>1, FreshCode DEF RequestOtp
    <3>2. NewCode(asker[a].purpose, asker[a].since) \in
            [purpose : Purposes \cup {"none"}, made : 0..MaxClock,
             expires : Nat, attempts : 0..OtpMaxAttempts, consumed : BOOLEAN]
      BY DEF CodesTypeOK, NewCode
    <3>3. otp' \in [Codes -> [purpose : Purposes \cup {"none"}, made : 0..MaxClock,
                              expires : Nat, attempts : 0..OtpMaxAttempts, consumed : BOOLEAN]]
      BY <3>1, <3>2 DEF ReplaceOpen, CodesTypeOK
    <3> QED BY <1>2, <2>1, <3>3 DEF CodesTypeOK, RequestOtp, NoAsker
  <2>2. CASE ~(smsLeft > 0)
    BY <1>2, <2>2 DEF CodesTypeOK, RequestOtp, NoAsker
  <2> QED BY <2>1, <2>2
<1>3. ASSUME NEW v \in Answerers, NEW p \in Purposes, NEW guess \in Codes \cup {NoCode},
             VerifyReads(v, p, guess)
      PROVE  CodesTypeOK'
  BY <1>3 DEF CodesTypeOK, VerifyReads, OpenCodes
<1>4. ASSUME NEW v \in Answerers, VerifyCounts(v) PROVE CodesTypeOK'
  <2> DEFINE c == answerer[v].row
             counted == ~otp[c].consumed /\ otp[c].attempts < OtpMaxAttempts
  <2>1. otp' \in [Codes -> CodeRows] /\ compared' \in [Codes -> Nat]
    <3>1. CASE ~counted
      BY <1>4, <3>1 DEF VerifyCounts, CodesTypeOK, CodeRows
    <3>2. CASE counted
      <4>1. /\ otp' = [otp EXCEPT ![c].attempts = @ + 1]
            /\ compared' = [compared EXCEPT ![c] = @ + 1]
        BY <1>4, <3>2 DEF VerifyCounts
      <4>2. otp \in [Codes -> CodeRows] /\ compared \in [Codes -> Nat]
        BY DEF CodesTypeOK, CodeRows
      <4>3. c \in Codes => [otp[c] EXCEPT !.attempts = @ + 1] \in CodeRows
        BY <3>2, <4>2, CodeRowChanges
      <4> HIDE DEF c
      <4>4. ASSUME NEW d \in Codes PROVE otp'[d] \in CodeRows /\ compared'[d] \in Nat
        <5>1. CASE d = c  BY <4>1, <4>2, <4>3, <5>1
        <5>2. CASE d # c  BY <4>1, <4>2, <5>2
        <5> QED BY <5>1, <5>2
      <4> QED BY <4>1, <4>2, <4>4
    <3> QED BY <3>1, <3>2
  <2>2. answerer' \in [Answerers -> [at : {"idle", "read", "right"}, row : Codes \cup {NoCode},
                                     guess : Codes \cup {NoCode}]]
    <3>1. answerer' = [answerer EXCEPT ![v] = NoAnswerer]
          \/ answerer' = [answerer EXCEPT ![v] = [@ EXCEPT !.at = "right"]]
      BY <1>4 DEF VerifyCounts
    <3> QED BY <3>1 DEF CodesTypeOK, NoAnswerer
  <2> QED BY <1>4, <2>1, <2>2 DEF CodesTypeOK, CodeRows, VerifyCounts
<1>5. ASSUME NEW v \in Answerers, VerifyConsumes(v) PROVE CodesTypeOK'
  <2> DEFINE c == answerer[v].row
  <2>1. otp' \in [Codes -> CodeRows] /\ entered' \in [Codes -> Nat]
    <3>1. CASE ~StillOpen(c)
      BY <1>5, <3>1 DEF VerifyConsumes, CodesTypeOK, CodeRows
    <3>2. CASE StillOpen(c)
      <4>1. /\ otp' = [otp EXCEPT ![c].consumed = TRUE]
            /\ entered' = [entered EXCEPT ![c] = @ + 1]
        BY <1>5, <3>2 DEF VerifyConsumes
      <4>2. otp \in [Codes -> CodeRows] /\ entered \in [Codes -> Nat]
        BY DEF CodesTypeOK, CodeRows
      <4>3. c \in Codes => [otp[c] EXCEPT !.consumed = TRUE] \in CodeRows
        BY <4>2, CodeRowChanges
      <4> HIDE DEF c
      <4>4. ASSUME NEW d \in Codes PROVE otp'[d] \in CodeRows /\ entered'[d] \in Nat
        <5>1. CASE d = c  BY <4>1, <4>2, <4>3, <5>1
        <5>2. CASE d # c  BY <4>1, <4>2, <5>2
        <5> QED BY <5>1, <5>2
      <4> QED BY <4>1, <4>2, <4>4
    <3> QED BY <3>1, <3>2
  <2> QED BY <1>5, <2>1 DEF CodesTypeOK, CodeRows, VerifyConsumes, NoAnswerer
<1>6. CASE OtpClockTicks
  BY <1>6 DEF CodesTypeOK, OtpClockTicks
<1>7. CASE UNCHANGED codeVars
  BY <1>7 DEF CodesTypeOK, codeVars
<1> QED BY <1>1, <1>2, <1>3, <1>4, <1>5, <1>6, <1>7 DEF CodesNext

LEMMA CodesTypeOKInit == CodesInit => CodesTypeOK
  BY CodesAssumption DEF CodesInit, CodesTypeOK, NotSent, NoAsker, NoAnswerer

(* The rows of LoginCodes keep their types.                                *)
THEOREM CodesTypeCorrect == CodesSpec => []CodesTypeOK
<1>1. CodesInit => CodesTypeOK  BY CodesTypeOKInit
<1>2. CodesTypeOK /\ [CodesNext]_codeVars => CodesTypeOK'  BY CodesTypeOKNext
<1> QED BY <1>1, <1>2, PTL DEF CodesSpec

(* A row that was never sent was never compared or good; an answer in hand *)
(* has read a row that was sent.                                           *)
Unused == \A c \in Codes : otp[c].purpose = "none" => compared[c] = 0 /\ entered[c] = 0
ReadsSent == \A v \in Answerers :
               answerer[v].at # "idle" => answerer[v].row \in Codes /\ otp[answerer[v].row].purpose # "none"
Counted == \A c \in Codes : compared[c] <= otp[c].attempts
SpentOnce == \A c \in Codes : entered[c] <= 1 /\ (entered[c] = 1 => otp[c].consumed)
CodesInv == Unused /\ ReadsSent /\ Counted /\ SpentOnce /\ OneOpenCode

LEMMA CodesInvNext == CodesTypeOK /\ CodesInv /\ [CodesNext]_codeVars => CodesInv'
<1> SUFFICES ASSUME CodesTypeOK, CodesInv, [CodesNext]_codeVars PROVE CodesInv'
  OBVIOUS
<1> USE CodesAssumption
<1>0. ASSUME UNCHANGED <<otp, compared, entered>> 
      PROVE  Unused' /\ Counted' /\ SpentOnce' /\ OneOpenCode'
  BY <1>0 DEF CodesInv, Unused, Counted, SpentOnce, OneOpenCode, OpenCodes
<1>1. ASSUME NEW a \in Askers, NEW p \in Purposes, RequestReads(a, p) PROVE CodesInv'
  BY <1>0, <1>1 DEF CodesInv, ReadsSent, RequestReads
<1>2. ASSUME NEW a \in Askers, RequestOtp(a) PROVE CodesInv'
  <2>1. CASE smsLeft > 0
    <3> DEFINE p == asker[a].purpose
    <3>1. PICK c \in Codes \ Sent : ReplaceOpen(p, c, asker[a].since)
      BY <1>2, <2>1, FreshCode DEF RequestOtp
    <3>2. UNCHANGED <<answerer, compared, entered>>
      BY <1>2 DEF RequestOtp
    <3>3. otp[c].purpose = "none" /\ compared[c] = 0 /\ entered[c] = 0
      BY <3>1 DEF Sent, CodesInv, Unused
    <3>4. /\ otp'[c].purpose = p /\ otp'[c].attempts = 0 /\ ~otp'[c].consumed
          /\ \A d \in Codes \ {c} :
               /\ otp'[d].purpose = otp[d].purpose /\ otp'[d].attempts = otp[d].attempts
               /\ otp[d].consumed => otp'[d].consumed
               /\ ~otp'[d].consumed => otp[d].purpose # p
      <4>1. otp'[c] = NewCode(p, asker[a].since)
        BY <3>1 DEF ReplaceOpen
      <4>2. ASSUME NEW d \in Codes \ {c}
            PROVE  /\ otp'[d].purpose = otp[d].purpose /\ otp'[d].attempts = otp[d].attempts
                   /\ otp[d].consumed => otp'[d].consumed
                   /\ ~otp'[d].consumed => otp[d].purpose # p
        <5>1. CASE d \in OpenCodes(p)
          <6>1. otp'[d] = [otp[d] EXCEPT !.consumed = TRUE]
            BY <3>1, <5>1 DEF ReplaceOpen
          <6> QED BY <6>1 DEF CodesTypeOK
        <5>2. CASE d \notin OpenCodes(p)
          <6>1. otp'[d] = otp[d]
            BY <3>1, <5>2 DEF ReplaceOpen
          <6> QED BY <5>2, <6>1 DEF OpenCodes
        <5> QED BY <5>1, <5>2
      <4> QED BY <4>1, <4>2 DEF NewCode
    <3>a. Unused'
      BY <3>2, <3>3, <3>4 DEF CodesInv, Unused
    <3>b. Counted'
      BY <3>2, <3>3, <3>4 DEF CodesInv, Counted
    <3>c. SpentOnce'
      BY <3>2, <3>3, <3>4 DEF CodesInv, SpentOnce
    <3>5. Unused' /\ Counted' /\ SpentOnce'
      BY <3>a, <3>b, <3>c
    <3>6. ReadsSent'
      BY <3>2, <3>3, <3>4 DEF CodesInv, ReadsSent
    <3>7. OneOpenCode'
      <4>1. \A q \in Purposes : OpenCodes(q)' \subseteq IF q = p THEN {c} ELSE OpenCodes(q)
        BY <3>4 DEF OpenCodes
      <4> QED BY <4>1 DEF CodesInv, OneOpenCode
    <3> QED BY <3>5, <3>6, <3>7 DEF CodesInv
  <2>2. CASE ~(smsLeft > 0)
    BY <1>0, <1>2, <2>2 DEF CodesInv, ReadsSent, RequestOtp
  <2> QED BY <2>1, <2>2
<1>3. ASSUME NEW v \in Answerers, NEW p \in Purposes, NEW guess \in Codes \cup {NoCode},
             VerifyReads(v, p, guess)
      PROVE  CodesInv'
  <2>1. ReadsSent'
    BY <1>3 DEF CodesInv, ReadsSent, VerifyReads, OpenCodes, CodesTypeOK
  <2> QED BY <1>0, <1>3, <2>1 DEF CodesInv, VerifyReads
<1>4. ASSUME NEW v \in Answerers, VerifyCounts(v) PROVE CodesInv'
  <2> DEFINE c == answerer[v].row
  <2>1. c \in Codes /\ otp[c].purpose # "none"
    BY <1>4 DEF VerifyCounts, CodesInv, ReadsSent
  <2>2. entered' = entered /\ answerer' \in [Answerers -> [at : {"idle", "read", "right"},
              row : Codes \cup {NoCode}, guess : Codes \cup {NoCode}]]
    BY <1>4, CodesTypeOKNext DEF VerifyCounts, CodesTypeOK, CodesNext
  <2>3. \A d \in Codes : /\ otp'[d].purpose = otp[d].purpose
                         /\ otp'[d].consumed = otp[d].consumed
    BY <1>4, <2>1 DEF VerifyCounts, CodesTypeOK
  <2>4. \A d \in Codes : otp'[d].attempts - compared'[d] = otp[d].attempts - compared[d]
    <3>1. CASE UNCHANGED <<otp, compared>>
      BY <3>1
    <3>2. CASE /\ otp' = [otp EXCEPT ![c].attempts = @ + 1]
               /\ compared' = [compared EXCEPT ![c] = @ + 1]
      <4>1. \A d \in Codes : d # c => otp'[d] = otp[d] /\ compared'[d] = compared[d]
        BY <2>1, <3>2 DEF CodesTypeOK
      <4>2. otp'[c].attempts = otp[c].attempts + 1 /\ compared'[c] = compared[c] + 1
        BY <2>1, <3>2 DEF CodesTypeOK
      <4>3. otp[c].attempts \in Nat /\ compared[c] \in Nat
        BY <2>1 DEF CodesTypeOK
      <4> HIDE DEF c
      <4>4. otp'[c].attempts - compared'[c] = otp[c].attempts - compared[c]
        BY <4>2, <4>3
      <4> QED BY <4>1, <4>4
    <3> QED BY <1>4, <3>1, <3>2 DEF VerifyCounts
  <2>5. \A d \in Codes : compared'[d] = compared[d] \/ d = c
    BY <1>4, <2>1 DEF VerifyCounts, CodesTypeOK
  <2>6. Unused'
    BY <2>1, <2>2, <2>3, <2>5 DEF CodesInv, Unused
  <2>7. Counted'
    BY <2>4, CodesTypeOKNext DEF CodesInv, Counted, CodesTypeOK
  <2>8. SpentOnce' /\ OneOpenCode'
    BY <2>2, <2>3 DEF CodesInv, SpentOnce, OneOpenCode, OpenCodes
  <2>9. ReadsSent'
    BY <1>4, <2>1, <2>3 DEF CodesInv, ReadsSent, VerifyCounts, NoAnswerer, CodesTypeOK
  <2> QED BY <2>6, <2>7, <2>8, <2>9 DEF CodesInv
<1>5. ASSUME NEW v \in Answerers, VerifyConsumes(v) PROVE CodesInv'
  <2> DEFINE c == answerer[v].row
  <2>1. c \in Codes /\ otp[c].purpose # "none"
    BY <1>5 DEF VerifyConsumes, CodesInv, ReadsSent
  <2>2. compared' = compared /\ answerer' = [answerer EXCEPT ![v] = NoAnswerer]
    BY <1>5 DEF VerifyConsumes
  <2>3. \A d \in Codes : /\ otp'[d].purpose = otp[d].purpose
                         /\ otp'[d].attempts = otp[d].attempts
                         /\ otp[d].consumed => otp'[d].consumed
    BY <1>5, <2>1 DEF VerifyConsumes, CodesTypeOK
  <2>4. \A d \in Codes : \/ entered'[d] = entered[d]
                         \/ d = c /\ ~otp[c].consumed /\ otp'[c].consumed /\ entered'[c] = entered[c] + 1
    BY <1>5, <2>1 DEF VerifyConsumes, StillOpen, CodesTypeOK
  <2>5. Unused' /\ Counted'
    BY <2>1, <2>2, <2>3, <2>4 DEF CodesInv, Unused, Counted
  <2>6. SpentOnce'
    <3> SUFFICES ASSUME NEW d \in Codes
                 PROVE  entered'[d] <= 1 /\ (entered'[d] = 1 => otp'[d].consumed)
      BY DEF SpentOnce
    <3>1. entered[d] \in Nat /\ entered[d] <= 1 /\ (entered[d] = 1 => otp[d].consumed)
      BY DEF CodesInv, SpentOnce, CodesTypeOK
    <3>2. CASE entered'[d] = entered[d]
      BY <2>3, <3>1, <3>2
    <3>3. CASE d = c /\ ~otp[c].consumed /\ otp'[c].consumed /\ entered'[c] = entered[c] + 1
      <4>1. entered[d] = 0
        BY <3>1, <3>3
      <4>2. entered'[d] = 1 /\ otp'[d].consumed
        BY <3>3, <4>1
      <4> QED BY <4>2
    <3> QED BY <2>4, <3>2, <3>3
  <2>7. OneOpenCode'
    BY <2>3 DEF CodesInv, OneOpenCode, OpenCodes
  <2>8. ReadsSent'
    BY <2>2, <2>3 DEF CodesInv, ReadsSent, NoAnswerer, CodesTypeOK
  <2> QED BY <2>5, <2>6, <2>7, <2>8 DEF CodesInv
<1>6. CASE OtpClockTicks
  BY <1>0, <1>6 DEF CodesInv, ReadsSent, OtpClockTicks
<1>7. CASE UNCHANGED codeVars
  BY <1>0, <1>7 DEF CodesInv, ReadsSent, codeVars
<1> QED BY <1>1, <1>2, <1>3, <1>4, <1>5, <1>6, <1>7 DEF CodesNext

(* For any number of requests and answers at the same time: one open code  *)
(* per purpose, used once, compared no more often than it may be.          *)
THEOREM CodesAlwaysSpentOnce == CodesSpec => []CodesSpentOnce
<1>1. CodesInit => CodesTypeOK /\ CodesInv
  <2>1. CodesInit => CodesInv
    BY CodesAssumption DEF CodesInit, CodesInv, Unused, ReadsSent, Counted, SpentOnce, OneOpenCode,
                           OpenCodes, NotSent, NoAnswerer
  <2> QED BY <2>1, CodesTypeOKInit
<1>2. CodesTypeOK /\ CodesInv /\ [CodesNext]_codeVars => (CodesTypeOK /\ CodesInv)'
  BY CodesTypeOKNext, CodesInvNext
<1>3. CodesTypeOK /\ CodesInv => CodesSpentOnce
  BY CodesAssumption DEF CodesTypeOK, CodesInv, CodesSpentOnce, Counted, SpentOnce
<1> QED BY <1>1, <1>2, <1>3, PTL DEF CodesSpec
(***************************************************************************)
(* The lock of the database.                                               *)
(***************************************************************************)

(* Who runs holds the lock, and is the only one whose BEGIN is open; what  *)
(* is open are its writes, and what is stored are those that were answered.*)
LockHeld == \A j \in Jobs : job[j].at = "runs" => HasLock(j) /\ job[j].kind = "transaction"
OneBegin == \A j \in Jobs : j \in begins <=> job[j].at = "runs"
OpenOfRunner == \A j \in Jobs, n \in 1..2 : <<j, n>> \in open <=> job[j].at = "runs" /\ n <= job[j].wrote
StoredOfDone == \A j \in Jobs, n \in 1..2 : <<j, n>> \in stored <=> job[j].at = "done" /\ <<j, n>> \in Writes(j)
NotYet == \A j \in Jobs : job[j].at \in {"new", "waits"} => job[j].wrote = 0
LockInv == LockTypeOK /\ LockHeld /\ OneBegin /\ OpenOfRunner /\ StoredOfDone /\ NotYet

JobAts == {"new", "waits", "runs", "done", "failed"}

JobMoved(j, at) ==
  /\ job'[j].at = at
  /\ \A i \in Jobs : /\ i # j => job'[i].at = job[i].at
                     /\ job'[i].kind = job[i].kind
                     /\ job'[i].wrote = job[i].wrote
                     /\ Writes(i)' = Writes(i)

LEMMA JobChanges ==
  ASSUME LockTypeOK, NEW j \in Jobs, NEW at \in JobAts, JobIs(j, at)
  PROVE  job' \in [Jobs -> [kind : JobKinds, at : JobAts, wrote : 0..2]] /\ JobMoved(j, at)
  BY DEF LockTypeOK, JobIs, JobAts, Writes, JobMoved

LEMMA QueueChanges ==
  ASSUME LockTypeOK, NEW j \in Jobs
  PROVE  /\ Acquires(j) => lockQueue' \in Seq(Jobs) /\ \A i \in Jobs : HasLock(i) => HasLock(i)'
         /\ Releases /\ HasLock(j) => lockQueue' \in Seq(Jobs)
         /\ \A i \in Jobs : HasLock(i) /\ HasLock(j) => i = j
<1>1. ASSUME Acquires(j)
      PROVE  lockQueue' \in Seq(Jobs) /\ \A i \in Jobs : HasLock(i) => HasLock(i)'
  <2>1. lockQueue \in Seq(Jobs)
    BY DEF LockTypeOK
  <2>2. lockQueue' = Append(lockQueue, j)
    BY <1>1 DEF Acquires
  <2>3. lockQueue' \in Seq(Jobs)
    BY <2>1, <2>2
  <2>4. lockQueue # <<>> => lockQueue' # <<>> /\ Head(lockQueue') = Head(lockQueue)
    BY <2>1, <2>2
  <2> QED BY <2>3, <2>4 DEF HasLock
<1>2. ASSUME Releases, HasLock(j) PROVE lockQueue' \in Seq(Jobs)
  <2>1. lockQueue \in Seq(Jobs) /\ lockQueue # <<>>
    BY <1>2 DEF LockTypeOK, HasLock
  <2> QED BY <1>2, <2>1 DEF Releases
<1>3. \A i \in Jobs : HasLock(i) /\ HasLock(j) => i = j
  BY DEF HasLock
<1> QED BY <1>1, <1>2, <1>3

LEMMA LockInvNext == LockInv /\ [LockNext]_lockVars => LockInv'
<1> SUFFICES ASSUME LockInv, [LockNext]_lockVars PROVE LockInv'
  OBVIOUS
<1> USE DEF LockInv
<1>1. ASSUME NEW j \in Jobs, JobAsks(j) PROVE LockInv'
  <2>1. job[j].at = "new" /\ Acquires(j) /\ JobIs(j, "waits") /\ UNCHANGED <<open, begins, stored>>
    BY <1>1 DEF JobAsks
  <2>c. JobMoved(j, "waits")
    BY <2>1, JobChanges DEF JobAts
  <2>2. LockTypeOK'
    BY <2>1, JobChanges, QueueChanges DEF LockTypeOK, JobAts
  <2>3. LockHeld'
    BY <2>1, <2>c, QueueChanges DEF LockHeld, JobMoved
  <2>4. OneBegin' /\ NotYet'
    BY <2>1, <2>c DEF OneBegin, NotYet, JobMoved
  <2>5. OpenOfRunner'
    BY <2>1, <2>c DEF OpenOfRunner, JobMoved
  <2>6. StoredOfDone'
    BY <2>1, <2>c DEF StoredOfDone, JobMoved
  <2> QED BY <2>2, <2>3, <2>4, <2>5, <2>6
<1>2. ASSUME NEW j \in Jobs, LoneQuery(j) PROVE LockInv'
  <2>1. job[j].kind = "query" /\ job[j].at = "waits" /\ HasLock(j) /\ Releases /\ UNCHANGED begins
    BY <1>2 DEF LoneQuery, Guard
  <2>2. \A i \in Jobs : job[i].at # "runs"
    BY <2>1, QueueChanges DEF LockHeld
  <2>3. begins = {}
    BY <2>2 DEF OneBegin, LockTypeOK
  <2>4. UNCHANGED open
    BY <1>2, <2>3 DEF LoneQuery, Executes
  <2>5. \/ JobIs(j, "done") /\ stored' = stored \cup {<<j, 1>>}
        \/ JobIs(j, "failed") /\ UNCHANGED stored
    BY <1>2, <2>3 DEF LoneQuery, Executes
  <2>6. PICK at \in {"done", "failed"} : JobIs(j, at)
    BY <2>5
  <2>7. at \in JobAts
    BY DEF JobAts
  <2>c. JobMoved(j, at)
    BY <2>6, <2>7, JobChanges
  <2>8. \A i \in Jobs : job'[i].at # "runs"
    BY <2>2, <2>6, <2>7, <2>c DEF JobMoved
  <2>9. LockTypeOK'
    BY <2>1, <2>4, <2>5, <2>6, <2>7, JobChanges, QueueChanges DEF LockTypeOK, JobAts
  <2>10. LockHeld' /\ OneBegin' /\ OpenOfRunner'
    BY <2>1, <2>2, <2>4, <2>8 DEF LockHeld, OneBegin, OpenOfRunner
  <2>11. NotYet'
    BY <2>6, <2>7, <2>c DEF NotYet, JobMoved
  <2>12. StoredOfDone'
    <3>1. Writes(j) = {<<j, 1>>}
      BY <2>1 DEF Writes
    <3>2. CASE JobIs(j, "done") /\ stored' = stored \cup {<<j, 1>>}
      <4> SUFFICES ASSUME NEW i \in Jobs, NEW n \in 1..2
                   PROVE  <<i, n>> \in stored' <=> job'[i].at = "done" /\ <<i, n>> \in Writes(i)'
        BY DEF StoredOfDone
      <4>1. job'[j].at = "done" /\ Writes(i)' = Writes(i) /\ (i # j => job'[i].at = job[i].at)
        BY <3>2, JobChanges DEF JobMoved, JobAts
      <4>2. <<i, n>> \in stored <=> job[i].at = "done" /\ <<i, n>> \in Writes(i)
        BY DEF StoredOfDone
      <4>3. CASE i # j
        BY <3>2, <4>1, <4>2, <4>3
      <4>4. CASE i = j
        BY <2>1, <3>1, <3>2, <4>1, <4>2, <4>4
      <4> QED BY <4>3, <4>4
    <3>3. CASE JobIs(j, "failed") /\ UNCHANGED stored
      <4>1. JobMoved(j, "failed") /\ UNCHANGED stored
        BY <3>3, JobChanges DEF JobAts
      <4> QED BY <2>1, <4>1 DEF StoredOfDone, JobMoved
    <3> QED BY <2>5, <3>2, <3>3
  <2> QED BY <2>9, <2>10, <2>11, <2>12
<1>3. ASSUME NEW j \in Jobs, StartTransaction(j) PROVE LockInv'
  <2>1. /\ job[j].kind = "transaction" /\ job[j].at = "waits" /\ HasLock(j)
        /\ JobIs(j, "runs") /\ begins' = begins \cup {j} /\ UNCHANGED <<lockQueue, open, stored>>
    BY <1>3 DEF StartTransaction
  <2>c. JobMoved(j, "runs")
    BY <2>1, JobChanges DEF JobAts
  <2>2. job[j].wrote = 0
    BY <2>1 DEF NotYet
  <2>3. LockTypeOK'
    BY <2>1, JobChanges DEF LockTypeOK, JobAts
  <2>4. LockHeld'
    BY <2>1, <2>c DEF LockHeld, HasLock, JobMoved
  <2>5. OneBegin' /\ NotYet'
    BY <2>1, <2>c DEF OneBegin, NotYet, JobMoved
  <2>6. OpenOfRunner'
    <3> SUFFICES ASSUME NEW i \in Jobs, NEW n \in 1..2
                 PROVE  <<i, n>> \in open' <=> job'[i].at = "runs" /\ n <= job'[i].wrote
      BY DEF OpenOfRunner
    <3>1. <<i, n>> \in open' <=> job[i].at = "runs" /\ n <= job[i].wrote
      BY <2>1 DEF OpenOfRunner
    <3>2. CASE i # j
      BY <2>c, <3>1, <3>2 DEF JobMoved
    <3>3. CASE i = j
      <4>1. job'[i].wrote = 0
        BY <2>c, <2>2, <3>3 DEF JobMoved
      <4> QED BY <2>1, <3>1, <3>3, <4>1
    <3> QED BY <3>2, <3>3
  <2>7. StoredOfDone'
    BY <2>1, <2>c DEF StoredOfDone, JobMoved
  <2> QED BY <2>3, <2>4, <2>5, <2>6, <2>7
<1>4. ASSUME NEW j \in Jobs, StartTransactionFails(j) PROVE LockInv'
  <2>1. /\ job[j].at = "waits" /\ HasLock(j) /\ JobIs(j, "failed") /\ Releases
        /\ UNCHANGED <<open, begins, stored>>
    BY <1>4 DEF StartTransactionFails
  <2>c. JobMoved(j, "failed")
    BY <2>1, JobChanges DEF JobAts
  <2>2. \A i \in Jobs : job[i].at # "runs"
    BY <2>1, QueueChanges DEF LockHeld
  <2>3. LockTypeOK'
    BY <2>1, JobChanges, QueueChanges DEF LockTypeOK, JobAts
  <2>6. \A i \in Jobs : job'[i].at # "runs"
    BY <2>1, <2>2, <2>c DEF JobMoved
  <2>7. LockHeld' /\ OneBegin' /\ OpenOfRunner'
    BY <2>1, <2>2, <2>6 DEF LockHeld, OneBegin, OpenOfRunner
  <2>8. NotYet'
    BY <2>1, <2>c DEF NotYet, JobMoved
  <2>4. LockHeld' /\ OneBegin' /\ OpenOfRunner' /\ NotYet'
    BY <2>7, <2>8
  <2>5. StoredOfDone'
    BY <2>1, <2>c DEF StoredOfDone, JobMoved
  <2> QED BY <2>3, <2>4, <2>5
<1>5. ASSUME NEW j \in Jobs, QueryInside(j) PROVE LockInv'
  <2> DEFINE n == job[j].wrote + 1
  <2>1. job[j].at = "runs" /\ n \in 1..2 /\ UNCHANGED <<lockQueue, begins>>
    BY <1>5 DEF QueryInside, InTransaction, LockTypeOK
  <2>2. open' = open \cup {<<j, n>>} /\ UNCHANGED stored
    BY <1>5, <2>1 DEF QueryInside, Executes, OneBegin
  <2>3. job' = [job EXCEPT ![j].wrote = n]
    BY <1>5 DEF QueryInside
  <2> HIDE DEF n
  <2>4. job' \in [Jobs -> [kind : JobKinds, at : JobAts, wrote : 0..2]]
    BY <2>1, <2>3 DEF LockTypeOK, JobAts
  <2>5. \A i \in Jobs : /\ job'[i].at = job[i].at /\ job'[i].kind = job[i].kind
                        /\ i # j => job'[i].wrote = job[i].wrote
                        /\ Writes(i)' = Writes(i)
    BY <2>3 DEF LockTypeOK, Writes
  <2>6. job'[j].wrote = n
    BY <2>3 DEF LockTypeOK
  <2>7. LockTypeOK'
    BY <2>1, <2>2, <2>4 DEF LockTypeOK, JobAts
  <2>8. LockHeld' /\ OneBegin' /\ NotYet'
    BY <2>1, <2>5 DEF LockHeld, OneBegin, NotYet, HasLock
  <2>9. StoredOfDone'
    BY <2>2, <2>5 DEF StoredOfDone
  <2>10. OpenOfRunner'
    <3> SUFFICES ASSUME NEW i \in Jobs, NEW m \in 1..2
                 PROVE  <<i, m>> \in open' <=> job'[i].at = "runs" /\ m <= job'[i].wrote
      BY DEF OpenOfRunner
    <3>1. CASE i # j
      BY <2>2, <2>5, <3>1 DEF OpenOfRunner
    <3>2. CASE i = j
      <4>1. <<i, m>> \in open' <=> m <= job[j].wrote \/ m = n
        BY <2>1, <2>2, <3>2 DEF OpenOfRunner
      <4>2. job[j].wrote \in Nat
        BY DEF LockTypeOK
      <4> QED BY <2>1, <2>5, <2>6, <3>2, <4>1, <4>2 DEF n
    <3> QED BY <3>1, <3>2
  <2> QED BY <2>7, <2>8, <2>9, <2>10
<1>6. ASSUME NEW j \in Jobs, CommitTransaction(j) \/ RollbackTransaction(j) PROVE LockInv'
  <2>1. job[j].at = "runs" /\ open' = {} /\ begins' = begins \ {j} /\ Releases
    BY <1>6 DEF CommitTransaction, RollbackTransaction
  <2>2. HasLock(j) /\ job[j].kind = "transaction"
    BY <2>1 DEF LockHeld
  <2>3. \A i \in Jobs : i # j => job[i].at # "runs"
    BY <2>2, QueueChanges DEF LockHeld
  <2>4. PICK at \in {"done", "failed"} : JobIs(j, at)
    BY <1>6 DEF CommitTransaction, RollbackTransaction
  <2>5. at \in JobAts
    BY DEF JobAts
  <2>c. JobMoved(j, at)
    BY <2>4, <2>5, JobChanges
  <2>6. stored' \subseteq stored \cup open
    BY <1>6 DEF CommitTransaction, RollbackTransaction
  <2>7. \A i \in Jobs : job'[i].at # "runs"
    BY <2>3, <2>4, <2>5, <2>c DEF JobMoved
  <2>8. LockTypeOK'
    BY <2>1, <2>2, <2>4, <2>5, <2>6, JobChanges, QueueChanges DEF LockTypeOK, JobAts
  <2>9. LockHeld' /\ OneBegin' /\ OpenOfRunner'
    BY <2>1, <2>3, <2>7 DEF LockHeld, OneBegin, OpenOfRunner
  <2>10. NotYet'
    BY <2>4, <2>5, <2>c DEF NotYet, JobMoved
  <2>11. StoredOfDone'
    <3>1. Writes(j) = {<<j, 1>>, <<j, 2>>}
      BY <2>2 DEF Writes
    <3>2. CASE CommitTransaction(j)
      <4>1. job[j].wrote = 2 /\ stored' = stored \cup open /\ JobIs(j, "done")
        BY <3>2 DEF CommitTransaction
      <4> SUFFICES ASSUME NEW i \in Jobs, NEW n \in 1..2
                   PROVE  <<i, n>> \in stored' <=> job'[i].at = "done" /\ <<i, n>> \in Writes(i)'
        BY DEF StoredOfDone
      <4>2. <<i, n>> \in open <=> job[i].at = "runs" /\ n <= job[i].wrote
        BY DEF OpenOfRunner
      <4>3. job'[j].at = "done" /\ Writes(i)' = Writes(i) /\ (i # j => job'[i].at = job[i].at)
        BY <4>1, JobChanges DEF JobMoved, JobAts
      <4>4. <<i, n>> \in stored <=> job[i].at = "done" /\ <<i, n>> \in Writes(i)
        BY DEF StoredOfDone
      <4>5. CASE i # j
        BY <2>3, <4>1, <4>2, <4>3, <4>4, <4>5
      <4>6. CASE i = j
        <5>1. <<i, n>> \in Writes(i)
          BY <3>1, <4>6
        <5>2. <<i, n>> \in open
          BY <2>1, <4>1, <4>2, <4>6
        <5> QED BY <4>1, <4>3, <4>6, <5>1, <5>2
      <4> QED BY <4>5, <4>6
    <3>3. CASE RollbackTransaction(j)
      <4>1. JobIs(j, "failed") /\ UNCHANGED stored
        BY <3>3 DEF RollbackTransaction
      <4> SUFFICES ASSUME NEW i \in Jobs, NEW n \in 1..2
                   PROVE  <<i, n>> \in stored' <=> job'[i].at = "done" /\ <<i, n>> \in Writes(i)'
        BY DEF StoredOfDone
      <4>2. job'[j].at = "failed" /\ Writes(i)' = Writes(i) /\ (i # j => job'[i].at = job[i].at)
        BY <4>1, JobChanges DEF JobMoved, JobAts
      <4>3. <<i, n>> \in stored <=> job[i].at = "done" /\ <<i, n>> \in Writes(i)
        BY DEF StoredOfDone
      <4> QED BY <2>1, <4>1, <4>2, <4>3
    <3> QED BY <1>6, <3>2, <3>3
  <2> QED BY <2>8, <2>9, <2>10, <2>11
<1>7. CASE UNCHANGED lockVars
  BY <1>7 DEF lockVars, LockTypeOK, LockHeld, OneBegin, OpenOfRunner, StoredOfDone, NotYet, HasLock, Writes
<1> QED BY <1>1, <1>2, <1>3, <1>4, <1>5, <1>6, <1>7 DEF LockNext

LEMMA LockInvInit == LockInit => LockInv
<1> SUFFICES ASSUME LockInit PROVE LockInv
  OBVIOUS
<1>1. \A j \in Jobs : job[j].at = "new" /\ job[j].wrote = 0
  BY DEF LockInit
<1>2. LockTypeOK
  BY DEF LockInit, LockTypeOK
<1> QED BY <1>1, <1>2 DEF LockInit, LockInv, LockHeld, OneBegin, OpenOfRunner, StoredOfDone, NotYet

(* The connection and the lock keep their types.                           *)
THEOREM LockTypeCorrect == LockSpec => []LockTypeOK
<1>1. LockInv => LockTypeOK  BY DEF LockInv
<1> QED BY <1>1, LockInvInit, LockInvNext, PTL DEF LockSpec

(* For any number of queries and transactions: what was answered is        *)
(* stored, and nothing else.                                               *)
THEOREM AnsweredAlwaysStored == LockSpec => []AnsweredIsStored
<1>1. LockInv => AnsweredIsStored
  <2> SUFFICES ASSUME LockInv, NEW j \in Jobs
               PROVE  stored \cap ({j} \X (1..2)) = IF job[j].at = "done" THEN Writes(j) ELSE {}
    BY DEF AnsweredIsStored
  <2>1. Writes(j) \subseteq {j} \X (1..2)
    BY DEF Writes
  <2>2. \A n \in 1..2 : <<j, n>> \in stored <=> job[j].at = "done" /\ <<j, n>> \in Writes(j)
    BY DEF LockInv, StoredOfDone
  <2> QED BY <2>1, <2>2
<1> QED BY <1>1, LockInvInit, LockInvNext, PTL DEF LockSpec

(* What the handlers know of a job, and its writes, in the abstract module.*)
KnownOf == [j \in Jobs |-> Known[job[j].at]]
KindOf == [j \in Jobs |-> job[j].kind]

LEMMA SameWrites == ASSUME LockTypeOK, NEW j \in Jobs PROVE Atomic!WritesOf(j) = Writes(j)
<1>1. job[j].kind \in JobKinds /\ KindOf[j] = job[j].kind
  BY DEF LockTypeOK, KindOf
<1> QED BY <1>1 DEF Atomic!WritesOf, Writes, JobKinds, KindOf

(* A step that moves one job moves what its handler knows, and no kind.    *)
LEMMA KnownMoves ==
  ASSUME LockTypeOK, NEW j \in Jobs, NEW at \in JobAts, JobIs(j, at)
  PROVE  KnownOf' = [KnownOf EXCEPT ![j] = Known[at]] /\ UNCHANGED KindOf
  BY DEF LockTypeOK, JobIs, JobAts, KnownOf, KindOf

(* A job that has the lock is answered, by a step that gives the lock back.*)
LEMMA AnswerIsOne ==
  ASSUME LockTypeOK, NEW j \in Jobs, HasLock(j), Releases,
         NEW at \in {"done", "failed"}, JobIs(j, at)
  PROVE  Atomic!AnswerJob(j, at)
<1>1. at \in JobAts /\ Known[at] = at
  BY DEF JobAts, Known
<1>2. KnownOf' = [KnownOf EXCEPT ![j] = at] /\ UNCHANGED KindOf
  BY <1>1, KnownMoves
<1> QED BY <1>2 DEF HasLock, Releases, Atomic!AnswerJob, KnownOf, KindOf

LEMMA LockStepIsAtomic ==
  LockInv /\ [LockNext]_lockVars => [Atomic!AtomicNext]_(Atomic!jobVars)
<1> SUFFICES ASSUME LockInv, [LockNext]_lockVars
             PROVE  Atomic!AtomicNext \/ UNCHANGED <<KindOf, lockQueue, KnownOf, stored>>
  BY DEF Atomic!jobVars, KindOf, KnownOf
<1> USE DEF LockInv
<1>1. ASSUME NEW j \in Jobs, JobAsks(j) PROVE Atomic!AskJob(j)
  <2>1. job[j].at = "new" /\ Acquires(j) /\ JobIs(j, "waits") /\ UNCHANGED stored
    BY <1>1 DEF JobAsks
  <2>2. KnownOf' = [KnownOf EXCEPT ![j] = Known["waits"]] /\ UNCHANGED KindOf
    BY <2>1, KnownMoves DEF JobAts
  <2>3. Known["waits"] = "asked" /\ KnownOf[j] = "none"
    BY <2>1 DEF Known, KnownOf
  <2> QED BY <2>1, <2>2, <2>3 DEF Acquires, Atomic!AskJob, KnownOf, KindOf
<1>2. ASSUME NEW j \in Jobs, LoneQuery(j) PROVE Atomic!CompleteJob(j) \/ Atomic!FailJob(j)
  <2>1. job[j].kind = "query" /\ HasLock(j) /\ Releases
    BY <1>2 DEF LoneQuery, Guard
  <2>2. CASE Executes(<<j, 1>>) /\ JobIs(j, "done")
    <3>1. begins = {}
      BY <2>1 DEF LockHeld, OneBegin, LockTypeOK, HasLock
    <3>2. stored' = stored \cup Writes(j)
      BY <2>1, <2>2, <3>1 DEF Executes, Writes
    <3>3. Atomic!AnswerJob(j, "done")
      BY <2>1, <2>2, AnswerIsOne
    <3> QED BY <3>2, <3>3, SameWrites DEF Atomic!CompleteJob
  <2>3. CASE UNCHANGED <<open, stored>> /\ JobIs(j, "failed")
    <3>1. Atomic!AnswerJob(j, "failed")
      BY <2>1, <2>3, AnswerIsOne
    <3> QED BY <2>3, <3>1 DEF Atomic!FailJob
  <2> QED BY <1>2, <2>2, <2>3 DEF LoneQuery
<1>3. ASSUME NEW j \in Jobs, StartTransaction(j)
      PROVE  UNCHANGED <<KindOf, lockQueue, KnownOf, stored>>
  <2>1. /\ job[j].at = "waits" /\ JobIs(j, "runs") /\ UNCHANGED <<lockQueue, stored>>
    BY <1>3 DEF StartTransaction
  <2>2. KnownOf' = [KnownOf EXCEPT ![j] = Known["runs"]] /\ UNCHANGED KindOf
    BY <2>1, KnownMoves DEF JobAts
  <2>3. KnownOf[j] = "asked" /\ Known["runs"] = "asked" /\ KnownOf = [i \in Jobs |-> KnownOf[i]]
    BY <2>1 DEF KnownOf, Known
  <2> QED BY <2>1, <2>2, <2>3
<1>4. ASSUME NEW j \in Jobs, StartTransactionFails(j) PROVE Atomic!FailJob(j)
  BY <1>4, AnswerIsOne DEF StartTransactionFails, Atomic!FailJob
<1>5. ASSUME NEW j \in Jobs, QueryInside(j)
      PROVE  UNCHANGED <<KindOf, lockQueue, KnownOf, stored>>
  <2>1. job[j].at = "runs" /\ begins # {} /\ UNCHANGED lockQueue
    BY <1>5 DEF QueryInside, InTransaction, OneBegin
  <2>2. UNCHANGED stored
    BY <1>5, <2>1 DEF QueryInside, Executes
  <2>3. UNCHANGED <<KindOf, KnownOf>>
    BY <1>5 DEF QueryInside, KindOf, KnownOf, LockTypeOK
  <2> QED BY <2>1, <2>2, <2>3
<1>6. ASSUME NEW j \in Jobs, CommitTransaction(j) PROVE Atomic!CompleteJob(j)
  <2>1. /\ job[j].at = "runs" /\ job[j].wrote = 2 /\ JobIs(j, "done") /\ Releases
        /\ stored' = stored \cup open
    BY <1>6 DEF CommitTransaction
  <2>2. HasLock(j) /\ job[j].kind = "transaction"
    BY <2>1 DEF LockHeld
  <2>3. open = Writes(j)
    <3>1. \A i \in Jobs : job[i].at = "runs" => i = j
      BY <2>2, QueueChanges DEF LockHeld
    <3>2. ASSUME NEW i \in Jobs, NEW n \in 1..2 PROVE <<i, n>> \in open <=> i = j
      <4>1. <<i, n>> \in open <=> job[i].at = "runs" /\ n <= job[i].wrote
        BY DEF OpenOfRunner
      <4>2. i = j => n <= job[i].wrote
        BY <2>1
      <4> QED BY <2>1, <3>1, <4>1, <4>2
    <3>3. Writes(j) = {<<j, 1>>, <<j, 2>>} /\ open \subseteq Jobs \X (1..2)
      BY <2>2 DEF Writes, LockTypeOK
    <3>4. ASSUME NEW w PROVE w \in open <=> w \in Writes(j)
      <4>1. CASE w \in Jobs \X (1..2)
        <5>1. PICK i \in Jobs, n \in 1..2 : w = <<i, n>>
          BY <4>1
        <5>2. n = 1 \/ n = 2
          OBVIOUS
        <5>3. <<i, n>> \in Writes(j) <=> i = j
          BY <3>3, <5>2
        <5> QED BY <3>2, <5>1, <5>3
      <4>2. CASE w \notin Jobs \X (1..2)
        BY <3>3, <4>2
      <4> QED BY <4>1, <4>2
    <3> QED BY <3>4
  <2>4. Atomic!AnswerJob(j, "done")
    BY <2>1, <2>2, AnswerIsOne
  <2> QED BY <2>1, <2>3, <2>4, SameWrites DEF Atomic!CompleteJob
<1>7. ASSUME NEW j \in Jobs, RollbackTransaction(j) PROVE Atomic!FailJob(j)
  <2>1. HasLock(j)
    BY <1>7 DEF RollbackTransaction, LockHeld
  <2> QED BY <1>7, <2>1, AnswerIsOne DEF RollbackTransaction, Atomic!FailJob
<1>8. CASE UNCHANGED lockVars
  BY <1>8 DEF lockVars, KindOf, KnownOf
<1> QED BY <1>1, <1>2, <1>3, <1>4, <1>5, <1>6, <1>7, <1>8 DEF LockNext, Atomic!AtomicNext

(* For any number of jobs: to the handlers a transaction is one step.      *)
THEOREM LockIsAtomic == LockSpec => JobsAreAtomic
<1>1. LockInit => Atomic!AtomicInit
  BY DEF LockInit, Atomic!AtomicInit, Known, JobKinds
<1> QED BY <1>1, LockInvInit, LockInvNext, LockStepIsAtomic, PTL
        DEF LockSpec, JobsAreAtomic, Atomic!AtomicSpec

(***************************************************************************)
(* Live reads.                                                             *)
(***************************************************************************)

LoadRows == [at : {"reading", "read", "done", "failed"}, value : Versions]
HasRead(l) == load[l].at \in {"read", "done"}

(* What is in the store is not older than the last publication; what is    *)
(* waited for is not older than the last publication before the question.  *)
StoreFresh == \A k \in Keys : entry[k] # NoLoad /\ HasRead(entry[k]) => load[entry[k]].value >= announced
ReadersFresh == \A r \in Readers : reader[r].waits =>
  /\ reader[r].load \in Loads /\ reader[r].since <= announced
  /\ HasRead(reader[r].load) => load[reader[r].load].value >= reader[r].since
RunFresh == run.at \in {"live", "state"} =>
  /\ run.load \in Loads /\ run.since <= announced
  /\ HasRead(run.load) => load[run.load].value >= run.since
  /\ run.at = "state" => run.live >= run.since
StreamsFresh == \A s \in Subscribers :
  /\ s \in subscribed => got[s] = lastSent /\ got[s].live >= owed[s] /\ got[s].state >= owed[s]
  /\ s \notin subscribed => owed[s] = 0
ReadsInv ==
  ReadsTypeOK /\ announced <= version /\ unpublished <= version /\ StoreFresh /\ ReadersFresh /\ RunFresh /\ StreamsFresh

(* The state of the cache alone, for a store that was perhaps voided.      *)
CacheTypeOK(store) == store \in [Keys -> Loads \cup {NoLoad}] /\ load \in [Loads -> LoadRows]

(* cached gives a promise that is shared and untouched, or one that nobody *)
(* waits for and that has not read.                                        *)
LEMMA CachedGives ==
  ASSUME NEW store, NEW k \in Keys, NEW l \in Loads, CacheTypeOK(store), Cached(store, k, l)
  PROVE  /\ entry' \in [Keys -> Loads \cup {NoLoad}] /\ load' \in [Loads -> LoadRows]
         /\ \A j \in Loads : j \in Held(store) => load'[j] = load[j]
         /\ \A i \in Keys : entry'[i] = store[i] \/ (entry'[i] = l /\ load'[l].at = "reading")
         /\ (store[k] = l /\ load'[l] = load[l]) \/ load'[l].at = "reading"
<1>1. CASE store[k] = l /\ entry' = store /\ UNCHANGED load
  BY <1>1 DEF CacheTypeOK
<1>2. CASE /\ ~(Loads \subseteq Held(store)) /\ l = FreeLoad(store)
           /\ entry' = [store EXCEPT ![k] = l]
           /\ load' = [load EXCEPT ![l] = [at |-> "reading", value |-> 0]]
  <2>1. l \notin Held(store)
    BY <1>2 DEF FreeLoad
  <2>2. [at |-> "reading", value |-> 0] \in LoadRows
    BY ReadsAssumption DEF LoadRows, Versions
  <2>3. entry' \in [Keys -> Loads \cup {NoLoad}] /\ load' \in [Loads -> LoadRows]
    BY <1>2, <2>2 DEF CacheTypeOK
  <2>4. load'[l].at = "reading"
    BY <1>2 DEF CacheTypeOK
  <2>5. \A j \in Loads : j # l => load'[j] = load[j]
    BY <1>2 DEF CacheTypeOK
  <2>6. \A i \in Keys : entry'[i] = store[i] \/ entry'[i] = l
    BY <1>2 DEF CacheTypeOK
  <2> QED BY <2>1, <2>3, <2>4, <2>5, <2>6
<1> QED BY <1>1, <1>2 DEF Cached

IsRead(row) == row.at \in {"read", "done"}
RunRows == [at : {"idle", "live", "state", "ending"}, load : Loads \cup {NoLoad},
            since : Versions, live : Versions]

(* What a step that uses the cache or the run leaves behind, where a is    *)
(* what is announced after it.                                             *)
CacheStep(a) ==
  /\ entry' \in [Keys -> Loads \cup {NoLoad}] /\ load' \in [Loads -> LoadRows]
  /\ \A i \in Keys : entry'[i] # NoLoad /\ IsRead(load'[entry'[i]]) => load'[entry'[i]].value >= a
  /\ \A r \in Readers : reader[r].waits => load'[reader[r].load] = load[reader[r].load]
RunStep(a) ==
  /\ run' \in RunRows /\ dirty' \in BOOLEAN
  /\ run'.at \in {"live", "state"} =>
       /\ run'.load \in Loads /\ run'.since <= a
       /\ IsRead(load'[run'.load]) => load'[run'.load].value >= run'.since
       /\ run'.at = "state" => run'.live >= run'.since

(* The store as a step finds it: as it is, or voided by a publication of a.*)
StoreFor(store, a) == (store = entry /\ a = announced) \/ store = Invalidate

LEMMA CachedFresh ==
  ASSUME ReadsInv, NEW store, NEW k \in Keys, NEW l \in Loads, NEW a \in Versions,
         StoreFor(store, a), Cached(store, k, l)
  PROVE  /\ CacheStep(a)
         /\ IsRead(load'[l]) => load'[l].value >= a
         /\ run.at \in {"live", "state"} => load'[run.load] = load[run.load]
<1>1. CacheTypeOK(store)
  BY DEF StoreFor, Invalidate, CacheTypeOK, ReadsInv, ReadsTypeOK, LoadRows
<1>2. /\ entry' \in [Keys -> Loads \cup {NoLoad}] /\ load' \in [Loads -> LoadRows]
      /\ \A j \in Loads : j \in Held(store) => load'[j] = load[j]
      /\ \A i \in Keys : entry'[i] = store[i] \/ (entry'[i] = l /\ load'[l].at = "reading")
      /\ (store[k] = l /\ load'[l] = load[l]) \/ load'[l].at = "reading"
  BY <1>1, CachedGives
<1>3. \A i \in Keys : store[i] # NoLoad => store[i] \in Loads /\ load'[store[i]] = load[store[i]]
                        /\ (IsRead(load[store[i]]) => load[store[i]].value >= a)
  <2> SUFFICES ASSUME NEW i \in Keys, store[i] # NoLoad
               PROVE  store[i] \in Loads /\ load'[store[i]] = load[store[i]]
                        /\ (IsRead(load[store[i]]) => load[store[i]].value >= a)
    OBVIOUS
  <2>1. store[i] \in Loads /\ store[i] \in Held(store)
    BY <1>1 DEF CacheTypeOK, Held
  <2>2. store = entry /\ a = announced
    BY DEF StoreFor, Invalidate
  <2>3. IsRead(load[store[i]]) => load[store[i]].value >= a
    BY <2>2 DEF ReadsInv, StoreFresh, HasRead, IsRead
  <2> QED BY <1>2, <2>1, <2>3
<1>4. \A i \in Keys : entry'[i] # NoLoad /\ IsRead(load'[entry'[i]]) => load'[entry'[i]].value >= a
  BY <1>2, <1>3 DEF IsRead
<1>5. IsRead(load'[l]) => load'[l].value >= a
  <2>1. l # NoLoad
    BY ReadsAssumption
  <2> QED BY <1>2, <1>3, <2>1 DEF IsRead
<1>6. \A r \in Readers : reader[r].waits => load'[reader[r].load] = load[reader[r].load]
  BY <1>2 DEF ReadsInv, ReadersFresh, Held
<1>7. run.at \in {"live", "state"} => load'[run.load] = load[run.load]
  BY <1>2 DEF ReadsInv, RunFresh, Held
<1> QED BY <1>2, <1>4, <1>5, <1>6, <1>7 DEF CacheStep

LEMMA StartsRunFresh ==
  ASSUME ReadsInv, NEW store, NEW a \in Versions, StoreFor(store, a), StartsRun(store, a)
  PROVE  CacheStep(a) /\ RunStep(a)
<1>1. PICK l \in Loads : /\ Cached(store, "live", l)
                         /\ run' = [at |-> "live", load |-> l, since |-> a, live |-> 0]
  BY DEF StartsRun
<1>2. CacheStep(a) /\ (IsRead(load'[l]) => load'[l].value >= a)
  BY <1>1, CachedFresh DEF Keys
<1>3. run' \in RunRows /\ dirty' \in BOOLEAN
  <2>1. 0 \in Versions
    BY ReadsAssumption DEF Versions
  <2>2. [at |-> "live", load |-> l, since |-> a, live |-> 0] \in RunRows
    BY <2>1 DEF RunRows
  <2> QED BY <1>1, <2>2 DEF StartsRun
<1> QED BY <1>1, <1>2, <1>3 DEF RunStep, Versions

LEMMA NoCacheStep ==
  ASSUME ReadsInv, NEW store, NEW a \in Versions, StoreFor(store, a), entry' = store, UNCHANGED load
  PROVE  CacheStep(a)
<1>1. entry' \in [Keys -> Loads \cup {NoLoad}] /\ load' \in [Loads -> LoadRows]
  BY DEF StoreFor, Invalidate, ReadsInv, ReadsTypeOK, LoadRows
<1>2. \A i \in Keys : entry'[i] # NoLoad /\ IsRead(load'[entry'[i]]) => load'[entry'[i]].value >= a
  BY DEF StoreFor, Invalidate, ReadsInv, StoreFresh, HasRead, IsRead
<1> QED BY <1>1, <1>2 DEF CacheStep

LEMMA RunStays ==
  ASSUME ReadsInv, NEW a \in Versions, announced <= a, UNCHANGED <<load, run>>, dirty' \in BOOLEAN
  PROVE  RunStep(a)
<1>1. run' \in RunRows
  BY DEF ReadsInv, ReadsTypeOK, RunRows
<1>2. run.since \in Versions /\ announced \in Versions
  BY DEF ReadsInv, ReadsTypeOK
<1> QED BY <1>1, <1>2, ReadsAssumption DEF RunStep, ReadsInv, RunFresh, HasRead, IsRead, Versions

LEMMA TickFresh ==
  ASSUME ReadsInv, NEW store, NEW a \in Versions, announced <= a, StoreFor(store, a), Tick(store, a)
  PROVE  CacheStep(a) /\ RunStep(a)
<1>1. CASE run.at = "idle"
  BY <1>1, StartsRunFresh DEF Tick
<1>2. CASE run.at # "idle"
  BY <1>2, NoCacheStep, RunStays DEF Tick
<1> QED BY <1>1, <1>2

LEMMA RunGoesOnFresh ==
  ASSUME ReadsInv, RunGoesOn
  PROVE  CacheStep(announced) /\ RunStep(announced)
<1>0. announced \in Versions /\ StoreFor(entry, announced)
  BY DEF ReadsInv, ReadsTypeOK, StoreFor
<1>1. CASE dirty /\ subscribed # {}
  BY <1>0, <1>1, StartsRunFresh DEF RunGoesOn
<1>2. CASE ~(dirty /\ subscribed # {})
  <2>1. run' = [IdleRun EXCEPT !.at = "ending"] /\ UNCHANGED <<cacheVars, dirty>>
    BY <1>2 DEF RunGoesOn
  <2>2. CacheStep(announced)
    BY <1>0, <2>1, NoCacheStep DEF cacheVars
  <2>3. RunStep(announced)
    BY <2>1, ReadsAssumption DEF RunStep, RunRows, IdleRun, Versions, ReadsInv, ReadsTypeOK
  <2> QED BY <2>2, <2>3
<1> QED BY <1>1, <1>2

(* The invariant without the streams, after such a step.                   *)
LEMMA AfterStep ==
  ASSUME ReadsInv, announced' \in Versions, announced <= announced', version' \in Versions,
         announced' <= version', unpublished' \in Versions, unpublished' <= version',
         UNCHANGED reader,
         CacheStep(announced'), RunStep(announced'),
         subscribed' \subseteq Subscribers, timer' \in BOOLEAN, lastSent' \in Snapshots,
         got' \in [Subscribers -> Snapshots], owed' \in [Subscribers -> Versions], StreamsFresh'
  PROVE  ReadsInv'
<1>1. ReadsTypeOK'
  BY DEF ReadsTypeOK, ReadsInv, CacheStep, RunStep, LoadRows, RunRows
<1>2. StoreFresh'
  BY DEF CacheStep, StoreFresh, HasRead, IsRead
<1>3. RunFresh'
  BY DEF RunStep, RunFresh, HasRead, IsRead
<1>4. ReadersFresh'
  <2> SUFFICES ASSUME NEW r \in Readers, reader[r].waits
               PROVE  /\ reader[r].load \in Loads /\ reader[r].since <= announced'
                      /\ IsRead(load'[reader[r].load]) => load'[reader[r].load].value >= reader[r].since
    BY DEF ReadersFresh, HasRead, IsRead
  <2>1. /\ reader[r].load \in Loads /\ reader[r].since <= announced
        /\ IsRead(load[reader[r].load]) => load[reader[r].load].value >= reader[r].since
    BY DEF ReadsInv, ReadersFresh, HasRead, IsRead
  <2>2. load'[reader[r].load] = load[reader[r].load]
    BY DEF CacheStep
  <2>3. reader[r].since \in Int /\ announced \in Int /\ announced' \in Int
    BY DEF ReadsInv, ReadsTypeOK, Versions
  <2> QED BY <2>1, <2>2, <2>3
<1> QED BY <1>1, <1>2, <1>3, <1>4 DEF ReadsInv

LEMMA ReadsInvNext == ReadsInv /\ [ReadsNext]_readVars => ReadsInv'
<1> SUFFICES ASSUME ReadsInv, [ReadsNext]_readVars PROVE ReadsInv'
  OBVIOUS
<1>0. /\ announced \in Versions /\ version \in Versions /\ announced <= version
      /\ unpublished <= version /\ unpublished \in Versions /\ 0 \in Versions
      /\ \A a \in Versions : a \in Int /\ 0 <= a /\ a <= a
  BY ReadsAssumption DEF ReadsInv, ReadsTypeOK, Versions
<1>a. ASSUME UNCHANGED <<subscribed, timer, lastSent, got, owed>>
      PROVE  /\ subscribed' \subseteq Subscribers /\ timer' \in BOOLEAN /\ lastSent' \in Snapshots
             /\ got' \in [Subscribers -> Snapshots] /\ owed' \in [Subscribers -> Versions]
             /\ StreamsFresh'
  BY <1>a DEF ReadsInv, ReadsTypeOK, StreamsFresh
<1>b. StoreFor(entry, announced) /\ \A a : StoreFor(Invalidate, a)
  BY DEF StoreFor
<1>1. ASSUME NEW l \in Loads, LoadReads(l) \/ LoadSettles(l) \/ LoadFails(l) PROVE ReadsInv'
  <2>1. UNCHANGED <<version, unpublished, announced, reader, streamVars>>
    BY <1>1 DEF LoadReads, LoadSettles, LoadFails
  <2>2. load' \in [Loads -> LoadRows] /\ \A j \in Loads : j # l => load'[j] = load[j]
    BY <1>0, <1>1 DEF LoadReads, LoadSettles, LoadFails, LoadRows, ReadsInv, ReadsTypeOK
  <2>3. IsRead(load'[l]) => \/ load'[l].value = version
                            \/ IsRead(load[l]) /\ load'[l].value = load[l].value
    <3>1. CASE LoadReads(l)
      BY <3>1 DEF LoadReads, ReadsInv, ReadsTypeOK
    <3>2. CASE LoadSettles(l)
      BY <3>2 DEF LoadSettles, ReadsInv, ReadsTypeOK, IsRead
    <3>3. CASE LoadFails(l)
      BY <3>3 DEF LoadFails, ReadsInv, ReadsTypeOK, IsRead
    <3> QED BY <1>1, <3>1, <3>2, <3>3
  <2>4. /\ entry' \in [Keys -> Loads \cup {NoLoad}]
        /\ \A k \in Keys : entry'[k] # NoLoad => entry'[k] = entry[k]
    BY <1>1 DEF LoadReads, LoadSettles, LoadFails, ReadsInv, ReadsTypeOK
  <2>5. ASSUME NEW j \in Loads, IsRead(load'[j])
        PROVE  load'[j].value = version \/ (IsRead(load[j]) /\ load'[j].value = load[j].value)
    <3>1. CASE j = l  BY <2>3, <2>5, <3>1
    <3>2. CASE j # l  BY <2>2, <2>5, <3>2
    <3> QED BY <3>1, <3>2
  <2>6. ReadsTypeOK'
    BY <2>1, <2>2, <2>4 DEF ReadsInv, ReadsTypeOK, LoadRows, streamVars
  <2>7. StoreFresh'
    <3> SUFFICES ASSUME NEW k \in Keys, entry'[k] # NoLoad, IsRead(load'[entry'[k]])
                 PROVE  load'[entry'[k]].value >= announced
      BY <2>1 DEF StoreFresh, HasRead, IsRead
    <3>1. entry'[k] = entry[k] /\ entry[k] \in Loads
      BY <2>4
    <3>2. IsRead(load[entry[k]]) => load[entry[k]].value >= announced
      BY <3>1, ReadsAssumption DEF ReadsInv, StoreFresh, HasRead, IsRead
    <3> QED BY <1>0, <2>5, <3>1, <3>2
  <2>8. ReadersFresh'
    <3> SUFFICES ASSUME NEW r \in Readers, reader[r].waits
                 PROVE  /\ reader[r].load \in Loads /\ reader[r].since <= announced
                        /\ IsRead(load'[reader[r].load]) => load'[reader[r].load].value >= reader[r].since
      BY <2>1 DEF ReadersFresh, HasRead, IsRead
    <3>1. /\ reader[r].load \in Loads /\ reader[r].since <= announced
          /\ IsRead(load[reader[r].load]) => load[reader[r].load].value >= reader[r].since
      BY DEF ReadsInv, ReadersFresh, HasRead, IsRead
    <3>2. reader[r].since \in Versions
      BY DEF ReadsInv, ReadsTypeOK
    <3> QED BY <1>0, <2>5, <3>1, <3>2
  <2>9. RunFresh'
    <3> SUFFICES ASSUME run.at \in {"live", "state"}
                 PROVE  /\ run.load \in Loads /\ run.since <= announced
                        /\ IsRead(load'[run.load]) => load'[run.load].value >= run.since
                        /\ run.at = "state" => run.live >= run.since
      BY <2>1 DEF RunFresh, HasRead, IsRead, streamVars
    <3>1. /\ run.load \in Loads /\ run.since <= announced
          /\ IsRead(load[run.load]) => load[run.load].value >= run.since
          /\ run.at = "state" => run.live >= run.since
      BY DEF ReadsInv, RunFresh, HasRead, IsRead
    <3>2. run.since \in Versions
      BY DEF ReadsInv, ReadsTypeOK
    <3> QED BY <1>0, <2>5, <3>1, <3>2
  <2> QED BY <1>a, <2>1, <2>6, <2>7, <2>8, <2>9 DEF ReadsInv, streamVars
<1>2. ASSUME NEW k \in Keys, EntryLeaves(k) PROVE ReadsInv'
  <2>1. /\ entry' = [entry EXCEPT ![k] = NoLoad]
        /\ UNCHANGED <<version, unpublished, announced, load, reader, streamVars>>
    BY <1>2 DEF EntryLeaves
  <2>2. entry' \in [Keys -> Loads \cup {NoLoad}] /\ \A i \in Keys : entry'[i] # NoLoad => entry'[i] = entry[i]
    BY <2>1 DEF ReadsInv, ReadsTypeOK
  <2> QED BY <2>1, <2>2 DEF ReadsInv, ReadsTypeOK, StoreFresh, ReadersFresh, RunFresh, StreamsFresh,
                          HasRead, streamVars
<1>3. ASSUME NEW r \in Readers, ReaderAnswers(r) PROVE ReadsInv'
  <2>1. /\ reader' = [reader EXCEPT ![r] = IdleReader]
        /\ UNCHANGED <<version, unpublished, announced, cacheVars, streamVars>>
    BY <1>3 DEF ReaderAnswers
  <2>2. IdleReader \in [waits : BOOLEAN, load : Loads \cup {NoLoad}, since : Versions]
    BY <1>0 DEF IdleReader
  <2>3. ReadsTypeOK'
    BY <2>1, <2>2 DEF ReadsInv, ReadsTypeOK, cacheVars, streamVars
  <2>4. \A q \in Readers : reader'[q].waits => reader'[q] = reader[q]
    BY <2>1 DEF ReadsInv, ReadsTypeOK, IdleReader
  <2>5. ReadersFresh'
    BY <2>1, <2>4 DEF ReadsInv, ReadersFresh, HasRead, cacheVars
  <2> QED BY <2>1, <2>3, <2>5 DEF ReadsInv, StoreFresh, RunFresh, StreamsFresh, HasRead, cacheVars, streamVars
<1>4. ASSUME NEW r \in Readers, NEW k \in Keys, ReaderAsks(r, k) PROVE ReadsInv'
  <2>1. PICK l \in Loads :
          /\ Cached(entry, k, l)
          /\ reader' = [reader EXCEPT ![r] = [waits |-> TRUE, load |-> l, since |-> announced]]
    BY <1>4 DEF ReaderAsks
  <2>2. ~reader[r].waits /\ UNCHANGED <<version, unpublished, announced, streamVars>>
    BY <1>4 DEF ReaderAsks
  <2>3. /\ CacheStep(announced)
        /\ IsRead(load'[l]) => load'[l].value >= announced
        /\ run.at \in {"live", "state"} => load'[run.load] = load[run.load]
    BY <1>0, <1>b, <2>1, CachedFresh
  <2>4. [waits |-> TRUE, load |-> l, since |-> announced]
          \in [waits : BOOLEAN, load : Loads \cup {NoLoad}, since : Versions]
    BY <1>0
  <2>5. ReadsTypeOK'
    BY <2>1, <2>2, <2>3, <2>4 DEF ReadsInv, ReadsTypeOK, CacheStep, LoadRows, streamVars
  <2>6. StoreFresh' /\ RunFresh'
    BY <2>2, <2>3 DEF ReadsInv, StoreFresh, RunFresh, CacheStep, HasRead, IsRead, streamVars
  <2>7. ReadersFresh'
    <3>1. \A q \in Readers : q # r => reader'[q] = reader[q]
      BY <2>1 DEF ReadsInv, ReadsTypeOK
    <3>2. reader'[r] = [waits |-> TRUE, load |-> l, since |-> announced]
      BY <2>1 DEF ReadsInv, ReadsTypeOK
    <3>3. \A q \in Readers : q # r /\ reader[q].waits => load'[reader[q].load] = load[reader[q].load]
      BY <2>3 DEF CacheStep
    <3> QED BY <1>0, <2>2, <2>3, <3>1, <3>2, <3>3 DEF ReadsInv, ReadersFresh, HasRead, IsRead
  <2> QED BY <1>0, <1>a, <2>2, <2>5, <2>6, <2>7 DEF ReadsInv, streamVars
<1>5. ASSUME NEW s \in Subscribers, Subscribe(s) PROVE ReadsInv'
  <2>1. /\ s \notin subscribed /\ subscribed' = subscribed \cup {s} /\ timer' = TRUE
        /\ got' = [got EXCEPT ![s] = lastSent]
        /\ UNCHANGED <<version, unpublished, announced, reader, lastSent, owed>>
    BY <1>5 DEF Subscribe
  <2>2. CacheStep(announced) /\ RunStep(announced)
    <3>1. CASE lastSent = NoSnapshot
      BY <1>0, <1>5, <1>b, <3>1, TickFresh DEF Subscribe
    <3>2. CASE lastSent # NoSnapshot
      <4>1. UNCHANGED <<cacheVars, run, dirty>>
        BY <1>5, <3>2 DEF Subscribe
      <4>2. dirty' \in BOOLEAN
        BY <4>1 DEF ReadsInv, ReadsTypeOK
      <4> QED BY <1>0, <1>b, <4>1, <4>2, NoCacheStep, RunStays DEF cacheVars
    <3> QED BY <3>1, <3>2
  <2>3. subscribed' \subseteq Subscribers /\ got' \in [Subscribers -> Snapshots]
    BY <2>1 DEF ReadsInv, ReadsTypeOK
  <2>4. got'[s] = lastSent /\ owed[s] = 0 /\ lastSent.live >= 0 /\ lastSent.state >= 0
    BY <1>0, <2>1 DEF ReadsInv, ReadsTypeOK, StreamsFresh, Snapshots
  <2>5. \A t \in Subscribers : t # s => got'[t] = got[t] /\ (t \in subscribed' <=> t \in subscribed)
    BY <2>1 DEF ReadsInv, ReadsTypeOK
  <2>6. StreamsFresh'
    <3> SUFFICES ASSUME NEW t \in Subscribers
                 PROVE  /\ t \in subscribed' => /\ got'[t] = lastSent /\ got'[t].live >= owed[t]
                                                /\ got'[t].state >= owed[t]
                        /\ t \notin subscribed' => owed[t] = 0
      BY <2>1 DEF StreamsFresh
    <3>1. CASE t = s  BY <2>1, <2>4, <3>1
    <3>2. CASE t # s  BY <2>5, <3>2 DEF ReadsInv, StreamsFresh
    <3> QED BY <3>1, <3>2
  <2>7. lastSent' \in Snapshots /\ owed' \in [Subscribers -> Versions] /\ timer' \in BOOLEAN
    BY <2>1 DEF ReadsInv, ReadsTypeOK
  <2> QED BY <1>0, <2>1, <2>2, <2>3, <2>6, <2>7, AfterStep
<1>6. ASSUME NEW s \in Subscribers, Unsubscribe(s) PROVE ReadsInv'
  <2>1. /\ subscribed' = subscribed \ {s} /\ timer' = (timer /\ subscribed' # {})
        /\ lastSent' = IF subscribed' = {} THEN NoSnapshot ELSE lastSent
        /\ got' = [got EXCEPT ![s] = NoSnapshot] /\ owed' = [owed EXCEPT ![s] = 0]
        /\ UNCHANGED <<version, unpublished, announced, cacheVars, reader, run, dirty>>
    BY <1>6 DEF Unsubscribe
  <2>2. NoSnapshot \in Snapshots
    BY <1>0 DEF NoSnapshot, Snapshots
  <2>3. /\ subscribed' \subseteq Subscribers /\ lastSent' \in Snapshots
        /\ got' \in [Subscribers -> Snapshots] /\ owed' \in [Subscribers -> Versions]
    BY <1>0, <2>1, <2>2 DEF ReadsInv, ReadsTypeOK
  <2>4. timer' \in BOOLEAN
    BY <2>1
  <2>5. ReadsTypeOK'
    BY <2>1, <2>3, <2>4 DEF ReadsInv, ReadsTypeOK, cacheVars
  <2>6. \A t \in Subscribers : t # s => got'[t] = got[t] /\ owed'[t] = owed[t] /\ (t \in subscribed' <=> t \in subscribed)
    BY <2>1 DEF ReadsInv, ReadsTypeOK
  <2>7. owed'[s] = 0 /\ s \notin subscribed' /\ (subscribed' # {} => lastSent' = lastSent)
    BY <2>1 DEF ReadsInv, ReadsTypeOK
  <2>8. StreamsFresh'
    BY <2>6, <2>7 DEF ReadsInv, StreamsFresh
  <2> QED BY <2>1, <2>5, <2>8 DEF ReadsInv, StoreFresh, ReadersFresh, RunFresh, HasRead, cacheVars
<1>7. CASE TimerFires
  BY <1>0, <1>7, <1>a, <1>b, TickFresh, AfterStep DEF TimerFires
<1>8. CASE RunHasId
  <2>1. PICK l \in Loads : /\ Cached(entry, "state", l)
                           /\ run' = [run EXCEPT !.at = "state", !.load = l, !.live = load[run.load].value]
    BY <1>8 DEF RunHasId
  <2>2. /\ run.at = "live" /\ load[run.load].at = "done"
        /\ UNCHANGED <<version, unpublished, announced, reader, subscribed, timer, lastSent, dirty, got, owed>>
    BY <1>8 DEF RunHasId
  <2>3. CacheStep(announced) /\ (IsRead(load'[l]) => load'[l].value >= announced)
    BY <1>0, <1>b, <2>1, CachedFresh DEF Keys
  <2>4. /\ run.load \in Loads /\ run.since <= announced /\ load[run.load].value >= run.since
        /\ run \in RunRows /\ load[run.load].value \in Versions /\ run.since \in Versions
    BY <2>2 DEF ReadsInv, RunFresh, HasRead, ReadsTypeOK, RunRows
  <2>5. /\ run'.at = "state" /\ run'.load = l /\ run'.since = run.since
        /\ run'.live = load[run.load].value /\ run' \in RunRows
    BY <2>1, <2>4 DEF RunRows
  <2>6. IsRead(load'[l]) => load'[l].value >= run.since
    <3>1. load'[l].value \in Versions
      BY <2>3 DEF CacheStep, LoadRows
    <3> QED BY <1>0, <2>3, <2>4, <3>1
  <2>7. dirty' \in BOOLEAN
    BY <2>2 DEF ReadsInv, ReadsTypeOK
  <2>8. RunStep(announced)
    BY <2>4, <2>5, <2>6, <2>7 DEF RunStep
  <2> QED BY <1>0, <1>a, <2>2, <2>3, <2>8, AfterStep
<1>9. CASE RunSends
  <2> DEFINE snapshot == [live |-> run.live, state |-> load[run.load].value]
  <2>1. /\ run.at = "state" /\ load[run.load].at = "done" /\ RunGoesOn
        /\ IF subscribed = {} \/ snapshot = lastSent
           THEN UNCHANGED <<lastSent, got>>
           ELSE /\ lastSent' = snapshot
                /\ got' = [s \in Subscribers |-> IF s \in subscribed THEN snapshot ELSE got[s]]
        /\ owed' = [s \in Subscribers |-> IF s \in subscribed THEN run.since ELSE owed[s]]
        /\ UNCHANGED <<version, unpublished, announced, reader, subscribed, timer>>
    BY <1>9 DEF RunSends
  <2>2. CacheStep(announced) /\ RunStep(announced)
    BY <2>1, RunGoesOnFresh
  <2>3. /\ snapshot \in Snapshots /\ snapshot.live >= run.since /\ snapshot.state >= run.since
        /\ run.since \in Versions
    BY <2>1 DEF ReadsInv, ReadsTypeOK, RunFresh, HasRead, Snapshots
  <2> HIDE DEF snapshot
  <2>4. /\ lastSent' \in Snapshots /\ got' \in [Subscribers -> Snapshots]
        /\ owed' \in [Subscribers -> Versions] /\ timer' \in BOOLEAN /\ subscribed' \subseteq Subscribers
    BY <2>1, <2>3 DEF ReadsInv, ReadsTypeOK
  <2>5. \A s \in subscribed : s \in Subscribers /\ got'[s] = lastSent' /\ got'[s] = snapshot /\ owed'[s] = run.since
    <3>1. subscribed \subseteq Subscribers
      BY DEF ReadsInv, ReadsTypeOK
    <3>2. \A s \in subscribed : got[s] = lastSent
      BY <3>1 DEF ReadsInv, StreamsFresh
    <3> QED BY <2>1, <3>1, <3>2
  <2>6. \A s \in Subscribers : s \notin subscribed => owed'[s] = owed[s]
    BY <2>1
  <2>7. StreamsFresh'
    BY <2>1, <2>3, <2>5, <2>6 DEF ReadsInv, StreamsFresh
  <2> QED BY <1>0, <2>1, <2>2, <2>4, <2>7, AfterStep
<1>10. CASE RunFails
  BY <1>0, <1>10, <1>a, RunGoesOnFresh, AfterStep DEF RunFails
<1>11. CASE RunSettles
  <2>1. /\ run' = IdleRun
        /\ UNCHANGED <<version, unpublished, announced, cacheVars, reader, subscribed, timer, lastSent,
                       dirty, got, owed>>
    BY <1>11 DEF RunSettles
  <2>2. run' \in RunRows /\ dirty' \in BOOLEAN /\ run'.at = "idle"
    BY <1>0, <2>1 DEF IdleRun, RunRows, ReadsInv, ReadsTypeOK
  <2>3. CacheStep(announced)
    BY <1>0, <1>b, <2>1, NoCacheStep DEF cacheVars
  <2>4. RunStep(announced)
    BY <2>2 DEF RunStep
  <2> QED BY <1>0, <1>a, <2>1, <2>3, <2>4, AfterStep
<1>12. CASE Commit
  <2>1. /\ version < MaxVersion /\ version' = version + 1 /\ unpublished' = unpublished + 1
        /\ UNCHANGED <<announced, cacheVars, reader, streamVars>>
    BY <1>12 DEF Commit
  <2>2. /\ version' \in Versions /\ announced <= version'
        /\ unpublished' \in Versions /\ unpublished' <= version'
    BY <1>0, <2>1, ReadsAssumption DEF Versions
  <2> QED BY <2>1, <2>2 DEF cacheVars, streamVars, ReadsInv, ReadsTypeOK, StoreFresh, ReadersFresh,
                          RunFresh, StreamsFresh, HasRead
<1>13. CASE PublishAuctionChange
  <2>1. /\ unpublished > 0 /\ unpublished' = unpublished - 1 /\ announced' = version
        /\ UNCHANGED <<version, reader, subscribed, timer, lastSent, got, owed>>
    BY <1>13 DEF PublishAuctionChange
  <2>2. CacheStep(version) /\ RunStep(version)
    <3>1. CASE subscribed # {}
      BY <1>0, <1>13, <1>b, <3>1, TickFresh DEF PublishAuctionChange
    <3>2. CASE subscribed = {}
      <4>1. entry' = Invalidate /\ UNCHANGED <<load, run, dirty>>
        BY <1>13, <3>2 DEF PublishAuctionChange
      <4>2. dirty' \in BOOLEAN
        BY <4>1 DEF ReadsInv, ReadsTypeOK
      <4> QED BY <1>0, <1>b, <4>1, <4>2, NoCacheStep, RunStays
    <3> QED BY <3>1, <3>2
  <2>3. unpublished' \in Versions /\ unpublished' <= version'
    BY <1>0, <2>1, ReadsAssumption DEF Versions
  <2> QED BY <1>0, <1>a, <2>1, <2>2, <2>3, AfterStep
<1>14. CASE UNCHANGED readVars
  BY <1>14 DEF readVars, cacheVars, streamVars, ReadsInv, ReadsTypeOK, StoreFresh, ReadersFresh, RunFresh,
               StreamsFresh, HasRead
<1> QED BY <1>1, <1>2, <1>3, <1>4, <1>5, <1>6, <1>7, <1>8, <1>9, <1>10, <1>11, <1>12, <1>13, <1>14
        DEF ReadsNext

LEMMA ReadsInvInit == ReadsInit => ReadsInv
<1> SUFFICES ASSUME ReadsInit PROVE ReadsInv
  OBVIOUS
<1>1. 0 \in Versions /\ 1 \in Versions
  BY ReadsAssumption DEF Versions
<1>2. ReadsTypeOK
  BY <1>1 DEF ReadsInit, ReadsTypeOK, NoSnapshot, Snapshots, IdleReader, IdleRun
<1>3. StoreFresh /\ ReadersFresh /\ RunFresh
  BY DEF ReadsInit, StoreFresh, ReadersFresh, RunFresh, IdleReader, IdleRun
<1>4. StreamsFresh
  BY DEF ReadsInit, StreamsFresh
<1> QED BY <1>2, <1>3, <1>4 DEF ReadsInit, ReadsInv

(* The cache and the broadcaster keep their types.                         *)
THEOREM ReadsTypeCorrect == ReadsSpec => []ReadsTypeOK
<1>1. ReadsInv => ReadsTypeOK  BY DEF ReadsInv
<1> QED BY <1>1, ReadsInvInit, ReadsInvNext, PTL DEF ReadsSpec

(* For any number of readers, streams and loads: nothing older than what   *)
(* was announced before it was asked for.                                  *)
THEOREM ReadsAlwaysFresh == ReadsSpec => []FreshReads
<1>1. ReadsInv => FreshReads
  BY DEF ReadsInv, ReadsTypeOK, FreshReads, ReadersFresh, StreamsFresh, HasRead
<1> QED BY <1>1, ReadsInvInit, ReadsInvNext, PTL DEF ReadsSpec

(***************************************************************************)
(* Products.  A step either leaves the requests of the team alone, or      *)
(* turns one of them, or (a restart) makes all of them idle.               *)
(***************************************************************************)

LEMMA IdleIsHand == IdleHand \in HandRows
  BY DEF IdleHand, HandRows, NoCache, CacheRows

Statuses == {"", "REQUESTED", "APPROVED", "REJECTED"}

LEMMA HandFields ==
  ASSUME NEW row \in HandRows
  PROVE  /\ row.page \in Pages \cup {NoPage} /\ row.submit \in BOOLEAN
         /\ row.seen \in Statuses /\ row.before \in CacheRows
         /\ row.force \in BOOLEAN /\ row.owes \in BOOLEAN
         /\ row.tries \in Nat /\ row.counted \in Nat
  BY DEF HandRows, Statuses

LEMMA ProductFields ==
  ASSUME NEW row \in ProductRows
  PROVE  /\ row.page \in Pages \cup {NoPage} /\ row.quality \in Pages \cup {NoPage}
         /\ row.submitted \in BOOLEAN /\ row.featured \in BOOLEAN /\ row.recheckUsed \in BOOLEAN
         /\ row.showcase \in Statuses /\ row.live \in Publications
  BY DEF ProductRows, Statuses

(* The writes keep a row a row.                                            *)
LEMMA ProductChanges ==
  ASSUME NEW row \in ProductRows, NEW b \in BOOLEAN, NEW s \in Statuses
  PROVE  /\ [row EXCEPT !.showcase = s] \in ProductRows
         /\ [row EXCEPT !.showcase = s, !.featured = b] \in ProductRows
         /\ [row EXCEPT !.submitted = b, !.showcase = s] \in ProductRows
  BY DEF ProductRows, Statuses

LEMMA FlagChanges ==
  ASSUME NEW row \in ProductRows
  PROVE  /\ [row EXCEPT !.recheckUsed = TRUE] \in ProductRows
         /\ [row EXCEPT !.recheckUsed = FALSE] \in ProductRows
         /\ [row EXCEPT !.featured = TRUE] \in ProductRows
         /\ [row EXCEPT !.featured = FALSE] \in ProductRows
  BY DEF ProductRows

LEMMA PageChanges ==
  ASSUME NEW row \in ProductRows, NEW page \in Pages \cup {NoPage}, NEW b \in BOOLEAN
  PROVE  /\ [row EXCEPT !.page = page, !.submitted = b] \in ProductRows
         /\ [row EXCEPT !.quality = page] \in ProductRows
  BY DEF ProductRows

LEMMA LiveChanges ==
  ASSUME NEW row \in ProductRows, NEW to \in Publications
  PROVE  [row EXCEPT !.live = to] \in ProductRows
  BY DEF ProductRows

LEMMA HandsTurn ==
  ASSUME ProductsTypeOK, NEW h \in Hands, NEW to \in HandRows, HandTurns(h, to)
  PROVE  /\ hand' \in [Hands -> HandRows]
         /\ hand'[h] = to
         /\ \A g \in Hands : g # h => hand'[g] = hand[g]
  BY DEF ProductsTypeOK, HandTurns

LEMMA HandsEnd ==
  ASSUME ProductsTypeOK, NEW h \in Hands, HandEnds(h)
  PROVE  /\ hand' \in [Hands -> HandRows]
         /\ hand'[h] = IdleHand
         /\ \A g \in Hands : g # h => hand'[g] = hand[g]
  BY IdleIsHand, HandsTurn DEF HandEnds

(* Without an answer of the AI a request turns, and keeps what it knows.   *)
LEMMA HandUnanswered ==
  ASSUME ProductsTypeOK, NEW h \in Hands, Unanswered(h)
  PROVE  /\ hand' \in [Hands -> HandRows]
         /\ hand'[h] = [hand[h] EXCEPT !.at = IF hand[h].force THEN "reset" ELSE "after"]
         /\ \A g \in Hands : g # h => hand'[g] = hand[g]
<1>1. [hand[h] EXCEPT !.at = IF hand[h].force THEN "reset" ELSE "after"] \in HandRows
  BY ZenonT(40) DEF ProductsTypeOK, HandRows
<1> QED BY <1>1, HandsTurn DEF Unanswered

LEMMA CountTurns ==
  ASSUME NEW row \in HandRows, NEW n \in Nat, NEW c \in Nat
  PROVE  /\ [row EXCEPT !.at = "swap", !.tries = n, !.counted = c] \in HandRows
         /\ [row EXCEPT !.at = "swap", !.tries = n, !.counted = c].at = "swap"
         /\ [row EXCEPT !.at = "swap", !.tries = n, !.counted = c].owes = row.owes
         /\ [row EXCEPT !.at = "swap", !.tries = n, !.counted = c].force = row.force
         /\ [row EXCEPT !.at = "swap", !.tries = n, !.counted = c].before = row.before
  BY DEF HandRows

(* A request that fails ends, or goes on without an answer.                *)
LEMMA HandThrown ==
  ASSUME ProductsTypeOK, NEW h \in Hands, HandThrows(h)
  PROVE  \E to \in HandRows :
           /\ HandTurns(h, to)
           /\ to.owes = FALSE /\ to.force = FALSE
           /\ \/ to.at = "idle" /\ to.before.at = 0
              \/ to.at = "after" /\ to.before = hand[h].before /\ Evaluating(h)
<1>1. CASE Evaluating(h)
  <2> DEFINE to == [hand[h] EXCEPT !.at = "after", !.owes = FALSE]
  <2>1. hand[h] \in HandRows /\ hand[h].force = FALSE
    BY <1>1, HandFields DEF ProductsTypeOK, Evaluating
  <2>2. /\ to \in HandRows /\ to.at = "after" /\ to.owes = FALSE /\ to.force = FALSE
        /\ to.before = hand[h].before
    BY <2>1 DEF HandRows
  <2>3. HandTurns(h, to)
    BY <1>1 DEF HandThrows
  <2> HIDE DEF to
  <2> QED BY <1>1, <2>2, <2>3
<1>2. CASE ~Evaluating(h)
  <2>1. /\ IdleHand.at = "idle" /\ IdleHand.owes = FALSE /\ IdleHand.force = FALSE
        /\ IdleHand.before.at = 0
    BY DEF IdleHand, NoCache
  <2> QED BY <1>2, <2>1, IdleIsHand DEF HandThrows, HandEnds
<1> QED BY <1>1, <1>2

LEMMA OwedCounts ==
  /\ Owed \subseteq Hands /\ IsFiniteSet(Owed) /\ Cardinality(Owed) \in Nat
  /\ Cardinality(Hands) \in Nat
  /\ \A h \in Hands : Owes(h) \in Nat
<1>1. Owed \subseteq Hands
  BY DEF Owed
<1>2. IsFiniteSet(Hands) /\ IsFiniteSet(Owed)
  BY <1>1, ProductsAssumption, FS_Subset
<1> QED BY <1>1, <1>2, FS_CardinalityType DEF Owes

LEMMA ProductsTypeOKNext == ProductsTypeOK /\ [ProductsNext]_productVars => ProductsTypeOK'
<1> SUFFICES ASSUME ProductsTypeOK, [ProductsNext]_productVars PROVE ProductsTypeOK'
  OBVIOUS
<1> USE ProductsAssumption DEF productRows, curator, productModules, evals, reviews, lost, productHistory
<1>1. ASSUME NEW h \in Hands, NEW page \in Pages, NEW submit \in BOOLEAN,
             SaveProductReads(h, page, submit)
      PROVE  ProductsTypeOK'
  <2>1. [IdleHand EXCEPT !.at = "save", !.page = page, !.submit = submit] \in HandRows
    BY DEF IdleHand, HandRows, NoCache, CacheRows
  <2> QED BY <1>1, <2>1, HandsTurn DEF SaveProductReads, ProductsTypeOK
<1>2. ASSUME NEW h \in Hands, SaveProductTooSoon(h) PROVE ProductsTypeOK'
  BY <1>2, HandsEnd DEF SaveProductTooSoon, ProductsTypeOK
<1>3. ASSUME NEW h \in Hands, SaveProduct(h) PROVE ProductsTypeOK'
  <2>1. [IdleHand EXCEPT !.at = "eval"] \in HandRows
    BY DEF IdleHand, HandRows, NoCache, CacheRows
  <2>2. hand' \in [Hands -> HandRows]
    BY <1>3, <2>1, HandsTurn, HandsEnd DEF SaveProduct
  <2>3. hand[h].page \in Pages \cup {NoPage} /\ hand[h].submit \in BOOLEAN
    BY HandFields DEF ProductsTypeOK
  <2>4. product' \in ProductRows /\ overtaken' \in BOOLEAN /\ cooled' \in BOOLEAN
    BY <1>3, <2>3, PageChanges, ProductFields DEF SaveProduct, ProductsTypeOK
  <2> QED BY <1>3, <2>2, <2>3, <2>4 DEF SaveProduct, ProductsTypeOK
<1>4. ASSUME NEW h \in Hands, UnlockReads(h) PROVE ProductsTypeOK'
  <2>1. [IdleHand EXCEPT !.at = "unlock", !.seen = product.showcase] \in HandRows
    <3>1. product.showcase \in Statuses
      BY ProductFields DEF ProductsTypeOK
    <3> QED BY <3>1 DEF IdleHand, HandRows, NoCache, CacheRows, Statuses
  <2> QED BY <1>4, <2>1, HandsTurn DEF UnlockReads, ProductsTypeOK
<1>5. ASSUME NEW h \in Hands, UnlockWrites(h) PROVE ProductsTypeOK'
  <2>1. AfterUnlock(h) \in Statuses
    BY ProductFields DEF AfterUnlock, ProductsTypeOK, Statuses
  <2> QED BY ZenonT(60), <1>5, <2>1, HandsEnd, ProductChanges DEF UnlockWrites, ProductsTypeOK
<1>6. ASSUME NEW h \in Hands, EvalCounts(h) PROVE ProductsTypeOK'
  <2>1. [IdleHand EXCEPT !.at = "mark"] \in HandRows
    BY DEF IdleHand, HandRows, NoCache, CacheRows
  <2>2. hand' \in [Hands -> HandRows]
    BY <1>6, <2>1, HandsTurn, HandsEnd DEF EvalCounts
  <2> QED BY <1>6, <2>2 DEF EvalCounts, ProductsTypeOK
<1>7. ASSUME NEW h \in Hands, EvalMarks(h) PROVE ProductsTypeOK'
  <2>1. [IdleHand EXCEPT !.at = "read", !.before = juryCache] \in HandRows
    BY DEF IdleHand, HandRows, NoCache, ProductsTypeOK
  <2> QED BY <1>7, <2>1, HandsTurn DEF EvalMarks, ProductsTypeOK
<1>8. ASSUME NEW h \in Hands, EvalReads(h) PROVE ProductsTypeOK'
  <2>1. [hand[h] EXCEPT !.at = IF hand[h].force THEN "ask" ELSE "look",
                        !.page = product.page] \in HandRows
    <3>1. hand[h] \in HandRows /\ product.page \in Pages \cup {NoPage}
      BY ProductFields DEF ProductsTypeOK
    <3> QED BY <3>1 DEF HandRows
  <2>2. hand' \in [Hands -> HandRows]
    BY <1>8, <2>1, HandsTurn, HandUnanswered DEF EvalReads
  <2> QED BY <1>8, <2>2 DEF EvalReads, ProductsTypeOK
<1>9. ASSUME NEW h \in Hands, EvalLooks(h) PROVE ProductsTypeOK'
  <2>1. [hand[h] EXCEPT !.at = "ask"] \in HandRows
    BY ZenonT(40) DEF HandRows, ProductsTypeOK
  <2>2. hand' \in [Hands -> HandRows]
    BY <1>9, <2>1, HandsTurn, HandUnanswered DEF EvalLooks
  <2> QED BY <1>9, <2>2 DEF EvalLooks, ProductsTypeOK
<1>10. ASSUME NEW h \in Hands, AiFails(h) PROVE ProductsTypeOK'
  BY ZenonT(60), <1>10, HandUnanswered DEF AiFails, ProductsTypeOK
<1>11. ASSUME NEW h \in Hands, AiAnswers(h) PROVE ProductsTypeOK'
  <2>1. [hand[h] EXCEPT !.at = "store", !.owes = ~hand[h].force] \in HandRows
    <3>1. hand[h] \in HandRows
      BY DEF ProductsTypeOK
    <3> QED BY <3>1 DEF HandRows
  <2>2. hand' \in [Hands -> HandRows]
    BY <1>11, <2>1, HandsTurn DEF AiAnswers
  <2>3. hand[h].page \in Pages \cup {NoPage}
    BY HandFields DEF ProductsTypeOK
  <2>4. product' \in ProductRows
    <3>1. product' = [product EXCEPT !.quality = hand[h].page]
      BY <1>11 DEF AiAnswers
    <3> QED BY <2>3, <3>1, PageChanges DEF ProductsTypeOK
  <2>5. answers' \in Nat /\ rechecks' \in Nat /\ mixed' \in BOOLEAN
    BY <1>11 DEF AiAnswers, ProductsTypeOK
  <2> QED BY <1>11, <2>2, <2>4, <2>5 DEF AiAnswers, ProductsTypeOK
<1>12. ASSUME NEW h \in Hands, CacheStores(h) PROVE ProductsTypeOK'
  <2>1. [hand[h] EXCEPT !.at = "after"] \in HandRows
    BY ZenonT(40) DEF HandRows, ProductsTypeOK
  <2>2. hand' \in [Hands -> HandRows]
    BY <1>12, <2>1, HandsTurn, HandsEnd DEF CacheStores
  <2>3. hand[h].page \in Pages \cup {NoPage}
    BY HandFields DEF ProductsTypeOK
  <2> QED BY <1>12, <2>2, <2>3 DEF CacheStores, CacheRows, ProductsTypeOK
<1>13. ASSUME NEW h \in Hands, CapReads(h) PROVE ProductsTypeOK'
  <2>1. [IdleHand EXCEPT !.at = "count", !.owes = hand[h].owes] \in HandRows
    <3>1. hand[h].owes \in BOOLEAN
      BY HandFields DEF ProductsTypeOK
    <3> QED BY <3>1 DEF IdleHand, HandRows, NoCache, CacheRows
  <2>2. hand' \in [Hands -> HandRows]
    BY <1>13, <2>1, HandsTurn, HandsEnd DEF CapReads
  <2> QED BY <1>13, <2>2 DEF CapReads, ProductsTypeOK
<1>31. ASSUME NEW h \in Hands, CountReads(h) PROVE ProductsTypeOK'
  <2>1. hand[h] \in HandRows /\ evalCount \in Nat /\ hand[h].tries + 1 \in Nat
    BY HandFields DEF ProductsTypeOK
  <2>2. [hand[h] EXCEPT !.at = "swap", !.tries = hand[h].tries + 1, !.counted = evalCount]
        \in HandRows
    BY <2>1, CountTurns
  <2>3. hand' \in [Hands -> HandRows]
    BY <1>31, <2>2, HandsTurn DEF CountReads
  <2> QED BY <1>31, <2>3 DEF CountReads, ProductsTypeOK
<1>32. ASSUME NEW h \in Hands, CountSwaps(h) PROVE ProductsTypeOK'
  BY <1>32, HandsEnd DEF CountSwaps, ProductsTypeOK
<1>33. ASSUME NEW h \in Hands, CountMisses(h) PROVE ProductsTypeOK'
  <2>1. [hand[h] EXCEPT !.at = "count"] \in HandRows
    BY ZenonT(40) DEF HandRows, ProductsTypeOK
  <2> QED BY <1>33, <2>1, HandsTurn DEF CountMisses, ProductsTypeOK
<1>34. ASSUME NEW h \in Hands, CountGivesUp(h) PROVE ProductsTypeOK'
  <2>1. uncounted' \in Nat
    BY <1>34, OwedCounts DEF CountGivesUp, ProductsTypeOK
  <2> QED BY <1>34, <2>1, HandsEnd DEF CountGivesUp, ProductsTypeOK
<1>35. ASSUME NEW h \in Hands, HandThrows(h) PROVE ProductsTypeOK'
  <2>1. uncounted' \in Nat /\ mishaps' \in Nat
    BY <1>35, OwedCounts DEF HandThrows, ProductsTypeOK
  <2>2. burned' \in BOOLEAN /\ mixed' \in BOOLEAN /\ cooled' \in BOOLEAN
    BY ZenonT(40), <1>35 DEF HandThrows, ProductsTypeOK
  <2>3. hand' \in [Hands -> HandRows]
    BY <1>35, HandThrown, HandsTurn
  <2> QED BY <1>35, <2>1, <2>2, <2>3 DEF HandThrows, ProductsTypeOK
<1>36. CASE SetFeaturedThrows
  BY <1>36 DEF SetFeaturedThrows, ProductsTypeOK
<1>14. ASSUME NEW h \in Hands, RecheckClaims(h) PROVE ProductsTypeOK'
  <2>1. [IdleHand EXCEPT !.at = "read", !.force = TRUE] \in HandRows
    BY DEF IdleHand, HandRows, NoCache, CacheRows
  <2> QED BY <1>14, <2>1, HandsTurn, FlagChanges DEF RecheckClaims, ProductsTypeOK
<1>15. ASSUME NEW h \in Hands, RecheckResets(h) PROVE ProductsTypeOK'
  BY ZenonT(60), <1>15, HandsEnd, FlagChanges DEF RecheckResets, ProductsTypeOK
<1>16. ASSUME NEW h \in Hands, RequestShowcaseReads(h) PROVE ProductsTypeOK'
  <2>1. [IdleHand EXCEPT !.at = "show"] \in HandRows
    BY DEF IdleHand, HandRows, NoCache, CacheRows
  <2> QED BY <1>16, <2>1, HandsTurn DEF RequestShowcaseReads, ProductsTypeOK
<1>17. ASSUME NEW h \in Hands, RequestShowcase(h) PROVE ProductsTypeOK'
  BY ZenonT(40), <1>17, HandsEnd, ProductChanges DEF RequestShowcase, Statuses, ProductsTypeOK
<1>18. ASSUME NEW h \in Hands, RequestGoLiveReads(h) PROVE ProductsTypeOK'
  <2>1. [IdleHand EXCEPT !.at = "publish"] \in HandRows
    BY DEF IdleHand, HandRows, NoCache, CacheRows
  <2> QED BY <1>18, <2>1, HandsTurn DEF RequestGoLiveReads, ProductsTypeOK
<1>19. ASSUME NEW h \in Hands, RequestGoLive(h) PROVE ProductsTypeOK'
  BY ZenonT(40), <1>19, HandsEnd, LiveChanges DEF RequestGoLive, ProductsTypeOK, Publications, Published
<1>20. CASE WithdrawShowcase
  BY <1>20, ProductChanges DEF WithdrawShowcase, Statuses, Leaves, ProductsTypeOK
<1>21. CASE CancelGoLive
  BY ZenonT(40), <1>21, LiveChanges DEF CancelGoLive, CanCancel, ProductsTypeOK, Publications
<1>22. ASSUME NEW list \in {"showcase", "studio"}, PanelLoads(list) PROVE ProductsTypeOK'
  BY <1>22 DEF PanelLoads, Listed, ProductsTypeOK
<1>23. CASE ApproveShowcase
  BY <1>23, ProductChanges, ProductFields DEF ApproveShowcase, Statuses, UnlocksUnapproved, ProductsTypeOK
<1>24. CASE RejectShowcase
  BY <1>24, ProductChanges DEF RejectShowcase, Statuses, Leaves, ProductsTypeOK
<1>25. ASSUME NEW to \in {"on", "off"}, FeatureReads(to) PROVE ProductsTypeOK'
  BY <1>25 DEF FeatureReads, ProductsTypeOK
<1>26. CASE SetFeatured
  <2>1. product' = [product EXCEPT !.featured = TRUE] \/ product' = [product EXCEPT !.featured = FALSE]
    BY <1>26 DEF SetFeatured
  <2> QED BY <1>26, <2>1, FlagChanges DEF SetFeatured, ProductsTypeOK
<1>27. ASSUME NEW to \in Publications, AdminSetLiveStatus(to) PROVE ProductsTypeOK'
  BY <1>27, LiveChanges DEF AdminSetLiveStatus, ProductsTypeOK
<1>28. CASE SubmitCooldownEnds
  BY <1>28 DEF SubmitCooldownEnds, ProductsTypeOK
<1>29. CASE ProductsRestart
  <2>1. uncounted' \in Nat /\ mishaps' \in Nat
    BY <1>29, OwedCounts DEF ProductsRestart, ProductsTypeOK
  <2>2. burned' \in BOOLEAN /\ mixed' \in BOOLEAN
    BY ZenonT(40), <1>29 DEF ProductsRestart, ProductsTypeOK
  <2> QED BY <1>29, <2>1, <2>2, IdleIsHand DEF ProductsRestart, ProductsTypeOK
<1>30. CASE UNCHANGED productVars
  BY <1>30 DEF productVars, ProductsTypeOK
<1> QED BY <1>1, <1>2, <1>3, <1>4, <1>5, <1>6, <1>7, <1>8, <1>9, <1>10, <1>11, <1>12, <1>13,
           <1>14, <1>15, <1>16, <1>17, <1>18, <1>19, <1>20, <1>21, <1>22, <1>23, <1>24, <1>25,
           <1>26, <1>27, <1>28, <1>29, <1>30, <1>31, <1>32, <1>33, <1>34, <1>35, <1>36
        DEF ProductsNext, TeamStep, FeedbackStep, CuratorStep

(* An approval stands while the product is submitted, so it belongs to the *)
(* page; a pick under way belongs to a product of the showcase, and an     *)
(* unlock that read another status will not find it approved.              *)
ApprovalHolds ==
  /\ product.showcase = "APPROVED" => product.submitted /\ product.page = approved
  /\ product.featured \/ pick = "on" => product.showcase \in {"APPROVED", "REQUESTED"}
  /\ \A h \in Hands : HandAt(h, "unlock") /\ hand[h].seen # "APPROVED" =>
       product.showcase # "APPROVED"

DecisionsInv == (~overtaken => ApprovalHolds) /\ PublicationKept

LEMMA DecisionsFrame ==
  ASSUME DecisionsInv, UNCHANGED <<product, pick, approved, decided, overtaken, outrun>>,
         \A g \in Hands : hand'[g].at = "unlock" => hand'[g] = hand[g]
  PROVE  DecisionsInv'
  BY DEF DecisionsInv, ApprovalHolds, PublicationKept, HandAt

LEMMA HandGone ==
  ASSUME ProductsTypeOK, NEW h \in Hands, HandEnds(h)
  PROVE  \A g \in Hands : hand'[g].at = "unlock" => g # h /\ hand'[g] = hand[g]
<1>1. hand'[h] = IdleHand /\ \A g \in Hands : g # h => hand'[g] = hand[g]
  BY HandsEnd
<1>2. IdleHand.at = "idle"
  BY DEF IdleHand
<1> QED BY <1>1, <1>2

LEMMA DecisionsInvNext == ProductsTypeOK /\ DecisionsInv /\ [ProductsNext]_productVars => DecisionsInv'
<1> SUFFICES ASSUME ProductsTypeOK, DecisionsInv, [ProductsNext]_productVars PROVE DecisionsInv'
  OBVIOUS
<1> USE DEF productRows, curator, productModules, evals, reviews, lost, productHistory
<1>a. product \in ProductRows
  BY DEF ProductsTypeOK
<1>b. ASSUME NEW h \in Hands, NEW to \in HandRows, HandTurns(h, to), to.at # "unlock",
             UNCHANGED <<product, pick, approved, decided, overtaken, outrun>>
      PROVE  DecisionsInv'
  BY <1>b, HandsTurn, DecisionsFrame
<1>c. ASSUME NEW h \in Hands, HandEnds(h),
             UNCHANGED <<product, pick, approved, decided, overtaken, outrun>>
      PROVE  DecisionsInv'
  BY <1>b, <1>c, IdleIsHand DEF HandEnds, IdleHand
<1>d. ASSUME NEW h \in Hands, Unanswered(h),
             UNCHANGED <<product, pick, approved, decided, overtaken, outrun>>
      PROVE  DecisionsInv'
  <2>1. hand'[h].at # "unlock"
    BY ZenonT(40), <1>d, HandUnanswered DEF ProductsTypeOK, HandRows
  <2> QED BY <1>d, <2>1, HandUnanswered, DecisionsFrame
<1>1. ASSUME NEW h \in Hands, NEW page \in Pages, NEW submit \in BOOLEAN,
             SaveProductReads(h, page, submit)
      PROVE  DecisionsInv'
  <2>1. [IdleHand EXCEPT !.at = "save", !.page = page, !.submit = submit] \in HandRows
    BY DEF IdleHand, HandRows, NoCache, CacheRows
  <2> QED BY <1>1, <1>b, <2>1 DEF SaveProductReads, IdleHand
<1>2. ASSUME NEW h \in Hands, SaveProductTooSoon(h) PROVE DecisionsInv'
  BY <1>2, <1>c DEF SaveProductTooSoon
<1>3. ASSUME NEW h \in Hands, SaveProduct(h) PROVE DecisionsInv'
  <2>1. [IdleHand EXCEPT !.at = "eval"] \in HandRows
    BY DEF IdleHand, HandRows, NoCache, CacheRows
  <2>2. \A g \in Hands : hand'[g].at = "unlock" => hand'[g] = hand[g]
    BY <1>3, <2>1, HandsTurn, HandGone DEF SaveProduct, IdleHand
  <2>3. /\ product'.showcase = product.showcase /\ product'.featured = product.featured
        /\ product'.live = product.live
    BY <1>3, <1>a DEF SaveProduct, ProductRows
  <2>4. ~overtaken' => ~overtaken /\ ~product.submitted
    BY <1>3, <1>a, ProductFields DEF SaveProduct, ProductsTypeOK
  <2> QED BY <1>3, <2>2, <2>3, <2>4
          DEF SaveProduct, DecisionsInv, ApprovalHolds, PublicationKept, HandAt
<1>4. ASSUME NEW h \in Hands, UnlockReads(h) PROVE DecisionsInv'
  <2>1. [IdleHand EXCEPT !.at = "unlock", !.seen = product.showcase] \in HandRows
    BY <1>a, ProductFields DEF IdleHand, HandRows, NoCache, CacheRows, Statuses
  <2>2. hand'[h].seen = product.showcase /\ \A g \in Hands : g # h => hand'[g] = hand[g]
    BY ZenonT(80), <1>4, <2>1, HandsTurn DEF UnlockReads, IdleHand
  <2> QED BY <1>4, <2>2 DEF UnlockReads, DecisionsInv, ApprovalHolds, PublicationKept, HandAt
<1>5. ASSUME NEW h \in Hands, UnlockWrites(h) PROVE DecisionsInv'
  <2>1. \A g \in Hands : hand'[g].at = "unlock" => g # h /\ hand'[g] = hand[g]
    BY <1>5, HandGone DEF UnlockWrites
  <2>2. /\ product'.showcase = AfterUnlock(h) /\ product'.featured = product.featured
        /\ product'.live = product.live
    BY <1>5, <1>a DEF UnlockWrites, ProductRows
  <2>3. ~overtaken => AfterUnlock(h) # "APPROVED"
    BY <1>5 DEF UnlockWrites, AfterUnlock, DecisionsInv, ApprovalHolds
  <2>4. AfterUnlock(h) \in {product.showcase, "REQUESTED"}
    BY DEF AfterUnlock
  <2> QED BY <1>5, <2>1, <2>2, <2>3, <2>4
          DEF UnlockWrites, DecisionsInv, ApprovalHolds, PublicationKept, HandAt
<1>6. ASSUME NEW h \in Hands, EvalCounts(h) PROVE DecisionsInv'
  <2>1. [IdleHand EXCEPT !.at = "mark"] \in HandRows
    BY DEF IdleHand, HandRows, NoCache, CacheRows
  <2> QED BY <1>6, <1>b, <1>c, <2>1 DEF EvalCounts, IdleHand
<1>7. ASSUME NEW h \in Hands, EvalMarks(h) PROVE DecisionsInv'
  <2>1. [IdleHand EXCEPT !.at = "read", !.before = juryCache] \in HandRows
    BY DEF IdleHand, HandRows, NoCache, ProductsTypeOK
  <2> QED BY <1>7, <1>b, <2>1 DEF EvalMarks, IdleHand
<1>8. ASSUME NEW h \in Hands, EvalReads(h) PROVE DecisionsInv'
  <2> DEFINE to == [hand[h] EXCEPT !.at = IF hand[h].force THEN "ask" ELSE "look",
                                   !.page = product.page]
  <2>1. to \in HandRows /\ to.at # "unlock"
    <3>1. hand[h] \in HandRows /\ product.page \in Pages \cup {NoPage}
      BY ProductFields DEF ProductsTypeOK
    <3> QED BY <3>1 DEF HandRows
  <2>2. HandTurns(h, to) \/ Unanswered(h)
    BY <1>8 DEF EvalReads
  <2> HIDE DEF to
  <2> QED BY <1>8, <1>b, <1>d, <2>1, <2>2 DEF EvalReads
<1>9. ASSUME NEW h \in Hands, EvalLooks(h) PROVE DecisionsInv'
  <2>1. [hand[h] EXCEPT !.at = "ask"] \in HandRows /\ [hand[h] EXCEPT !.at = "ask"].at # "unlock"
    BY ZenonT(60) DEF HandRows, ProductsTypeOK
  <2> QED BY <1>9, <1>b, <1>d, <2>1 DEF EvalLooks
<1>10. ASSUME NEW h \in Hands, AiFails(h) PROVE DecisionsInv'
  BY <1>10, <1>d DEF AiFails
<1>11. ASSUME NEW h \in Hands, AiAnswers(h) PROVE DecisionsInv'
  <2>1. /\ [hand[h] EXCEPT !.at = "store", !.owes = ~hand[h].force] \in HandRows
        /\ [hand[h] EXCEPT !.at = "store", !.owes = ~hand[h].force].at # "unlock"
    <3>1. hand[h] \in HandRows
      BY DEF ProductsTypeOK
    <3> QED BY <3>1 DEF HandRows
  <2>2. \A g \in Hands : hand'[g].at = "unlock" => hand'[g] = hand[g]
    BY <1>11, <2>1, HandsTurn DEF AiAnswers
  <2>3. /\ product'.showcase = product.showcase /\ product'.featured = product.featured
        /\ product'.live = product.live /\ product'.page = product.page
        /\ product'.submitted = product.submitted
    BY <1>11, <1>a DEF AiAnswers, ProductRows
  <2> QED BY <1>11, <2>2, <2>3 DEF AiAnswers, DecisionsInv, ApprovalHolds, PublicationKept, HandAt
<1>12. ASSUME NEW h \in Hands, CacheStores(h) PROVE DecisionsInv'
  <2>1. /\ [hand[h] EXCEPT !.at = "after"] \in HandRows
        /\ [hand[h] EXCEPT !.at = "after"].at # "unlock"
    BY ZenonT(60) DEF HandRows, ProductsTypeOK
  <2> QED BY <1>12, <1>b, <1>c, <2>1 DEF CacheStores
<1>13. ASSUME NEW h \in Hands, CapReads(h) PROVE DecisionsInv'
  <2>1. [IdleHand EXCEPT !.at = "count", !.owes = hand[h].owes] \in HandRows
    <3>1. hand[h].owes \in BOOLEAN
      BY HandFields DEF ProductsTypeOK
    <3> QED BY <3>1 DEF IdleHand, HandRows, NoCache, CacheRows
  <2> QED BY <1>13, <1>b, <1>c, <2>1 DEF CapReads, IdleHand
<1>31. ASSUME NEW h \in Hands, CountReads(h) PROVE DecisionsInv'
  <2> DEFINE to == [hand[h] EXCEPT !.at = "swap", !.tries = hand[h].tries + 1, !.counted = evalCount]
  <2>1. hand[h] \in HandRows /\ evalCount \in Nat /\ hand[h].tries + 1 \in Nat
    BY HandFields DEF ProductsTypeOK
  <2>2. to \in HandRows /\ to.at = "swap"
    BY <2>1, CountTurns
  <2>3. HandTurns(h, to)
    BY <1>31 DEF CountReads
  <2> HIDE DEF to
  <2> QED BY <1>31, <1>b, <2>2, <2>3 DEF CountReads
<1>32. ASSUME NEW h \in Hands, CountSwaps(h) PROVE DecisionsInv'
  BY <1>32, <1>c DEF CountSwaps
<1>33. ASSUME NEW h \in Hands, CountMisses(h) PROVE DecisionsInv'
  <2>1. /\ [hand[h] EXCEPT !.at = "count"] \in HandRows
        /\ [hand[h] EXCEPT !.at = "count"].at # "unlock"
    BY ZenonT(60) DEF HandRows, ProductsTypeOK
  <2> QED BY <1>33, <1>b, <2>1 DEF CountMisses
<1>34. ASSUME NEW h \in Hands, CountGivesUp(h) PROVE DecisionsInv'
  BY <1>34, <1>c DEF CountGivesUp
<1>35. ASSUME NEW h \in Hands, HandThrows(h) PROVE DecisionsInv'
  <2>1. PICK to \in HandRows : HandTurns(h, to) /\ to.at \in {"idle", "after"}
    BY <1>35, HandThrown
  <2> QED BY <1>35, <1>b, <2>1 DEF HandThrows
<1>36. CASE SetFeaturedThrows
  BY <1>36 DEF SetFeaturedThrows, DecisionsInv, ApprovalHolds, PublicationKept, HandAt
<1>14. ASSUME NEW h \in Hands, RecheckClaims(h) PROVE DecisionsInv'
  <2>1. [IdleHand EXCEPT !.at = "read", !.force = TRUE] \in HandRows
    BY DEF IdleHand, HandRows, NoCache, CacheRows
  <2>2. \A g \in Hands : hand'[g].at = "unlock" => hand'[g] = hand[g]
    BY <1>14, <2>1, HandsTurn DEF RecheckClaims, IdleHand
  <2>3. /\ product'.showcase = product.showcase /\ product'.featured = product.featured
        /\ product'.live = product.live /\ product'.page = product.page
        /\ product'.submitted = product.submitted
    BY <1>14, <1>a DEF RecheckClaims, ProductRows
  <2> QED BY <1>14, <2>2, <2>3
          DEF RecheckClaims, DecisionsInv, ApprovalHolds, PublicationKept, HandAt
<1>15. ASSUME NEW h \in Hands, RecheckResets(h) PROVE DecisionsInv'
  <2>2. \A g \in Hands : hand'[g].at = "unlock" => hand'[g] = hand[g]
    BY <1>15, HandGone DEF RecheckResets
  <2>3. /\ product'.showcase = product.showcase /\ product'.featured = product.featured
        /\ product'.live = product.live /\ product'.page = product.page
        /\ product'.submitted = product.submitted
    BY <1>15, <1>a DEF RecheckResets, ProductRows
  <2> QED BY <1>15, <2>2, <2>3
          DEF RecheckResets, DecisionsInv, ApprovalHolds, PublicationKept, HandAt
<1>16. ASSUME NEW h \in Hands, RequestShowcaseReads(h) PROVE DecisionsInv'
  <2>1. [IdleHand EXCEPT !.at = "show"] \in HandRows
    BY DEF IdleHand, HandRows, NoCache, CacheRows
  <2> QED BY <1>16, <1>b, <2>1 DEF RequestShowcaseReads, IdleHand
<1>17. ASSUME NEW h \in Hands, RequestShowcase(h) PROVE DecisionsInv'
  <2>2. \A g \in Hands : hand'[g].at = "unlock" => hand'[g] = hand[g]
    BY <1>17, HandGone DEF RequestShowcase
  <2>3. /\ product'.showcase = "REQUESTED" /\ product'.live = product.live
    BY <1>17, <1>a DEF RequestShowcase, ProductRows
  <2> QED BY <1>17, <2>2, <2>3
          DEF RequestShowcase, DecisionsInv, ApprovalHolds, PublicationKept, HandAt
<1>18. ASSUME NEW h \in Hands, RequestGoLiveReads(h) PROVE DecisionsInv'
  <2>1. [IdleHand EXCEPT !.at = "publish"] \in HandRows
    BY DEF IdleHand, HandRows, NoCache, CacheRows
  <2> QED BY <1>18, <1>b, <2>1 DEF RequestGoLiveReads, IdleHand
<1>e. ASSUME NEW to \in Publications, product' = [product EXCEPT !.live = to],
             UNCHANGED <<pick, approved, overtaken>>,
             \A g \in Hands : hand'[g].at = "unlock" => hand'[g] = hand[g]
      PROVE  (~overtaken => ApprovalHolds)' /\ product'.live = to
  <2>1. /\ product'.showcase = product.showcase /\ product'.featured = product.featured
        /\ product'.live = to /\ product'.page = product.page
        /\ product'.submitted = product.submitted
    BY <1>e, <1>a DEF ProductRows
  <2> QED BY <1>e, <2>1 DEF DecisionsInv, ApprovalHolds, HandAt
<1>19. ASSUME NEW h \in Hands, RequestGoLive(h) PROVE DecisionsInv'
  <2>1. \A g \in Hands : hand'[g].at = "unlock" => hand'[g] = hand[g]
    BY <1>19, HandGone DEF RequestGoLive
  <2>2. (~overtaken => ApprovalHolds)' /\ product'.live = "REQUESTED"
    BY <1>19, <1>e, <2>1 DEF RequestGoLive, Publications
  <2> QED BY <1>19, <2>2 DEF RequestGoLive, DecisionsInv, PublicationKept
<1>20. CASE WithdrawShowcase
  <2>1. /\ product'.showcase = "" /\ ~product'.featured /\ product'.live = product.live
    BY <1>20, <1>a DEF WithdrawShowcase, ProductRows
  <2> QED BY <1>20, <2>1 DEF WithdrawShowcase, Leaves, DecisionsInv, ApprovalHolds, PublicationKept,
                             HandAt
<1>21. CASE CancelGoLive
  <2>1. (~overtaken => ApprovalHolds)' /\ product'.live = ""
    BY <1>21, <1>e DEF CancelGoLive, Publications
  <2> QED BY <1>21, <2>1 DEF CancelGoLive, CanCancel, DecisionsInv, PublicationKept, Published
<1>22. ASSUME NEW list \in {"showcase", "studio"}, PanelLoads(list) PROVE DecisionsInv'
  BY <1>22, DecisionsFrame DEF PanelLoads
<1>23. CASE ApproveShowcase
  <2>1. /\ product'.showcase = "APPROVED" /\ product'.live = product.live
        /\ product'.page = product.page /\ product'.submitted = product.submitted
    BY <1>23, <1>a DEF ApproveShowcase, ProductRows
  <2>2. ~overtaken' => /\ ~overtaken /\ product.submitted
                       /\ \A h \in Hands : HandAt(h, "unlock") => hand[h].seen = "APPROVED"
    BY <1>23, <1>a, ProductFields DEF ApproveShowcase, UnlocksUnapproved, ProductsTypeOK
  <2> QED BY <1>23, <2>1, <2>2 DEF ApproveShowcase, DecisionsInv, ApprovalHolds, PublicationKept,
                                   HandAt
<1>24. CASE RejectShowcase
  <2>1. /\ product'.showcase = "REJECTED" /\ ~product'.featured /\ product'.live = product.live
    BY <1>24, <1>a DEF RejectShowcase, ProductRows
  <2> QED BY <1>24, <2>1 DEF RejectShowcase, Leaves, DecisionsInv, ApprovalHolds, PublicationKept,
                             HandAt
<1>25. ASSUME NEW to \in {"on", "off"}, FeatureReads(to) PROVE DecisionsInv'
  BY <1>25 DEF FeatureReads, DecisionsInv, ApprovalHolds, PublicationKept, HandAt
<1>26. CASE SetFeatured
  <2>1. /\ product'.showcase = product.showcase /\ product'.featured => pick = "on"
        /\ product'.live = product.live /\ product'.page = product.page
        /\ product'.submitted = product.submitted
    BY <1>26, <1>a DEF SetFeatured, ProductRows
  <2> QED BY <1>26, <2>1 DEF SetFeatured, DecisionsInv, ApprovalHolds, PublicationKept, HandAt
<1>27. ASSUME NEW to \in Publications, AdminSetLiveStatus(to) PROVE DecisionsInv'
  <2>1. (~overtaken => ApprovalHolds)' /\ product'.live = to
    BY <1>27, <1>e DEF AdminSetLiveStatus
  <2> QED BY <1>27, <2>1 DEF AdminSetLiveStatus, DecisionsInv, PublicationKept
<1>28. CASE SubmitCooldownEnds
  BY <1>28, DecisionsFrame DEF SubmitCooldownEnds
<1>29. CASE ProductsRestart
  <2>1. \A g \in Hands : hand'[g].at # "unlock"
    BY <1>29 DEF ProductsRestart, IdleHand
  <2> QED BY <1>29, <2>1 DEF ProductsRestart, DecisionsInv, ApprovalHolds, PublicationKept, HandAt
<1>30. CASE UNCHANGED productVars
  BY <1>30, DecisionsFrame DEF productVars
<1> QED BY <1>1, <1>2, <1>3, <1>4, <1>5, <1>6, <1>7, <1>8, <1>9, <1>10, <1>11, <1>12, <1>13,
           <1>14, <1>15, <1>16, <1>17, <1>18, <1>19, <1>20, <1>21, <1>22, <1>23, <1>24, <1>25,
           <1>26, <1>27, <1>28, <1>29, <1>30, <1>31, <1>32, <1>33, <1>34, <1>35, <1>36
        DEF ProductsNext, TeamStep, FeedbackStep, CuratorStep

(* Every variable keeps its type.                                          *)
THEOREM ProductsTypeCorrect == ProductsSpec => []ProductsTypeOK
<1>1. ProductsInit => ProductsTypeOK
  <2> SUFFICES ASSUME ProductsInit PROVE ProductsTypeOK
    OBVIOUS
  <2>1. product \in ProductRows /\ juryCache \in CacheRows
    BY DEF ProductsInit, ProductRows, CacheRows, NoCache, Publications
  <2> QED BY <2>1, IdleIsHand DEF ProductsInit, ProductsTypeOK, Publications
<1> QED BY <1>1, ProductsTypeOKNext, PTL DEF ProductsSpec

(* What the showcase shows is what the organiser approved, and what the    *)
(* organiser published stays as the organiser set it, for any number of    *)
(* requests of the team and of pages.                                      *)
THEOREM DecisionsAlwaysStand == ProductsSpec => []DecisionsStand
<1>1. ProductsInit => DecisionsInv
  <2> SUFFICES ASSUME ProductsInit PROVE DecisionsInv
    OBVIOUS
  <2>1. \A h \in Hands : hand[h].at # "unlock"
    BY DEF ProductsInit, IdleHand, NoCache
  <2>2. ApprovalHolds
    BY <2>1 DEF ProductsInit, ApprovalHolds, HandAt
  <2>3. PublicationKept
    BY DEF ProductsInit, PublicationKept, Published
  <2> QED BY <2>2, <2>3 DEF DecisionsInv
<1>2. DecisionsInv => DecisionsStand
  BY DEF DecisionsInv, ApprovalHolds, DecisionsStand, ShownIsApproved
<1> QED BY <1>1, <1>2, DecisionsInvNext, ProductsTypeCorrect, PTL DEF ProductsSpec

(***************************************************************************)
(* The AI's feedback.                                                      *)
(***************************************************************************)

(* What a request knows: only an unforced one owes a count, for an answer  *)
(* that it stores or has stored, and then the cache is newer than what it  *)
(* remembers; only a recheck is reset.                                     *)
Fits(row) ==
  /\ row.owes => row.at \in {"store", "after", "count", "swap"} /\ ~row.force
  /\ row.force => row.at \in {"read", "ask", "store", "reset"}
  /\ row.at = "reset" => row.force
  /\ row.before.at <= juryCache.at
  /\ row.at = "after" /\ row.owes => row.before.at < juryCache.at

(* The requests that found room under the cap and may still be counted.    *)
MayCount(row) ==
  /\ row.at \in {"mark", "read", "look", "ask", "store", "after", "count", "swap"}
  /\ ~row.force
Going == {h \in Hands : MayCount(hand[h])}

HandsFit == \A h \in Hands : Fits(hand[h])
AnswersOwed == answers <= evalCount + Cardinality(Owed) + uncounted
CapNear == evalCount + Cardinality(Going) < EvalCap + Cardinality(Hands)

(* The one claim of a recheck: whoever holds it is alone, and an answer    *)
(* uses it up.                                                             *)
ClaimHeld ==
  /\ \A g, h \in Hands : hand[g].force /\ hand[h].force => g = h
  /\ \A h \in Hands : hand[h].force => product.recheckUsed
  /\ \/ rechecks = 0
     \/ /\ rechecks = 1 /\ product.recheckUsed
        /\ \A h \in Hands : hand[h].force => hand[h].at = "store"
  /\ \A h \in Hands : hand[h].force /\ hand[h].at = "store" => rechecks = 1
  /\ product.recheckUsed /\ ~burned => rechecks = 1 \/ \E h \in Hands : hand[h].force

(* An answer goes to the row first: until the cache has it, its request    *)
(* knows the page of the score.                                            *)
ScoreKnown ==
  ~mixed =>
    /\ Storing = {} => juryCache.page = product.quality
    /\ \A h \in Storing : hand[h].page = product.quality
    /\ \A g, h \in Storing : g = h

FeedbackInv == HandsFit /\ AnswersOwed /\ CapNear /\ ClaimHeld /\ ScoreKnown

HandMoves(h, to) == hand'[h] = to /\ \A g \in Hands : g # h => hand'[g] = hand[g]

LEMMA HandCounts ==
  /\ IsFiniteSet(Owed) /\ Cardinality(Owed) \in Nat
  /\ IsFiniteSet(Going) /\ Cardinality(Going) \in Nat
  /\ Cardinality(Hands) \in Nat /\ Cardinality(Going) <= Cardinality(Hands)
<1>1. Going \subseteq Hands
  BY DEF Going
<1> QED BY <1>1, OwedCounts, ProductsAssumption, FS_Subset, FS_CardinalityType

LEMMA HandCountsNext ==
  /\ IsFiniteSet(Owed') /\ Cardinality(Owed') \in Nat
  /\ IsFiniteSet(Going') /\ Cardinality(Going') \in Nat
  /\ Cardinality(Going') <= Cardinality(Hands)
<1>1. Owed' \subseteq Hands /\ Going' \subseteq Hands
  BY DEF Owed, Going
<1> QED BY <1>1, ProductsAssumption, FS_Subset, FS_CardinalityType

LEMMA FitsRow ==
  ASSUME ProductsTypeOK, NEW h \in Hands
  PROVE  /\ hand[h] \in HandRows /\ hand[h].owes \in BOOLEAN /\ hand[h].force \in BOOLEAN
         /\ hand[h].before \in CacheRows /\ hand[h].before.at \in Nat
         /\ juryCache.at \in Nat
<1>1. hand[h] \in HandRows /\ juryCache \in CacheRows
  BY DEF ProductsTypeOK
<1>2. \A c \in CacheRows : c.at \in Nat
  BY DEF CacheRows
<1> QED BY <1>1, <1>2, HandFields

(* A step of a request that neither answers nor counts nor claims.         *)
LEMMA QuietTurn ==
  ASSUME ProductsTypeOK, FeedbackInv, NEW h \in Hands, NEW to, HandMoves(h, to),
         UNCHANGED <<juryCache, evalCount, answers, rechecks, mixed, uncounted, burned>>,
         product'.quality = product.quality, product'.recheckUsed = product.recheckUsed,
         to.owes = hand[h].owes, to.force = hand[h].force,
         hand[h].at # "store", to.at # "store", Fits(to),
         MayCount(to) => MayCount(hand[h])
  PROVE  FeedbackInv'
<1>1. HandsFit'
  BY DEF FeedbackInv, HandsFit, HandMoves, Fits
<1>2. \A g \in Hands : hand'[g].owes = hand[g].owes /\ hand'[g].force = hand[g].force
  BY DEF HandMoves
<1>3. Owed' = Owed
  BY <1>2 DEF Owed
<1>4. AnswersOwed'
  BY <1>3 DEF FeedbackInv, AnswersOwed
<1>5. CapNear'
  <2>1. Going' \subseteq Going
    BY DEF HandMoves, Going, MayCount
  <2>2. Cardinality(Going') <= Cardinality(Going)
    BY <2>1, HandCounts, FS_Subset
  <2>3. evalCount \in Nat /\ EvalCap \in Nat
    BY ProductsAssumption DEF ProductsTypeOK
  <2> QED BY <2>2, <2>3, HandCounts, HandCountsNext DEF FeedbackInv, CapNear
<1>6. ClaimHeld'
  <2>1. \A g \in Hands : hand'[g].at = "store" <=> hand[g].at = "store"
    BY DEF HandMoves
  <2> QED BY <1>2, <2>1 DEF FeedbackInv, ClaimHeld
<1>7. ScoreKnown'
  <2>1. Storing' = Storing /\ \A g \in Storing : hand'[g] = hand[g]
    BY DEF HandMoves, Storing, HandAt
  <2> QED BY <2>1 DEF FeedbackInv, ScoreKnown
<1> QED BY <1>1, <1>4, <1>5, <1>6, <1>7 DEF FeedbackInv

(* A request that does not hold the claim and owes nothing comes to an end. *)
LEMMA QuietEnd ==
  ASSUME ProductsTypeOK, FeedbackInv, NEW h \in Hands, HandEnds(h),
         UNCHANGED <<juryCache, evalCount, answers, rechecks, mixed, uncounted, burned>>,
         product'.quality = product.quality, product'.recheckUsed = product.recheckUsed,
         hand[h].at \notin {"read", "ask", "store", "reset", "after", "count", "swap"}
  PROVE  FeedbackInv'
<1>1. HandMoves(h, IdleHand)
  BY HandsEnd DEF HandMoves
<1>2. ~hand[h].owes /\ ~hand[h].force
  BY DEF FeedbackInv, HandsFit, Fits
<1>3. hand[h].owes = FALSE /\ hand[h].force = FALSE /\ juryCache.at \in Nat
  BY <1>2, FitsRow
<1>4. IdleHand.owes = FALSE /\ IdleHand.force = FALSE /\ IdleHand.at = "idle"
      /\ IdleHand.before.at = 0
  BY DEF IdleHand, NoCache
<1>5. Fits(IdleHand) /\ ~MayCount(IdleHand)
  BY <1>3, <1>4 DEF Fits, MayCount
<1> QED BY <1>1, <1>3, <1>4, <1>5, QuietTurn

(* A new request of the team, of another kind than a recheck.              *)
LEMMA QuietBegin ==
  ASSUME ProductsTypeOK, FeedbackInv, NEW h \in Hands, NEW to \in HandRows, HandTurns(h, to),
         UNCHANGED <<juryCache, evalCount, answers, rechecks, mixed, uncounted, burned>>,
         product'.quality = product.quality, product'.recheckUsed = product.recheckUsed,
         hand[h].at \notin {"read", "ask", "store", "reset", "after", "count", "swap"},
         to.at \in {"save", "eval", "unlock", "show", "publish"},
         to.owes = FALSE, to.force = FALSE, to.before = NoCache
  PROVE  FeedbackInv'
<1>1. HandMoves(h, to)
  BY HandsTurn DEF HandMoves
<1>2. ~hand[h].owes /\ ~hand[h].force
  BY DEF FeedbackInv, HandsFit, Fits
<1>3. hand[h].owes = FALSE /\ hand[h].force = FALSE /\ juryCache.at \in Nat
  BY <1>2, FitsRow
<1>4. to.before.at = 0
  BY DEF NoCache
<1>5. Fits(to) /\ ~MayCount(to)
  BY <1>3, <1>4 DEF Fits, MayCount
<1> QED BY <1>1, <1>3, <1>5, QuietTurn

(* A step of somebody else.                                                *)
LEMMA FeedbackFrame ==
  ASSUME FeedbackInv,
         UNCHANGED <<hand, juryCache, evalCount, answers, rechecks, mixed, uncounted, burned>>,
         product'.quality = product.quality, product'.recheckUsed = product.recheckUsed
  PROVE  FeedbackInv'
<1>1. Owed' = Owed /\ Going' = Going /\ Storing' = Storing
  BY DEF Owed, Going, MayCount, Storing, HandAt
<1>2. HandsFit' /\ AnswersOwed' /\ CapNear'
  BY <1>1 DEF FeedbackInv, HandsFit, Fits, AnswersOwed, CapNear
<1>3. ClaimHeld' /\ ScoreKnown'
  BY <1>1 DEF FeedbackInv, ClaimHeld, ScoreKnown
<1> QED BY <1>2, <1>3 DEF FeedbackInv

(* The evaluation begins below the cap.                                    *)
LEMMA EvalCountsKeeps ==
  ASSUME ProductsTypeOK, FeedbackInv, NEW h \in Hands, EvalCounts(h)
  PROVE  FeedbackInv'
<1> USE DEF productRows, evals, lost, productHistory
<1>1. hand[h].at = "eval" /\ ~hand[h].owes /\ ~hand[h].force
  BY DEF EvalCounts, HandAt, FeedbackInv, HandsFit, Fits
<1>2. CASE evalCount < EvalCap
  <2> DEFINE to == [IdleHand EXCEPT !.at = "mark"]
  <2>1. /\ to \in HandRows /\ to.at = "mark" /\ to.owes = FALSE /\ to.force = FALSE
        /\ to.before.at = 0
    BY DEF IdleHand, HandRows, NoCache, CacheRows
  <2> HIDE DEF to
  <2>2. HandMoves(h, to)
    BY <1>2, <2>1, HandsTurn DEF EvalCounts, HandMoves, to
  <2>3. UNCHANGED <<product, juryCache, evalCount, answers, rechecks, mixed, uncounted, burned>>
    BY DEF EvalCounts
  <2>4. HandsFit'
    BY <2>1, <2>2, <2>3, FitsRow DEF FeedbackInv, HandsFit, HandMoves, Fits
  <2>5. Owed' = Owed
    BY <1>1, <2>1, <2>2 DEF HandMoves, Owed
  <2>6. \A g \in Hands : hand'[g].force <=> hand[g].force
    BY <1>1, <2>1, <2>2 DEF HandMoves
  <2>7. \A g \in Hands : hand'[g].at = "store" <=> hand[g].at = "store"
    BY <1>1, <2>1, <2>2 DEF HandMoves
  <2>8. AnswersOwed'
    BY <2>3, <2>5 DEF FeedbackInv, AnswersOwed
  <2>9. CapNear'
    <3>1. evalCount \in Nat /\ EvalCap \in Nat
      BY ProductsAssumption DEF ProductsTypeOK
    <3> QED BY <1>2, <2>3, <3>1, HandCounts, HandCountsNext DEF CapNear
  <2>10. ClaimHeld'
    BY <2>3, <2>6, <2>7 DEF FeedbackInv, ClaimHeld
  <2>11. ScoreKnown'
    <3>1. Storing' = Storing /\ \A g \in Storing : hand'[g] = hand[g]
      BY <1>1, <2>1, <2>2 DEF HandMoves, Storing, HandAt
    <3> QED BY <2>3, <3>1 DEF FeedbackInv, ScoreKnown
  <2> QED BY <2>4, <2>8, <2>9, <2>10, <2>11 DEF FeedbackInv
<1>3. CASE ~(evalCount < EvalCap)
  BY <1>1, <1>3, QuietEnd DEF EvalCounts
<1> QED BY <1>2, <1>3

(* The AI answers: an answer for a submission is owed, one for a recheck   *)
(* uses the claim up.                                                      *)
LEMMA AiAnswersKeeps ==
  ASSUME ProductsTypeOK, FeedbackInv, NEW h \in Hands, AiAnswers(h)
  PROVE  FeedbackInv'
<1> DEFINE to == [hand[h] EXCEPT !.at = "store", !.owes = ~hand[h].force]
<1>1. hand[h].at = "ask" /\ ~hand[h].owes
  BY DEF AiAnswers, HandAt, FeedbackInv, HandsFit, Fits
<1>2. /\ to \in HandRows /\ to.at = "store" /\ to.owes = ~hand[h].force
      /\ to.force = hand[h].force /\ to.before = hand[h].before /\ to.page = hand[h].page
  <2>1. hand[h] \in HandRows
    BY FitsRow
  <2> QED BY <2>1 DEF HandRows
<1>3. HandMoves(h, to)
  <2> HIDE DEF to
  <2>1. HandTurns(h, to)
    BY DEF AiAnswers, to
  <2> QED BY <1>2, <2>1, HandsTurn DEF HandMoves
<1> HIDE DEF to
<1>4. /\ product'.quality = hand[h].page /\ product'.recheckUsed = product.recheckUsed
      /\ UNCHANGED <<juryCache, evalCount, uncounted, burned>>
      /\ mixed' = (mixed \/ Storing # {})
      /\ IF hand[h].force THEN rechecks' = rechecks + 1 /\ answers' = answers
                          ELSE answers' = answers + 1 /\ rechecks' = rechecks
  <2>1. product \in ProductRows /\ product' = [product EXCEPT !.quality = hand[h].page]
    BY DEF AiAnswers, ProductsTypeOK
  <2>2. product'.quality = hand[h].page /\ product'.recheckUsed = product.recheckUsed
    BY <2>1 DEF ProductRows
  <2> QED BY <2>2 DEF AiAnswers, lost
<1>5. HandsFit'
  BY <1>1, <1>2, <1>3, <1>4, FitsRow DEF FeedbackInv, HandsFit, HandMoves, Fits
<1>6. AnswersOwed'
  <2>1. answers \in Nat /\ evalCount \in Nat /\ uncounted \in Nat
    BY DEF ProductsTypeOK
  <2>2. CASE hand[h].force
    <3>1. Owed' = Owed
      BY <1>1, <1>2, <1>3, <2>2 DEF HandMoves, Owed
    <3> QED BY <1>4, <2>2, <3>1 DEF FeedbackInv, AnswersOwed
  <2>3. CASE ~hand[h].force
    <3>1. Owed' = Owed \cup {h} /\ h \notin Owed
      BY <1>1, <1>2, <1>3, <2>3 DEF HandMoves, Owed
    <3>2. Cardinality(Owed') = Cardinality(Owed) + 1
      BY <3>1, HandCounts, FS_AddElement
    <3> QED BY <1>4, <2>1, <2>3, <3>2, HandCounts DEF FeedbackInv, AnswersOwed
  <2> QED BY <2>2, <2>3
<1>7. CapNear'
  <2>1. Going' = Going
    BY <1>1, <1>2, <1>3 DEF HandMoves, Going, MayCount
  <2> QED BY <1>4, <2>1 DEF FeedbackInv, CapNear
<1>8. ClaimHeld'
  <2>1. \A g \in Hands : hand'[g].force = hand[g].force
    BY <1>2, <1>3 DEF HandMoves
  <2>2. CASE hand[h].force
    <3>1. rechecks = 0 /\ rechecks' = 1 /\ product.recheckUsed
      BY <1>1, <1>4, <2>2 DEF FeedbackInv, ClaimHeld
    <3>2. \A g \in Hands : hand'[g].force => hand'[g].at = "store"
      BY <1>2, <1>3, <2>1, <2>2 DEF FeedbackInv, ClaimHeld, HandMoves
    <3>3. /\ \A f, g \in Hands : hand'[f].force /\ hand'[g].force => f = g
          /\ \A g \in Hands : hand'[g].force => product'.recheckUsed
      BY <1>4, <2>1 DEF FeedbackInv, ClaimHeld
    <3> QED BY <1>4, <3>1, <3>2, <3>3 DEF ClaimHeld
  <2>3. CASE ~hand[h].force
    <3>1. \A g \in Hands : hand'[g].force => hand'[g] = hand[g]
      BY <2>1, <2>3, <1>3 DEF HandMoves
    <3> QED BY <1>4, <2>1, <2>3, <3>1 DEF FeedbackInv, ClaimHeld
  <2> QED BY <2>2, <2>3
<1>9. ScoreKnown'
  <2>1. ASSUME ~mixed' PROVE Storing' = {h} /\ hand'[h].page = product'.quality
    BY ZenonT(40), <1>2, <1>3, <1>4, <2>1 DEF HandMoves, Storing, HandAt
  <2> QED BY <2>1 DEF ScoreKnown
<1> QED BY <1>5, <1>6, <1>7, <1>8, <1>9 DEF FeedbackInv

(* The cache gets the page of the score; a recheck ends here.              *)
LEMMA CacheStoresKeeps ==
  ASSUME ProductsTypeOK, FeedbackInv, NEW h \in Hands, CacheStores(h)
  PROVE  FeedbackInv'
<1> USE DEF evals, reviews, lost, productHistory
<1>0. PICK to : to = IF hand[h].force THEN IdleHand ELSE [hand[h] EXCEPT !.at = "after"]
  OBVIOUS
<1>1. hand[h].at = "store" /\ (hand[h].force => ~hand[h].owes)
  BY DEF CacheStores, HandAt, FeedbackInv, HandsFit, Fits
<1>2. /\ to \in HandRows /\ to.at # "store" /\ to.owes = hand[h].owes
      /\ ~to.force /\ to.at = IF hand[h].force THEN "idle" ELSE "after"
      /\ to.before.at <= juryCache.at
  <2>1. /\ hand[h] \in HandRows /\ hand[h].before.at <= juryCache.at
        /\ hand[h].owes \in BOOLEAN /\ juryCache.at \in Nat
    BY FitsRow DEF FeedbackInv, HandsFit, Fits
  <2>2. CASE hand[h].force
    <3>1. to = IdleHand /\ IdleHand \in HandRows
      BY <1>0, <2>2, IdleIsHand
    <3>2. /\ IdleHand.at = "idle" /\ IdleHand.owes = FALSE /\ IdleHand.force = FALSE
          /\ IdleHand.before.at = 0
      BY DEF IdleHand, NoCache
    <3>3. hand[h].owes = FALSE
      BY <1>1, <2>1, <2>2
    <3>4. IdleHand.before.at <= juryCache.at
      BY <2>1, <3>2
    <3> QED BY <2>2, <3>1, <3>2, <3>3, <3>4
  <2>3. CASE ~hand[h].force
    <3>1. to = [hand[h] EXCEPT !.at = "after"]
      BY <1>0, <2>3
    <3> QED BY <1>1, <2>1, <2>3, <3>1 DEF HandRows
  <2> QED BY <2>2, <2>3
<1>3. HandMoves(h, to)
  <2>1. HandTurns(h, to)
    BY <1>0 DEF CacheStores, HandEnds
  <2> QED BY <1>2, <2>1, HandsTurn DEF HandMoves
<1>4. /\ juryCache'.page = hand[h].page /\ juryCache'.at = juryCache.at + 1
      /\ UNCHANGED <<product, evalCount, answers, rechecks, mixed, uncounted, burned>>
  BY DEF CacheStores
<1>5. HandsFit'
  <2>1. Fits(to)'
    <3>1. to.before.at \in Nat /\ juryCache.at \in Nat
      <4>1. to.before \in CacheRows /\ juryCache \in CacheRows
        BY <1>2, HandFields DEF ProductsTypeOK
      <4>2. \A c \in CacheRows : c.at \in Nat
        BY DEF CacheRows
      <4> QED BY <4>1, <4>2
    <3> QED BY <1>1, <1>2, <1>4, <3>1 DEF Fits
  <2>2. ASSUME NEW g \in Hands, g # h PROVE Fits(hand[g])'
    <3>1. PICK row : row = hand[g]
      OBVIOUS
    <3>2. Fits(row) /\ hand'[g] = row
      BY <1>3, <2>2, <3>1 DEF FeedbackInv, HandsFit, HandMoves
    <3>3. row.before.at \in Nat /\ juryCache.at \in Nat
      BY <3>1, FitsRow
    <3>4. Fits(row)'
      BY <1>4, <3>2, <3>3 DEF Fits
    <3> QED BY <3>2, <3>4 DEF Fits
  <2> QED BY <1>3, <2>1, <2>2 DEF HandsFit, HandMoves, Fits
<1>6. AnswersOwed'
  <2>1. Owed' = Owed
    BY <1>2, <1>3 DEF HandMoves, Owed
  <2> QED BY <1>4, <2>1 DEF FeedbackInv, AnswersOwed
<1>7. CapNear'
  <2>1. Going' \subseteq Going
    BY <1>1, <1>2, <1>3 DEF HandMoves, Going, MayCount
  <2>2. Cardinality(Going') <= Cardinality(Going)
    BY <2>1, HandCounts, FS_Subset
  <2>3. evalCount \in Nat /\ EvalCap \in Nat
    BY ProductsAssumption DEF ProductsTypeOK
  <2> QED BY <1>4, <2>2, <2>3, HandCounts, HandCountsNext DEF FeedbackInv, CapNear
<1>8. ClaimHeld'
  <2>1. \A g \in Hands : hand'[g].force => hand[g].force /\ g # h /\ hand'[g] = hand[g]
    BY <1>2, <1>3 DEF HandMoves
  <2>2. CASE hand[h].force
    <3>1. \A g \in Hands : ~hand'[g].force
      BY <2>1, <2>2 DEF FeedbackInv, ClaimHeld
    <3>2. rechecks = 1 /\ product.recheckUsed
      BY <1>1, <2>2 DEF FeedbackInv, ClaimHeld
    <3> QED BY <1>4, <3>1, <3>2 DEF ClaimHeld
  <2>3. CASE ~hand[h].force
    <3>1. \A g \in Hands : hand[g].force => hand'[g] = hand[g]
      BY <1>3, <2>3 DEF HandMoves
    <3> QED BY <1>4, <2>1, <3>1 DEF FeedbackInv, ClaimHeld
  <2> QED BY <2>2, <2>3
<1>9. ScoreKnown'
  <2>1. ASSUME ~mixed PROVE Storing' = {} /\ juryCache'.page = product.quality
    <3>1. h \in Storing
      BY <1>1 DEF Storing, HandAt
    <3>2. \A g \in Storing : g = h
      BY <2>1, <3>1 DEF FeedbackInv, ScoreKnown
    <3>3. Storing' = {}
      BY <1>2, <1>3, <3>2 DEF HandMoves, Storing, HandAt
    <3> QED BY <1>4, <2>1, <3>1, <3>3 DEF FeedbackInv, ScoreKnown
  <2> QED BY <1>4, <2>1 DEF ScoreKnown
<1> QED BY <1>5, <1>6, <1>7, <1>8, <1>9 DEF FeedbackInv

(* An evaluation is recognised by the cache, which has changed since for   *)
(* whoever owes a count; its request goes on to the counter.               *)
LEMMA CapReadsKeeps ==
  ASSUME ProductsTypeOK, FeedbackInv, NEW h \in Hands, CapReads(h)
  PROVE  FeedbackInv'
<1> USE DEF productRows, evals, reviews, lost, productHistory
<1>1. hand[h].at = "after" /\ ~hand[h].force /\ hand[h].owes \in BOOLEAN
  BY FitsRow DEF CapReads, HandAt, FeedbackInv, HandsFit, Fits
<1>2. juryCache.at \in Nat /\ hand[h].force = FALSE
  BY <1>1, FitsRow
<1>3. hand[h].owes => Evaluated(h)
  <2>1. ASSUME hand[h].owes, ~Evaluated(h) PROVE FALSE
    <3>1. hand[h].before.at < juryCache.at /\ juryCache = hand[h].before
      BY <1>1, <2>1 DEF FeedbackInv, HandsFit, Fits, Evaluated
    <3> QED BY <3>1, FitsRow
  <2> QED BY <2>1
<1>4. PICK to \in HandRows :
        /\ HandTurns(h, to) /\ to.owes = hand[h].owes /\ to.force = FALSE
        /\ to.before.at = 0 /\ to.at \in {"idle", "count"}
        /\ to.owes => to.at = "count"
  <2>1. CASE Evaluated(h)
    <3> DEFINE to == [IdleHand EXCEPT !.at = "count", !.owes = hand[h].owes]
    <3>1. /\ to \in HandRows /\ to.at = "count" /\ to.owes = hand[h].owes
          /\ to.force = FALSE /\ to.before.at = 0
      BY <1>1 DEF IdleHand, HandRows, NoCache, CacheRows
    <3>2. HandTurns(h, to)
      BY <2>1 DEF CapReads
    <3> HIDE DEF to
    <3> QED BY <3>1, <3>2
  <2>2. CASE ~Evaluated(h)
    <3>1. /\ IdleHand.at = "idle" /\ IdleHand.owes = FALSE /\ IdleHand.force = FALSE
          /\ IdleHand.before.at = 0
      BY DEF IdleHand, NoCache
    <3>2. HandTurns(h, IdleHand)
      BY <2>2 DEF CapReads, HandEnds
    <3> QED BY <1>1, <1>3, <2>2, <3>1, <3>2, IdleIsHand
  <2> QED BY <2>1, <2>2
<1>5. HandMoves(h, to)
  BY <1>4, HandsTurn DEF HandMoves
<1>6. Fits(to) /\ MayCount(hand[h])
  BY <1>1, <1>2, <1>4 DEF Fits, MayCount
<1> QED BY <1>1, <1>2, <1>4, <1>5, <1>6, QuietTurn DEF CapReads

(* A request at the counter keeps what it owes until it has counted ...    *)
LEMMA CountReadsKeeps ==
  ASSUME ProductsTypeOK, FeedbackInv, NEW h \in Hands, CountReads(h)
  PROVE  FeedbackInv'
<1> USE DEF productRows, evals, reviews, lost, productHistory
<1> DEFINE to == [hand[h] EXCEPT !.at = "swap", !.tries = hand[h].tries + 1, !.counted = evalCount]
<1>1. hand[h].at = "count" /\ ~hand[h].force /\ hand[h].before.at <= juryCache.at
  BY DEF CountReads, HandAt, FeedbackInv, HandsFit, Fits
<1>2. /\ to \in HandRows /\ to.at = "swap" /\ to.owes = hand[h].owes
      /\ to.force = hand[h].force /\ to.before = hand[h].before
  <2>1. hand[h] \in HandRows /\ evalCount \in Nat /\ hand[h].tries + 1 \in Nat
    BY HandFields DEF ProductsTypeOK
  <2>2. PICK row \in HandRows : row = hand[h]
    BY <2>1
  <2>3. PICK n \in Nat : n = hand[h].tries + 1
    BY <2>1
  <2>4. to = [row EXCEPT !.at = "swap", !.tries = n, !.counted = evalCount]
    BY <2>2, <2>3
  <2> HIDE DEF to
  <2>5. /\ to \in HandRows /\ to.at = "swap" /\ to.owes = row.owes
        /\ to.force = row.force /\ to.before = row.before
    BY <2>1, <2>4 DEF HandRows
  <2> QED BY <2>2, <2>5
<1>3. HandTurns(h, to)
  BY DEF CountReads
<1> HIDE DEF to
<1>4. HandMoves(h, to)
  BY <1>2, <1>3, HandsTurn DEF HandMoves
<1>5. Fits(to) /\ MayCount(hand[h])
  BY <1>1, <1>2 DEF Fits, MayCount
<1> QED BY <1>1, <1>2, <1>4, <1>5, QuietTurn DEF CountReads

LEMMA CountMissesKeeps ==
  ASSUME ProductsTypeOK, FeedbackInv, NEW h \in Hands, CountMisses(h)
  PROVE  FeedbackInv'
<1> USE DEF productRows, evals, reviews, lost, productHistory
<1> DEFINE to == [hand[h] EXCEPT !.at = "count"]
<1>1. hand[h].at = "swap" /\ ~hand[h].force /\ hand[h].before.at <= juryCache.at
  BY DEF CountMisses, HandAt, FeedbackInv, HandsFit, Fits
<1>2. /\ to \in HandRows /\ to.at = "count" /\ to.owes = hand[h].owes
      /\ to.force = hand[h].force /\ to.before = hand[h].before
  BY FitsRow DEF HandRows
<1>3. HandTurns(h, to)
  BY DEF CountMisses
<1> HIDE DEF to
<1>4. HandMoves(h, to)
  BY <1>2, <1>3, HandsTurn DEF HandMoves
<1>5. Fits(to) /\ MayCount(hand[h])
  BY <1>1, <1>2 DEF Fits, MayCount
<1> QED BY <1>1, <1>2, <1>4, <1>5, QuietTurn DEF CountMisses

LEMMA CountSwapsKeeps ==
  ASSUME ProductsTypeOK, FeedbackInv, NEW h \in Hands, CountSwaps(h)
  PROVE  FeedbackInv'
<1> USE DEF evals, reviews, lost, productHistory
<1>1. hand[h].at = "swap" /\ ~hand[h].force
  BY DEF CountSwaps, HandAt, FeedbackInv, HandsFit, Fits
<1>2. HandMoves(h, IdleHand)
  BY HandsEnd DEF CountSwaps, HandMoves
<1>3. /\ IdleHand.at = "idle" /\ ~IdleHand.owes /\ ~IdleHand.force /\ IdleHand.before.at = 0
  BY DEF IdleHand, NoCache
<1>4. /\ UNCHANGED <<product, juryCache, answers, rechecks, mixed, uncounted, burned>>
      /\ evalCount' = evalCount + 1
      /\ evalCount \in Nat /\ answers \in Nat /\ uncounted \in Nat /\ EvalCap \in Nat
  BY ProductsAssumption DEF CountSwaps, ProductsTypeOK
<1>5. HandsFit'
  BY <1>2, <1>3, <1>4, FitsRow DEF FeedbackInv, HandsFit, HandMoves, Fits
<1>6. AnswersOwed'
  <2>1. CASE hand[h].owes
    <3>1. Owed' = Owed \ {h} /\ h \in Owed
      BY <1>2, <1>3, <2>1 DEF HandMoves, Owed
    <3>2. Cardinality(Owed') = Cardinality(Owed) - 1
      BY <3>1, HandCounts, FS_RemoveElement
    <3> QED BY <1>4, <3>2, HandCounts DEF FeedbackInv, AnswersOwed
  <2>2. CASE ~hand[h].owes
    <3>1. Owed' = Owed
      BY <1>2, <1>3, <2>2 DEF HandMoves, Owed
    <3> QED BY <1>4, <3>1, HandCounts DEF FeedbackInv, AnswersOwed
  <2> QED BY <2>1, <2>2
<1>7. CapNear'
  <2>1. Going' = Going \ {h} /\ h \in Going
    BY <1>1, <1>2, <1>3 DEF HandMoves, Going, MayCount
  <2>2. Cardinality(Going') = Cardinality(Going) - 1
    BY <2>1, HandCounts, FS_RemoveElement
  <2> QED BY <1>4, <2>2, HandCounts DEF FeedbackInv, CapNear
<1>8. ClaimHeld'
  <2>1. \A g \in Hands : (hand'[g].force <=> hand[g].force) /\ (hand[g].force => hand'[g] = hand[g])
    BY <1>1, <1>2, <1>3 DEF HandMoves
  <2> QED BY <1>4, <2>1 DEF FeedbackInv, ClaimHeld
<1>9. ScoreKnown'
  <2>1. Storing' = Storing /\ \A g \in Storing : hand'[g] = hand[g]
    BY <1>1, <1>2, <1>3 DEF HandMoves, Storing, HandAt
  <2> QED BY <1>4, <2>1 DEF FeedbackInv, ScoreKnown
<1> QED BY <1>5, <1>6, <1>7, <1>8, <1>9 DEF FeedbackInv

(* ... or gives up, or fails: then the history has one answer more that is *)
(* not counted, a recheck without an answer is burned, and an answer that  *)
(* was not yet in the cache is mixed.                                      *)
LEMMA OwedIsLost ==
  ASSUME ProductsTypeOK, FeedbackInv, NEW h \in Hands, NEW to, HandMoves(h, to),
         UNCHANGED <<product, juryCache, evalCount, answers, rechecks>>,
         to.owes = FALSE, to.force = FALSE, to.at # "store", Fits(to),
         MayCount(to) => MayCount(hand[h]),
         uncounted' = uncounted + Owes(h),
         ~burned' => ~burned /\ (hand[h].force => hand[h].at = "store"),
         ~mixed' => ~mixed /\ hand[h].at # "store"
  PROVE  FeedbackInv'
<1>1. HandsFit'
  BY DEF FeedbackInv, HandsFit, HandMoves, Fits
<1>2. AnswersOwed'
  <2>1. evalCount \in Nat /\ answers \in Nat /\ uncounted \in Nat
    BY DEF ProductsTypeOK
  <2>2. CASE hand[h].owes
    <3>1. Owed' = Owed \ {h} /\ h \in Owed /\ Owes(h) = 1
      BY <2>2 DEF HandMoves, Owed, Owes
    <3>2. Cardinality(Owed') = Cardinality(Owed) - 1
      BY <3>1, HandCounts, FS_RemoveElement
    <3> QED BY <2>1, <3>1, <3>2, HandCounts DEF FeedbackInv, AnswersOwed
  <2>3. CASE ~hand[h].owes
    <3>1. Owed' = Owed /\ Owes(h) = 0
      BY <2>3 DEF HandMoves, Owed, Owes
    <3> QED BY <2>1, <3>1, HandCounts DEF FeedbackInv, AnswersOwed
  <2> QED BY <2>2, <2>3
<1>3. CapNear'
  <2>1. Going' \subseteq Going
    BY DEF HandMoves, Going, MayCount
  <2>2. Cardinality(Going') <= Cardinality(Going)
    BY <2>1, HandCounts, FS_Subset
  <2>3. evalCount \in Nat /\ EvalCap \in Nat
    BY ProductsAssumption DEF ProductsTypeOK
  <2> QED BY <2>2, <2>3, HandCounts, HandCountsNext DEF FeedbackInv, CapNear
<1>4. ClaimHeld'
  <2>1. \A g \in Hands : hand'[g].force => g # h /\ hand[g].force /\ hand'[g] = hand[g]
    BY DEF HandMoves
  <2>2. \A g \in Hands : hand[g].force /\ g # h => hand'[g].force
    BY DEF HandMoves
  <2>3. product.recheckUsed /\ ~burned' => rechecks = 1 \/ \E g \in Hands : hand'[g].force
    <3>1. SUFFICES ASSUME product.recheckUsed, ~burned', rechecks # 1
                   PROVE  \E g \in Hands : hand'[g].force
      OBVIOUS
    <3>2. PICK g \in Hands : hand[g].force
      BY <3>1 DEF FeedbackInv, ClaimHeld
    <3>3. g # h
      BY <3>1, <3>2 DEF FeedbackInv, ClaimHeld
    <3> QED BY <2>2, <3>2, <3>3
  <2> QED BY <2>1, <2>3 DEF FeedbackInv, ClaimHeld
<1>5. ScoreKnown'
  <2>1. ASSUME ~mixed' PROVE Storing' = Storing /\ \A g \in Storing : hand'[g] = hand[g]
    BY <2>1 DEF HandMoves, Storing, HandAt
  <2> QED BY <2>1 DEF FeedbackInv, ScoreKnown
<1> QED BY <1>1, <1>2, <1>3, <1>4, <1>5 DEF FeedbackInv

LEMMA CountGivesUpKeeps ==
  ASSUME ProductsTypeOK, FeedbackInv, NEW h \in Hands, CountGivesUp(h)
  PROVE  FeedbackInv'
<1> USE DEF productRows, evals, reviews
<1>1. hand[h].at = "swap" /\ ~hand[h].force
  BY DEF CountGivesUp, HandAt, FeedbackInv, HandsFit, Fits
<1>2. HandMoves(h, IdleHand)
  BY HandsEnd DEF CountGivesUp, HandMoves
<1>3. /\ IdleHand.at = "idle" /\ IdleHand.owes = FALSE /\ IdleHand.force = FALSE
      /\ IdleHand.before.at = 0
  BY DEF IdleHand, NoCache
<1>4. Fits(IdleHand) /\ ~MayCount(IdleHand)
  BY <1>3, FitsRow DEF Fits, MayCount
<1> QED BY <1>1, <1>2, <1>3, <1>4, OwedIsLost DEF CountGivesUp

LEMMA HandThrowsKeeps ==
  ASSUME ProductsTypeOK, FeedbackInv, NEW h \in Hands, HandThrows(h)
  PROVE  FeedbackInv'
<1> USE DEF productRows, evals, reviews
<1>1. PICK to \in HandRows :
        /\ HandTurns(h, to)
        /\ to.owes = FALSE /\ to.force = FALSE
        /\ \/ to.at = "idle" /\ to.before.at = 0
           \/ to.at = "after" /\ to.before = hand[h].before /\ Evaluating(h)
  BY HandThrown
<1>2. HandMoves(h, to)
  BY <1>1, HandsTurn DEF HandMoves
<1>3. Fits(to)
  <2>1. hand[h].before.at <= juryCache.at /\ juryCache.at \in Nat
    BY FitsRow DEF FeedbackInv, HandsFit, Fits
  <2> QED BY <1>1, <2>1 DEF Fits
<1>4. MayCount(to) => MayCount(hand[h])
  BY <1>1 DEF MayCount, Evaluating
<1>5. /\ ~burned' => ~burned /\ (hand[h].force => hand[h].at = "store")
      /\ ~mixed' => ~mixed /\ hand[h].at # "store"
  BY DEF HandThrows, HandAt
<1> QED BY <1>1, <1>2, <1>3, <1>4, <1>5, OwedIsLost DEF HandThrows

(* The claim is taken by one request, and given back by the same.          *)
LEMMA RecheckClaimsKeeps ==
  ASSUME ProductsTypeOK, FeedbackInv, NEW h \in Hands, RecheckClaims(h)
  PROVE  FeedbackInv'
<1> USE DEF evals, reviews, lost, productHistory
<1> DEFINE to == [IdleHand EXCEPT !.at = "read", !.force = TRUE]
<1>1. hand[h].at = "idle" /\ ~hand[h].owes /\ ~hand[h].force /\ ~product.recheckUsed
  BY DEF RecheckClaims, HandAt, FeedbackInv, HandsFit, Fits
<1>2. to \in HandRows /\ to.at = "read" /\ ~to.owes /\ to.force /\ to.before.at = 0
  BY DEF IdleHand, HandRows, NoCache, CacheRows
<1>3. HandMoves(h, to)
  <2> HIDE DEF to
  <2>1. HandTurns(h, to)
    BY DEF RecheckClaims, to
  <2> QED BY <1>2, <2>1, HandsTurn DEF HandMoves
<1> HIDE DEF to
<1>4. /\ UNCHANGED <<juryCache, evalCount, answers, rechecks, mixed, uncounted, burned>>
      /\ product'.quality = product.quality /\ product'.recheckUsed
  <2>1. product \in ProductRows /\ product' = [product EXCEPT !.recheckUsed = TRUE]
    BY DEF RecheckClaims, ProductsTypeOK
  <2>2. product'.quality = product.quality /\ product'.recheckUsed
    BY <2>1 DEF ProductRows
  <2> QED BY <2>2 DEF RecheckClaims
<1>5. HandsFit'
  BY <1>2, <1>3, <1>4, FitsRow DEF FeedbackInv, HandsFit, HandMoves, Fits
<1>6. Owed' = Owed /\ Going' = Going
  BY <1>1, <1>2, <1>3 DEF HandMoves, Owed, Going, MayCount
<1>7. AnswersOwed' /\ CapNear'
  BY <1>4, <1>6 DEF FeedbackInv, AnswersOwed, CapNear
<1>8. ClaimHeld'
  <2>1. rechecks = 0 /\ \A g \in Hands : ~hand[g].force
    BY <1>1 DEF FeedbackInv, ClaimHeld
  <2>2. hand'[h].force /\ \A g \in Hands : hand'[g].force => g = h
    BY <1>2, <1>3, <2>1 DEF HandMoves
  <2>3. hand'[h].at = "read"
    BY <1>2, <1>3 DEF HandMoves
  <2> QED BY <1>4, <2>1, <2>2, <2>3 DEF ClaimHeld
<1>9. ScoreKnown'
  <2>1. Storing' = Storing /\ \A g \in Storing : hand'[g] = hand[g]
    BY <1>1, <1>2, <1>3 DEF HandMoves, Storing, HandAt
  <2> QED BY <1>4, <2>1 DEF FeedbackInv, ScoreKnown
<1> QED BY <1>5, <1>7, <1>8, <1>9 DEF FeedbackInv

LEMMA RecheckResetsKeeps ==
  ASSUME ProductsTypeOK, FeedbackInv, NEW h \in Hands, RecheckResets(h)
  PROVE  FeedbackInv'
<1> USE DEF evals, reviews, lost, productHistory
<1>1. hand[h].at = "reset" /\ hand[h].force /\ ~hand[h].owes
  BY DEF RecheckResets, HandAt, FeedbackInv, HandsFit, Fits
<1>2. HandMoves(h, IdleHand)
  BY HandsEnd DEF RecheckResets, HandMoves
<1>3. /\ IdleHand.at = "idle" /\ ~IdleHand.owes /\ ~IdleHand.force /\ IdleHand.before.at = 0
  BY DEF IdleHand, NoCache
<1>4. /\ UNCHANGED <<juryCache, evalCount, answers, rechecks, mixed, uncounted, burned>>
      /\ product'.quality = product.quality /\ ~product'.recheckUsed
  <2>1. product \in ProductRows /\ product' = [product EXCEPT !.recheckUsed = FALSE]
    BY DEF RecheckResets, ProductsTypeOK
  <2>2. product'.quality = product.quality /\ ~product'.recheckUsed
    BY <2>1 DEF ProductRows
  <2> QED BY <2>2 DEF RecheckResets
<1>5. HandsFit'
  BY <1>2, <1>3, <1>4, FitsRow DEF FeedbackInv, HandsFit, HandMoves, Fits
<1>6. Owed' = Owed /\ Going' = Going
  BY <1>1, <1>2, <1>3 DEF HandMoves, Owed, Going, MayCount
<1>7. AnswersOwed' /\ CapNear'
  BY <1>4, <1>6 DEF FeedbackInv, AnswersOwed, CapNear
<1>8. ClaimHeld'
  <2>1. rechecks = 0
    BY <1>1 DEF FeedbackInv, ClaimHeld
  <2>2. \A g \in Hands : ~hand'[g].force
    BY <1>1, <1>2, <1>3 DEF FeedbackInv, ClaimHeld, HandMoves
  <2> QED BY <1>4, <2>1, <2>2 DEF ClaimHeld
<1>9. ScoreKnown'
  <2>1. Storing' = Storing /\ \A g \in Storing : hand'[g] = hand[g]
    BY <1>1, <1>2, <1>3 DEF HandMoves, Storing, HandAt
  <2> QED BY <1>4, <2>1 DEF FeedbackInv, ScoreKnown
<1> QED BY <1>5, <1>7, <1>8, <1>9 DEF FeedbackInv

(* A restart forgets the requests: what they owed is not counted.          *)
LEMMA RestartKeeps ==
  ASSUME ProductsTypeOK, FeedbackInv, ProductsRestart
  PROVE  FeedbackInv'
<1> USE DEF productRows, evals, reviews
<1>1. /\ \A h \in Hands : hand'[h] = IdleHand
      /\ UNCHANGED <<product, juryCache, evalCount, answers, rechecks>>
      /\ uncounted' = uncounted + Cardinality(Owed)
      /\ ~burned' => ~burned /\ \A h \in Hands : hand[h].force => hand[h].at = "store"
      /\ mixed' = (mixed \/ Storing # {})
  BY DEF ProductsRestart, HandAt
<1>2. /\ IdleHand.at = "idle" /\ ~IdleHand.owes /\ ~IdleHand.force /\ IdleHand.before.at = 0
  BY DEF IdleHand, NoCache
<1>3. juryCache.at \in Nat
  BY DEF ProductsTypeOK, CacheRows
<1>4. HandsFit'
  BY <1>1, <1>2, <1>3 DEF HandsFit, Fits
<1>5. AnswersOwed'
  <2>1. Owed' = {}
    BY <1>1, <1>2 DEF Owed
  <2>2. Cardinality(Owed') = 0
    BY <2>1, FS_EmptySet
  <2>3. evalCount \in Nat /\ answers \in Nat /\ uncounted \in Nat
    BY DEF ProductsTypeOK
  <2> QED BY <1>1, <2>2, <2>3, HandCounts DEF FeedbackInv, AnswersOwed
<1>6. CapNear'
  <2>1. Going' = {}
    BY <1>1, <1>2 DEF Going, MayCount
  <2>2. Cardinality(Going') = 0
    BY <2>1, FS_EmptySet
  <2>3. evalCount \in Nat /\ EvalCap \in Nat
    BY ProductsAssumption DEF ProductsTypeOK
  <2> QED BY <1>1, <2>2, <2>3, HandCounts DEF FeedbackInv, CapNear
<1>7. ClaimHeld'
  <2>1. \A h \in Hands : ~hand'[h].force
    BY <1>1, <1>2
  <2>2. product.recheckUsed /\ ~burned' => rechecks = 1
    BY <1>1 DEF FeedbackInv, ClaimHeld
  <2> QED BY <1>1, <2>1, <2>2 DEF FeedbackInv, ClaimHeld
<1>8. ScoreKnown'
  <2>1. Storing' = {}
    BY <1>1, <1>2 DEF Storing, HandAt
  <2> QED BY <1>1, <2>1 DEF FeedbackInv, ScoreKnown
<1> QED BY <1>4, <1>5, <1>6, <1>7, <1>8 DEF FeedbackInv

(* Without an answer a request goes to its end as it is.                   *)
LEMMA UnansweredKeeps ==
  ASSUME ProductsTypeOK, FeedbackInv, NEW h \in Hands, Unanswered(h),
         hand[h].at \in {"read", "look", "ask"},
         UNCHANGED <<product, juryCache, evalCount, answers, rechecks, mixed, uncounted, burned>>
  PROVE  FeedbackInv'
<1>1. PICK to : to = [hand[h] EXCEPT !.at = IF hand[h].force THEN "reset" ELSE "after"]
  OBVIOUS
<1>2. HandMoves(h, to)
  BY <1>1, HandUnanswered DEF HandMoves
<1>3. /\ to.owes = hand[h].owes /\ to.force = hand[h].force /\ to.before = hand[h].before
      /\ to.at = IF hand[h].force THEN "reset" ELSE "after"
  BY <1>1, FitsRow DEF HandRows
<1>4. ~hand[h].owes /\ hand[h].before.at <= juryCache.at
  BY DEF FeedbackInv, HandsFit, Fits
<1>5. Fits(to) /\ (MayCount(to) => MayCount(hand[h]))
  BY <1>3, <1>4 DEF Fits, MayCount
<1> QED BY <1>2, <1>3, <1>5, QuietTurn

LEMMA FeedbackInvNext ==
  ProductsTypeOK /\ FeedbackInv /\ [ProductsNext]_productVars => FeedbackInv'
<1> SUFFICES ASSUME ProductsTypeOK, FeedbackInv, [ProductsNext]_productVars
             PROVE  FeedbackInv'
  OBVIOUS
<1> USE DEF productRows, curator, evals, reviews, lost, productHistory
<1>a. product \in ProductRows
  BY DEF ProductsTypeOK
<1>1. ASSUME NEW h \in Hands, NEW page \in Pages, NEW submit \in BOOLEAN,
             SaveProductReads(h, page, submit)
      PROVE  FeedbackInv'
  <2> DEFINE to == [IdleHand EXCEPT !.at = "save", !.page = page, !.submit = submit]
  <2>1. to \in HandRows /\ to.at = "save" /\ to.owes = FALSE /\ to.force = FALSE
        /\ to.before = NoCache
    BY DEF IdleHand, HandRows, NoCache, CacheRows
  <2>2. HandTurns(h, to) /\ hand[h].at = "idle"
    BY <1>1 DEF SaveProductReads, HandAt
  <2> HIDE DEF to
  <2> QED BY <1>1, <2>1, <2>2, QuietBegin DEF SaveProductReads
<1>2. ASSUME NEW h \in Hands, SaveProductTooSoon(h) PROVE FeedbackInv'
  BY <1>2, QuietEnd DEF SaveProductTooSoon, HandAt
<1>3. ASSUME NEW h \in Hands, SaveProduct(h) PROVE FeedbackInv'
  <2>1. product'.quality = product.quality /\ product'.recheckUsed = product.recheckUsed
    BY <1>3, <1>a DEF SaveProduct, ProductRows
  <2>2. CASE hand[h].submit
    <3> DEFINE to == [IdleHand EXCEPT !.at = "eval"]
    <3>1. to \in HandRows /\ to.at = "eval" /\ to.owes = FALSE /\ to.force = FALSE
          /\ to.before = NoCache
      BY DEF IdleHand, HandRows, NoCache, CacheRows
    <3>2. HandTurns(h, to) /\ hand[h].at = "save"
      BY <1>3, <2>2 DEF SaveProduct, HandAt
    <3> HIDE DEF to
    <3> QED BY <1>3, <2>1, <3>1, <3>2, QuietBegin DEF SaveProduct
  <2>3. CASE ~hand[h].submit
    BY <1>3, <2>1, <2>3, QuietEnd DEF SaveProduct, HandAt
  <2> QED BY <2>2, <2>3
<1>4. ASSUME NEW h \in Hands, UnlockReads(h) PROVE FeedbackInv'
  <2> DEFINE to == [IdleHand EXCEPT !.at = "unlock", !.seen = product.showcase]
  <2>1. to \in HandRows /\ to.at = "unlock" /\ to.owes = FALSE /\ to.force = FALSE
        /\ to.before = NoCache
    <3>1. product.showcase \in Statuses
      BY <1>a, ProductFields
    <3> QED BY <3>1 DEF IdleHand, HandRows, NoCache, CacheRows, Statuses
  <2>2. HandTurns(h, to) /\ hand[h].at = "idle"
    BY <1>4 DEF UnlockReads, HandAt
  <2> HIDE DEF to
  <2> QED BY <1>4, <2>1, <2>2, QuietBegin DEF UnlockReads
<1>5. ASSUME NEW h \in Hands, UnlockWrites(h) PROVE FeedbackInv'
  <2>1. product'.quality = product.quality /\ product'.recheckUsed = product.recheckUsed
    BY <1>5, <1>a DEF UnlockWrites, ProductRows
  <2> QED BY <1>5, <2>1, QuietEnd DEF UnlockWrites, HandAt
<1>6. ASSUME NEW h \in Hands, EvalMarks(h) PROVE FeedbackInv'
  <2> DEFINE to == [IdleHand EXCEPT !.at = "read", !.before = juryCache]
  <2>1. to \in HandRows /\ to.at = "read" /\ to.owes = FALSE /\ to.force = FALSE
        /\ to.before = juryCache
    BY DEF IdleHand, HandRows, NoCache, ProductsTypeOK
  <2>2. HandTurns(h, to) /\ hand[h].at = "mark"
    BY <1>6 DEF EvalMarks, HandAt
  <2>3. ~hand[h].owes /\ ~hand[h].force
    BY <2>2 DEF FeedbackInv, HandsFit, Fits
  <2> HIDE DEF to
  <2>4. hand[h].owes = FALSE /\ hand[h].force = FALSE /\ juryCache.at \in Nat
    BY <2>3, FitsRow
  <2>5. Fits(to) /\ (MayCount(to) => MayCount(hand[h])) /\ HandMoves(h, to)
    BY <2>1, <2>2, <2>4, HandsTurn DEF Fits, MayCount, HandMoves
  <2> QED BY <1>6, <2>1, <2>2, <2>4, <2>5, QuietTurn DEF EvalMarks
<1>7. ASSUME NEW h \in Hands, EvalReads(h) PROVE FeedbackInv'
  <2>1. CASE aiOpen
    <3> DEFINE to == [hand[h] EXCEPT !.at = IF hand[h].force THEN "ask" ELSE "look",
                                     !.page = product.page]
    <3>1. /\ to \in HandRows /\ to.owes = hand[h].owes /\ to.force = hand[h].force
          /\ to.before = hand[h].before /\ to.at = IF hand[h].force THEN "ask" ELSE "look"
      <4>1. hand[h] \in HandRows /\ product.page \in Pages \cup {NoPage}
        BY <1>a, FitsRow, ProductFields
      <4> QED BY <4>1 DEF HandRows
    <3>2. HandTurns(h, to) /\ hand[h].at = "read"
      BY <1>7, <2>1 DEF EvalReads, HandAt
    <3> HIDE DEF to
    <3>3. ~hand[h].owes /\ hand[h].before.at <= juryCache.at
      BY <3>2 DEF FeedbackInv, HandsFit, Fits
    <3>4. Fits(to) /\ (MayCount(to) => MayCount(hand[h])) /\ HandMoves(h, to)
      BY <3>1, <3>2, <3>3, HandsTurn DEF Fits, MayCount, HandMoves
    <3> QED BY <1>7, <3>1, <3>2, <3>4, QuietTurn DEF EvalReads
  <2>2. CASE ~aiOpen
    BY <1>7, <2>2, UnansweredKeeps DEF EvalReads, HandAt
  <2> QED BY <2>1, <2>2
<1>8. ASSUME NEW h \in Hands, EvalLooks(h) PROVE FeedbackInv'
  <2>1. CASE juryCache.page # hand[h].page
    <3> DEFINE to == [hand[h] EXCEPT !.at = "ask"]
    <3>1. /\ to \in HandRows /\ to.owes = hand[h].owes /\ to.force = hand[h].force
          /\ to.before = hand[h].before /\ to.at = "ask"
      BY FitsRow DEF HandRows
    <3>2. HandTurns(h, to) /\ hand[h].at = "look"
      BY <1>8, <2>1 DEF EvalLooks, HandAt
    <3> HIDE DEF to
    <3>3. ~hand[h].owes /\ hand[h].before.at <= juryCache.at
      BY <3>2 DEF FeedbackInv, HandsFit, Fits
    <3>4. Fits(to) /\ (MayCount(to) => MayCount(hand[h])) /\ HandMoves(h, to)
      BY <3>1, <3>2, <3>3, HandsTurn DEF Fits, MayCount, HandMoves
    <3> QED BY <1>8, <3>1, <3>2, <3>4, QuietTurn DEF EvalLooks
  <2>2. CASE ~(juryCache.page # hand[h].page)
    BY <1>8, <2>2, UnansweredKeeps DEF EvalLooks, HandAt
  <2> QED BY <2>1, <2>2
<1>9. ASSUME NEW h \in Hands, AiFails(h) PROVE FeedbackInv'
  BY <1>9, UnansweredKeeps DEF AiFails, HandAt
<1>10. ASSUME NEW h \in Hands, RequestShowcaseReads(h) PROVE FeedbackInv'
  <2> DEFINE to == [IdleHand EXCEPT !.at = "show"]
  <2>1. to \in HandRows /\ to.at = "show" /\ to.owes = FALSE /\ to.force = FALSE
        /\ to.before = NoCache
    BY DEF IdleHand, HandRows, NoCache, CacheRows
  <2>2. HandTurns(h, to) /\ hand[h].at = "idle"
    BY <1>10 DEF RequestShowcaseReads, HandAt
  <2> HIDE DEF to
  <2> QED BY <1>10, <2>1, <2>2, QuietBegin DEF RequestShowcaseReads
<1>11. ASSUME NEW h \in Hands, RequestShowcase(h) PROVE FeedbackInv'
  <2>1. product'.quality = product.quality /\ product'.recheckUsed = product.recheckUsed
    BY <1>11, <1>a DEF RequestShowcase, ProductRows
  <2> QED BY <1>11, <2>1, QuietEnd DEF RequestShowcase, HandAt
<1>12. ASSUME NEW h \in Hands, RequestGoLiveReads(h) PROVE FeedbackInv'
  <2> DEFINE to == [IdleHand EXCEPT !.at = "publish"]
  <2>1. to \in HandRows /\ to.at = "publish" /\ to.owes = FALSE /\ to.force = FALSE
        /\ to.before = NoCache
    BY DEF IdleHand, HandRows, NoCache, CacheRows
  <2>2. HandTurns(h, to) /\ hand[h].at = "idle"
    BY <1>12 DEF RequestGoLiveReads, HandAt
  <2> HIDE DEF to
  <2> QED BY <1>12, <2>1, <2>2, QuietBegin DEF RequestGoLiveReads
<1>13. ASSUME NEW h \in Hands, RequestGoLive(h) PROVE FeedbackInv'
  <2>1. product'.quality = product.quality /\ product'.recheckUsed = product.recheckUsed
    BY <1>13, <1>a DEF RequestGoLive, ProductRows
  <2> QED BY <1>13, <2>1, QuietEnd DEF RequestGoLive, HandAt
<1>14. ASSUME WithdrawShowcase \/ CancelGoLive \/ ApproveShowcase \/ RejectShowcase
              \/ SetFeatured \/ SetFeaturedThrows \/ \E to \in Publications : AdminSetLiveStatus(to)
       PROVE  FeedbackInv'
  <2>1. product'.quality = product.quality /\ product'.recheckUsed = product.recheckUsed
    BY <1>14, <1>a DEF WithdrawShowcase, CancelGoLive, ApproveShowcase, RejectShowcase,
       SetFeatured, SetFeaturedThrows, AdminSetLiveStatus, ProductRows
  <2>2. UNCHANGED <<hand, juryCache, evalCount, answers, rechecks, mixed, uncounted, burned>>
    BY <1>14 DEF WithdrawShowcase, CancelGoLive, ApproveShowcase, RejectShowcase,
       SetFeatured, SetFeaturedThrows, AdminSetLiveStatus
  <2> QED BY <2>1, <2>2, FeedbackFrame
<1>15. ASSUME SubmitCooldownEnds \/ UNCHANGED productVars
              \/ (\E list \in {"showcase", "studio"} : PanelLoads(list))
              \/ (\E to \in {"on", "off"} : FeatureReads(to))
       PROVE  FeedbackInv'
  BY <1>15, FeedbackFrame DEF SubmitCooldownEnds, productVars, PanelLoads, FeatureReads
<1> QED BY <1>1, <1>2, <1>3, <1>4, <1>5, <1>6, <1>7, <1>8, <1>9, <1>10, <1>11, <1>12, <1>13,
           <1>14, <1>15, EvalCountsKeeps, AiAnswersKeeps, CacheStoresKeeps, CapReadsKeeps,
           CountReadsKeeps, CountSwapsKeeps, CountMissesKeeps, CountGivesUpKeeps,
           RecheckClaimsKeeps, RecheckResetsKeeps, HandThrowsKeeps, RestartKeeps
        DEF ProductsNext, TeamStep, FeedbackStep, CuratorStep

LEMMA FeedbackInvInit == ProductsInit => FeedbackInv
<1> SUFFICES ASSUME ProductsInit PROVE FeedbackInv
  OBVIOUS
<1>1. /\ \A h \in Hands : hand[h] = IdleHand
      /\ juryCache = NoCache /\ evalCount = 0 /\ answers = 0 /\ rechecks = 0 /\ uncounted = 0
      /\ product.quality = NoPage /\ product.recheckUsed = FALSE
  BY DEF ProductsInit
<1>2. /\ IdleHand.at = "idle" /\ ~IdleHand.owes /\ ~IdleHand.force /\ IdleHand.before.at = 0
      /\ NoCache.at = 0 /\ NoCache.page = NoPage
  BY DEF IdleHand, NoCache
<1>3. HandsFit
  BY <1>1, <1>2 DEF HandsFit, Fits
<1>4. Owed = {} /\ Going = {} /\ Storing = {}
  BY <1>1, <1>2 DEF Owed, Going, MayCount, Storing, HandAt
<1>5. Cardinality({}) = 0
  BY FS_EmptySet
<1>6. AnswersOwed /\ CapNear
  BY <1>1, <1>4, <1>5, HandCounts, ProductsAssumption DEF AnswersOwed, CapNear
<1>7. ClaimHeld /\ ScoreKnown
  BY <1>1, <1>2, <1>4 DEF ClaimHeld, ScoreKnown
<1> QED BY <1>3, <1>6, <1>7 DEF FeedbackInv

(* However many requests save, submit and recheck a product at once, and   *)
(* whichever of their queries throw: every answer for a submission is      *)
(* counted, except those whose request stopped, threw or gave up before    *)
(* (uncounted, one for each); the cap is passed by less than the number of *)
(* requests; there is one recheck, and a used one has its answer or its    *)
(* request unless that was stopped or threw (burned); and the cache and    *)
(* the score are about the same page, unless two answers were stored at    *)
(* once or one did not get from the score to the cache (mixed).            *)
THEOREM FeedbackAlwaysKept == ProductsSpec => []FeedbackKept
<1>1. ProductsTypeOK /\ FeedbackInv => FeedbackKept
  <2> SUFFICES ASSUME ProductsTypeOK, FeedbackInv PROVE FeedbackKept
    OBVIOUS
  <2>1. evalCount < EvalCap + Cardinality(Hands)
    <3>1. evalCount \in Nat /\ EvalCap \in Nat
      BY ProductsAssumption DEF ProductsTypeOK
    <3> QED BY <3>1, HandCounts DEF FeedbackInv, CapNear
  <2>2. EvalsCounted
    BY <2>1 DEF FeedbackInv, AnswersOwed, ClaimHeld, EvalsCounted
  <2>3. FeedbackFits
    BY DEF FeedbackInv, ScoreKnown, FeedbackFits
  <2> QED BY <2>2, <2>3 DEF FeedbackKept
<1> QED BY <1>1, FeedbackInvInit, FeedbackInvNext, ProductsTypeCorrect, PTL DEF ProductsSpec

(***************************************************************************)
(* Ranks and prizes.                                                       *)
(***************************************************************************)

(* compareRank never puts each of two entries before the other.            *)
EntryRecords == [track : Tracks, category : {"", "TECH", "NON_TECH"}, members : Nat,
                 total : Nat, people : Nat, jury : Nat, at : Nat]

LEMMA AheadOneWay ==
  ASSUME StandingsTypeOK, NEW e \in Entries, NEW f \in Entries, Ahead(e, f)
  PROVE  ~Ahead(f, e)
<1>1. scored[e] \in EntryRecords /\ scored[f] \in EntryRecords
  BY StandingsAssumption DEF StandingsTypeOK, EntryRecords
<1>2. PICK x : x = scored[e]
  OBVIOUS
<1>3. PICK y : y = scored[f]
  OBVIOUS
<1>4. /\ x.total \in Nat /\ x.people \in Nat /\ x.jury \in Nat /\ x.at \in Nat
      /\ y.total \in Nat /\ y.people \in Nat /\ y.jury \in Nat /\ y.at \in Nat
  BY <1>1, <1>2, <1>3 DEF EntryRecords
<1>5. e \in Nat /\ f \in Nat
  BY StandingsAssumption
<1>6. \/ x.total > y.total
      \/ x.total = y.total /\ x.people > y.people
      \/ x.total = y.total /\ x.people = y.people /\ x.jury > y.jury
      \/ /\ x.total = y.total /\ x.people = y.people /\ x.jury = y.jury
         /\ Earlier(x, y) \/ (x.at = y.at /\ e < f)
  BY <1>2, <1>3 DEF Ahead
<1>7. ~ \/ y.total > x.total
        \/ y.total = x.total /\ y.people > x.people
        \/ y.total = x.total /\ y.people = x.people /\ y.jury > x.jury
        \/ /\ y.total = x.total /\ y.people = x.people /\ y.jury = x.jury
           /\ Earlier(y, x) \/ (y.at = x.at /\ f < e)
  BY <1>4, <1>5, <1>6 DEF Earlier
<1> QED BY <1>2, <1>3, <1>7 DEF Ahead

LEMMA EntryHasTrack ==
  ASSUME StandingsTypeOK, NEW e \in Entries PROVE scored[e].track \in Tracks
<1>1. scored[e] \in EntryRecords
  BY StandingsAssumption DEF StandingsTypeOK, EntryRecords
<1>2. \A x \in EntryRecords : x.track \in Tracks
  BY DEF EntryRecords
<1> QED BY <1>1, <1>2

LEMMA StandingsTypeOKNext ==
  StandingsTypeOK /\ [StandingsNext]_standingsVars => StandingsTypeOK'
<1> SUFFICES ASSUME StandingsTypeOK, [StandingsNext]_standingsVars PROVE StandingsTypeOK'
  OBVIOUS
<1>1. ASSUME NEW e \in Entries, RankNext(e) PROVE StandingsTypeOK'
  <2>1. scored[e].track \in Tracks
    BY EntryHasTrack
  <2>2. Cardinality(ranked) \in Nat
    <3>1. IsFiniteSet(ranked)
      BY StandingsAssumption, FS_Subset DEF StandingsTypeOK
    <3> QED BY <3>1, FS_CardinalityType
  <2>3. nextInTrack' \in [Tracks -> Nat] /\ rankOf' \in [Entries -> Nat]
    BY <1>1, <2>1 DEF StandingsTypeOK, RankNext
  <2>4. overallRank' \in [Entries -> Nat]
    BY <1>1, <2>2 DEF StandingsTypeOK, RankNext
  <2> QED BY <1>1, <2>3, <2>4 DEF StandingsTypeOK, RankNext
<1>2. ASSUME NEW p \in Prizes, NEW winners \in SUBSET Entries, Give(p, winners)
      PROVE  StandingsTypeOK'
  BY <1>2 DEF StandingsTypeOK, Give
<1>3. ASSUME NEW p \in Prizes, AwardRank(p) \/ AwardSpecial(p) PROVE StandingsTypeOK'
  <2>1. Candidates(p) \subseteq Entries /\ Chosen(p) \subseteq Entries
    BY DEF Candidates, Qualified, Pool, Chosen
  <2> QED BY <1>2, <1>3, <2>1 DEF AwardRank, AwardSpecial
<1>4. CASE UNCHANGED standingsVars
  BY <1>4 DEF standingsVars, StandingsTypeOK
<1> QED BY <1>1, <1>3, <1>4 DEF StandingsNext

LEMMA StandingsTypeOKInit == StandingsInit => StandingsTypeOK
  BY DEF StandingsInit, StandingsTypeOK

(* The types of the standings, for any number of entries and prizes.       *)
THEOREM StandingsTypeCorrect == StandingsSpec => []StandingsTypeOK
  BY StandingsTypeOKInit, StandingsTypeOKNext, PTL DEF StandingsSpec

(* The entries that have their ranks are ahead of the others, and each     *)
(* track has given as many ranks as it has ranked entries.                 *)
InTrack(t) == {f \in ranked : scored[f].track = t}

RanksInv ==
  /\ \A e \in ranked, f \in Entries \ ranked : Ahead(e, f)
  /\ \A t \in Tracks : nextInTrack[t] = Cardinality(InTrack(t))
  /\ RanksCount

Better(e) == {f \in Entries : Ahead(f, e)}

LEMMA RankNextKeeps ==
  ASSUME StandingsTypeOK, RanksInv, NEW e \in Entries, RankNext(e)
  PROVE  RanksInv'
<1> DEFINE t == scored[e].track
<1>1. /\ e \notin ranked /\ Leads(e, Entries \ ranked)
      /\ ranked' = ranked \cup {e}
      /\ overallRank' = [overallRank EXCEPT ![e] = Cardinality(ranked) + 1]
      /\ nextInTrack' = [nextInTrack EXCEPT ![t] = @ + 1]
      /\ rankOf' = [rankOf EXCEPT ![e] = nextInTrack[t] + 1]
      /\ scored' = scored
  BY DEF RankNext
<1>2. \A f, g : Ahead(f, g)' <=> Ahead(f, g)
  BY <1>1 DEF Ahead
<1>3. /\ ranked \subseteq Entries /\ nextInTrack \in [Tracks -> Nat]
      /\ rankOf \in [Entries -> Nat] /\ overallRank \in [Entries -> Nat] /\ t \in Tracks
  BY EntryHasTrack DEF StandingsTypeOK
<1>4. \A f \in ranked', g \in Entries \ ranked' : Ahead(f, g)'
  BY <1>1, <1>2 DEF RanksInv, Leads
<1>5. ASSUME NEW s \in Tracks PROVE nextInTrack'[s] = Cardinality(InTrack(s)')
  <2>1. CASE s = t
    <3>1. InTrack(s)' = InTrack(s) \cup {e} /\ e \notin InTrack(s)
      BY <1>1, <2>1 DEF InTrack
    <3>2. IsFiniteSet(InTrack(s))
      <4>1. InTrack(s) \subseteq Entries
        BY <1>3 DEF InTrack
      <4> QED BY <4>1, StandingsAssumption, FS_Subset
    <3>3. Cardinality(InTrack(s) \cup {e}) = Cardinality(InTrack(s)) + 1
      BY <3>1, <3>2, FS_AddElement
    <3> QED BY <1>1, <1>3, <2>1, <3>1, <3>3 DEF RanksInv
  <2>2. CASE s # t
    <3>1. InTrack(s)' = InTrack(s)
      BY <1>1, <2>2 DEF InTrack
    <3> QED BY <1>1, <1>3, <2>2, <3>1 DEF RanksInv
  <2> QED BY <2>1, <2>2
<1>6. Better(e) = ranked
  <2>1. ASSUME NEW f \in ranked PROVE Ahead(f, e)
    BY <1>1 DEF RanksInv
  <2>2. ASSUME NEW f \in Entries, Ahead(f, e) PROVE f \in ranked
    <3>1. f # e
      BY <2>2, AheadOneWay
    <3>2. ~Ahead(e, f)
      BY <2>2, AheadOneWay
    <3> QED BY <1>1, <3>1, <3>2 DEF Leads
  <2> QED BY <1>3, <2>1, <2>2 DEF Better
<1>7. ASSUME NEW f \in ranked'
      PROVE  /\ overallRank'[f] = Cardinality(Better(f)') + 1
             /\ rankOf'[f] = Cardinality({g \in Better(f)' : scored'[g].track = scored'[f].track}) + 1
  <2>1. Better(f)' = Better(f)
    BY <1>2 DEF Better
  <2>2. CASE f = e
    <3>1. {g \in Better(f)' : scored'[g].track = scored'[f].track} = InTrack(t)
      BY <1>1, <1>6, <2>1, <2>2 DEF InTrack
    <3>2. overallRank'[f] = Cardinality(ranked) + 1 /\ rankOf'[f] = Cardinality(InTrack(t)) + 1
      BY <1>1, <1>3, <2>2 DEF RanksInv
    <3> QED BY <1>6, <2>1, <2>2, <3>1, <3>2
  <2>3. CASE f # e
    <3>1. /\ f \in ranked
          /\ overallRank'[f] = overallRank[f] /\ rankOf'[f] = rankOf[f]
      BY <1>1, <1>3, <2>3
    <3>2. /\ overallRank[f] = Cardinality(Better(f)) + 1
          /\ rankOf[f] = Cardinality({g \in Better(f) : scored[g].track = scored[f].track}) + 1
      BY <3>1 DEF RanksInv, RanksCount, Better
    <3> QED BY <1>1, <2>1, <3>1, <3>2
  <2> QED BY <2>2, <2>3
<1>8. RanksCount'
  BY <1>7 DEF RanksCount, Better
<1> QED BY <1>4, <1>5, <1>8 DEF RanksInv

LEMMA RanksStay ==
  ASSUME RanksInv, UNCHANGED <<scored, ranked, nextInTrack, rankOf, overallRank>>
  PROVE  RanksInv'
<1>1. \A f, g : Ahead(f, g)' <=> Ahead(f, g)
  BY DEF Ahead
<1>2. \A t \in Tracks : InTrack(t)' = InTrack(t)
  BY DEF InTrack
<1>3. \A e \in ranked : Better(e)' = Better(e)
  BY <1>1 DEF Better
<1>4. RanksCount'
  BY <1>3 DEF RanksInv, RanksCount, Better
<1> QED BY <1>1, <1>2, <1>4 DEF RanksInv

(* The prizes that were looked at come before the others, and those have   *)
(* no winner yet.                                                          *)
PrizesInv ==
  /\ \A p \in awarded, q \in Prizes \ awarded : Before(p, q)
  /\ \A p \in Prizes \ awarded : winnerOf[p] = NoEntry
  /\ OnePrizeEach
  /\ NobodyPassedOver

(* A prize that is given next, to the first of its candidates or to nobody. *)
LEMMA GiveKeeps ==
  ASSUME StandingsTypeOK, PrizesInv, NEW p \in Prizes, IsNext(p),
         NEW winners \in SUBSET Entries, Give(p, winners),
         \A w \in winners : ~HasWon(w, prize[p].kind),
         prize[p].kind = "RANK" => winners = Candidates(p)
  PROVE  PrizesInv'
<1>1. /\ awarded' = awarded \cup {p} /\ p \notin awarded
      /\ scored' = scored /\ prize' = prize
      /\ \A q \in Prizes \ awarded : q = p \/ Before(p, q)
  BY DEF Give, IsNext
<1>2. /\ \A f, g : Ahead(f, g)' <=> Ahead(f, g)
      /\ \A q, r : Before(q, r)' <=> Before(q, r)
      /\ \A q : Qualified(q)' = Qualified(q)
  BY <1>1 DEF Ahead, Before, Qualified, Thin, Pool, Eligible
<1>3. awarded \subseteq Prizes /\ winnerOf \in [Prizes -> Entries \cup {NoEntry}]
  BY DEF StandingsTypeOK
<1>4. PICK w \in winners \cup {NoEntry} :
        /\ winnerOf' = [winnerOf EXCEPT ![p] = w]
        /\ w \in winners => Leads(w, winners)
        /\ w = NoEntry => winners = {}
  <2>1. CASE winners = {}
    <3>1. winnerOf' = winnerOf /\ winnerOf[p] = NoEntry
      BY <1>1, <2>1 DEF Give, PrizesInv
    <3> QED BY <1>3, <2>1, <3>1
  <2>2. CASE winners # {}
    BY <2>2, StandingsAssumption DEF Give
  <2> QED BY <2>1, <2>2
<1>5. winnerOf'[p] = w /\ \A q \in awarded' : q # p => q \in awarded /\ winnerOf'[q] = winnerOf[q]
  BY <1>1, <1>3, <1>4
<1>6. \A q \in awarded', r \in Prizes \ awarded' : Before(q, r)'
  BY <1>1, <1>2 DEF PrizesInv
<1>7. \A q \in Prizes \ awarded' : winnerOf'[q] = NoEntry
  BY <1>1, <1>3, <1>4 DEF PrizesInv
<1>8. OnePrizeEach'
  <2>1. ASSUME NEW q \in awarded, w # NoEntry, winnerOf[q] = w, prize[q].kind = prize[p].kind
        PROVE  FALSE
    BY <1>4, <2>1 DEF HasWon
  <2>2. ASSUME NEW q \in awarded', NEW r \in awarded', winnerOf'[q] = winnerOf'[r],
               winnerOf'[q] # NoEntry, prize'[q].kind = prize'[r].kind
        PROVE  q = r
    <3>1. CASE q # p /\ r # p
      BY <1>1, <1>5, <2>2, <3>1 DEF PrizesInv, OnePrizeEach
    <3>2. CASE q = p /\ r # p
      BY <1>1, <1>5, <2>1, <2>2, <3>2
    <3>3. CASE q # p /\ r = p
      BY <1>1, <1>5, <2>1, <2>2, <3>3
    <3> QED BY <3>1, <3>2, <3>3
  <2> QED BY <2>2 DEF OnePrizeEach
<1>9. NobodyPassedOver'
  <2>1. ASSUME NEW q \in awarded', prize'[q].kind = "RANK"
        PROVE  winnerOf'[q] \in Qualified(q)' \cup {NoEntry}
    <3>1. CASE q = p
      BY <1>1, <1>2, <1>4, <1>5, <2>1, <3>1 DEF Candidates
    <3>2. CASE q # p
      BY <1>1, <1>2, <1>5, <2>1, <3>2 DEF PrizesInv, NobodyPassedOver
    <3> QED BY <3>1, <3>2
  <2>2. ASSUME NEW q \in awarded', prize'[q].kind = "RANK", NEW e \in Entries,
               PassedOver(q, e)'
        PROVE  FALSE
    <3>1. /\ e \in Qualified(q)
          /\ winnerOf'[q] = NoEntry \/ Ahead(e, winnerOf'[q])
          /\ ~\E r \in awarded' : prize[r].kind = "RANK" /\ Before(r, q) /\ winnerOf'[r] = e
      BY <1>1, <1>2, <2>2 DEF PassedOver
    <3>2. CASE q = p
      <4>1. e \notin Candidates(p)
        <5>1. SUFFICES ASSUME e \in Candidates(p) PROVE FALSE
          OBVIOUS
        <5>2. w \in winners /\ Leads(w, winners) /\ e \in winners
          BY <1>1, <1>4, <2>2, <3>2, <5>1
        <5>3. w # NoEntry /\ Ahead(e, w)
          BY <1>5, <3>1, <3>2, <5>2, StandingsAssumption
        <5>4. w = e \/ Ahead(w, e)
          BY <5>2 DEF Leads
        <5> QED BY <5>2, <5>3, <5>4, AheadOneWay
      <4>2. HasWon(e, "RANK")
        BY <3>1, <3>2, <4>1 DEF Candidates
      <4>3. PICK r \in awarded : prize[r].kind = "RANK" /\ winnerOf[r] = e
        BY <4>2 DEF HasWon
      <4>4. Before(r, p)
        BY <1>1, <4>3 DEF PrizesInv
      <4> QED BY <1>1, <1>5, <3>1, <3>2, <4>3, <4>4
    <3>3. CASE q # p
      <4>1. q \in awarded /\ winnerOf'[q] = winnerOf[q]
        BY <1>5, <3>3
      <4>2. ~\E r \in awarded : prize[r].kind = "RANK" /\ Before(r, q) /\ winnerOf[r] = e
        BY <1>1, <1>5, <3>1
      <4>3. PassedOver(q, e)
        BY <3>1, <4>1, <4>2 DEF PassedOver
      <4> QED BY <1>1, <2>2, <4>1, <4>3 DEF PrizesInv, NobodyPassedOver
    <3> QED BY <3>2, <3>3
  <2> QED BY <2>1, <2>2 DEF NobodyPassedOver
<1> QED BY <1>6, <1>7, <1>8, <1>9 DEF PrizesInv

LEMMA PrizesStay ==
  ASSUME PrizesInv, UNCHANGED <<scored, prize, awarded, winnerOf>>
  PROVE  PrizesInv'
<1>1. /\ \A f, g : Ahead(f, g)' <=> Ahead(f, g)
      /\ \A q, r : Before(q, r)' <=> Before(q, r)
      /\ \A q : Qualified(q)' = Qualified(q)
  BY DEF Ahead, Before, Qualified, Thin, Pool, Eligible
<1>2. \A q \in awarded, e \in Entries : PassedOver(q, e)' <=> PassedOver(q, e)
  BY <1>1 DEF PassedOver
<1>3. OnePrizeEach'
  BY DEF PrizesInv, OnePrizeEach
<1>4. NobodyPassedOver'
  BY <1>1, <1>2 DEF PrizesInv, NobodyPassedOver
<1> QED BY <1>1, <1>3, <1>4 DEF PrizesInv

LEMMA StandingsInvNext ==
  StandingsTypeOK /\ RanksInv /\ PrizesInv /\ [StandingsNext]_standingsVars
    => RanksInv' /\ PrizesInv'
<1> SUFFICES ASSUME StandingsTypeOK, RanksInv, PrizesInv, [StandingsNext]_standingsVars
             PROVE  RanksInv' /\ PrizesInv'
  OBVIOUS
<1>1. ASSUME NEW e \in Entries, RankNext(e) PROVE RanksInv' /\ PrizesInv'
  <2>1. UNCHANGED <<scored, prize, awarded, winnerOf>>
    BY <1>1 DEF RankNext
  <2> QED BY <1>1, <2>1, RankNextKeeps, PrizesStay
<1>2. ASSUME NEW p \in Prizes, AwardRank(p) PROVE RanksInv' /\ PrizesInv'
  <2>1. /\ IsNext(p) /\ Give(p, Candidates(p)) /\ prize[p].kind = "RANK"
        /\ UNCHANGED <<scored, ranked, nextInTrack, rankOf, overallRank>>
    BY <1>2 DEF AwardRank, Give
  <2>2. Candidates(p) \in SUBSET Entries /\ \A w \in Candidates(p) : ~HasWon(w, "RANK")
    BY DEF Candidates, Qualified, Pool
  <2> QED BY <2>1, <2>2, GiveKeeps, RanksStay
<1>3. ASSUME NEW p \in Prizes, AwardSpecial(p) PROVE RanksInv' /\ PrizesInv'
  <2>1. /\ IsNext(p) /\ Give(p, Chosen(p)) /\ prize[p].kind = "SPECIAL"
        /\ UNCHANGED <<scored, ranked, nextInTrack, rankOf, overallRank>>
    BY <1>3 DEF AwardSpecial, Give
  <2>2. Chosen(p) \in SUBSET Entries /\ \A w \in Chosen(p) : ~HasWon(w, "SPECIAL")
    BY DEF Chosen
  <2> QED BY <2>1, <2>2, GiveKeeps, RanksStay
<1>4. CASE UNCHANGED standingsVars
  BY <1>4, RanksStay, PrizesStay DEF standingsVars
<1> QED BY <1>1, <1>2, <1>3, <1>4 DEF StandingsNext

LEMMA StandingsInvInit == StandingsInit => RanksInv /\ PrizesInv
<1> SUFFICES ASSUME StandingsInit PROVE RanksInv /\ PrizesInv
  OBVIOUS
<1>1. RanksInv
  <2>1. \A t \in Tracks : InTrack(t) = {} /\ nextInTrack[t] = 0
    BY DEF StandingsInit, InTrack
  <2> QED BY <2>1, FS_EmptySet DEF StandingsInit, RanksInv, RanksCount
<1>2. PrizesInv
  BY DEF StandingsInit, PrizesInv, OnePrizeEach, NobodyPassedOver
<1> QED BY <1>1, <1>2

(* compareRank is a total order of the entries, and the prizes are in one. *)
LEMMA ScoreNumbers ==
  ASSUME StandingsTypeOK, NEW e \in Entries
  PROVE  /\ scored[e].total \in Nat /\ scored[e].people \in Nat
         /\ scored[e].jury \in Nat /\ scored[e].at \in Nat /\ e \in Nat
<1>1. scored[e] \in EntryRecords
  BY StandingsAssumption DEF StandingsTypeOK, EntryRecords
<1>2. \A x \in EntryRecords : /\ x.total \in Nat /\ x.people \in Nat
                              /\ x.jury \in Nat /\ x.at \in Nat
  BY DEF EntryRecords
<1> QED BY <1>1, <1>2, StandingsAssumption

LEMMA AheadTotal ==
  ASSUME StandingsTypeOK, NEW e \in Entries, NEW f \in Entries, e # f
  PROVE  Ahead(e, f) \/ Ahead(f, e)
<1>1. PICK x : x = scored[e]
  OBVIOUS
<1>2. PICK y : y = scored[f]
  OBVIOUS
<1>3. /\ x.total \in Nat /\ x.people \in Nat /\ x.jury \in Nat /\ x.at \in Nat /\ e \in Nat
      /\ y.total \in Nat /\ y.people \in Nat /\ y.jury \in Nat /\ y.at \in Nat /\ f \in Nat
  BY <1>1, <1>2, ScoreNumbers
<1> QED BY <1>1, <1>2, <1>3 DEF Ahead, Earlier

LEMMA AheadTransitive ==
  ASSUME StandingsTypeOK, NEW e \in Entries, NEW f \in Entries, NEW g \in Entries,
         Ahead(e, f), Ahead(f, g)
  PROVE  Ahead(e, g)
<1>1. PICK x : x = scored[e]
  OBVIOUS
<1>2. PICK y : y = scored[f]
  OBVIOUS
<1>3. PICK z : z = scored[g]
  OBVIOUS
<1>4. /\ x.total \in Nat /\ x.people \in Nat /\ x.jury \in Nat /\ x.at \in Nat /\ e \in Nat
      /\ y.total \in Nat /\ y.people \in Nat /\ y.jury \in Nat /\ y.at \in Nat /\ f \in Nat
      /\ z.total \in Nat /\ z.people \in Nat /\ z.jury \in Nat /\ z.at \in Nat /\ g \in Nat
  BY <1>1, <1>2, <1>3, ScoreNumbers
<1> QED BY <1>1, <1>2, <1>3, <1>4 DEF Ahead, Earlier

(* In a finite set some element comes first in a total order of it.        *)
LEMMA FirstExists ==
  ASSUME NEW S, IsFiniteSet(S), S # {}, NEW R,
         \A x, y \in S : x = y \/ <<x, y>> \in R \/ <<y, x>> \in R,
         \A x, y, z \in S : <<x, y>> \in R /\ <<y, z>> \in R => <<x, z>> \in R
  PROVE  \E x \in S : \A y \in S : y = x \/ <<x, y>> \in R
<1> DEFINE HasFirst(T) == \E x \in T : \A y \in T : y = x \/ <<x, y>> \in R
           Bad == {T \in SUBSET S : T # {} /\ ~HasFirst(T)}
<1> SUFFICES ASSUME Bad # {} PROVE FALSE
  OBVIOUS
<1>1. Bad \subseteq SUBSET S
  OBVIOUS
<1>2. PICK T \in Bad : \A U \in Bad : U \subseteq T => U = T
  <2> HIDE DEF Bad
  <2> QED BY <1>1, MinimalSubset
<1>3. PICK x : x \in T
  OBVIOUS
<1>4. T \ {x} \notin Bad /\ T \ {x} \in SUBSET S
  <2>1. T \ {x} \subseteq T /\ T \ {x} # T
    BY <1>3
  <2>2. T \in SUBSET S
    BY <1>1
  <2> HIDE DEF Bad
  <2> QED BY <1>2, <2>1, <2>2
<1>5. CASE T \ {x} = {}
  BY <1>2, <1>3, <1>5
<1>6. CASE T \ {x} # {}
  <2>1. PICK y \in T \ {x} : \A z \in T \ {x} : z = y \/ <<y, z>> \in R
    BY <1>4, <1>6
  <2>2. x \in S /\ y \in S /\ x # y
    BY <1>3
  <2>3. CASE <<y, x>> \in R
    <3>1. \A z \in T : z = y \/ <<y, z>> \in R
      BY <2>1, <2>3
    <3> QED BY <1>2, <3>1
  <2>4. CASE <<x, y>> \in R
    <3>1. \A z \in T : z = x \/ <<x, z>> \in R
      BY <2>1, <2>2, <2>4
    <3> QED BY <1>2, <1>3, <3>1
  <2> QED BY <2>2, <2>3, <2>4
<1> QED BY <1>5, <1>6

LEMMA LeaderExists ==
  ASSUME StandingsTypeOK, NEW S \in SUBSET Entries, S # {}
  PROVE  \E e \in Entries : LeadsAlone(e, S)
<1>1. PICK R : R = {r \in Entries \X Entries : Ahead(r[1], r[2])}
  OBVIOUS
<1>2. \A e, f \in Entries : <<e, f>> \in R <=> Ahead(e, f)
  BY <1>1
<1>3. IsFiniteSet(S)
  BY StandingsAssumption, FS_Subset
<1>4. \A e, f \in S : e = f \/ <<e, f>> \in R \/ <<f, e>> \in R
  BY <1>2, AheadTotal
<1>5. \A e, f, g \in S : <<e, f>> \in R /\ <<f, g>> \in R => <<e, g>> \in R
  BY <1>2, AheadTransitive
<1>6. PICK e \in S : \A f \in S : f = e \/ <<e, f>> \in R
  BY <1>3, <1>4, <1>5, FirstExists
<1>7. \A f \in S : f = e \/ Ahead(e, f)
  BY <1>2, <1>6
<1>8. \A f \in S : Leads(f, S) => f = e
  BY <1>7, AheadOneWay DEF Leads
<1> QED BY <1>7, <1>8 DEF LeadsAlone, Leads

PrizeRecords == [kind : {"RANK", "SPECIAL"}, track : Tracks,
                 category : {"", "TECH", "NON_TECH"}, rank : Nat, order : Nat,
                 chosen : Entries \cup {NoEntry}]

LEMMA BeforeOrders ==
  ASSUME StandingsTypeOK
  PROVE  /\ \A p, q \in Prizes : p = q \/ Before(p, q) \/ Before(q, p)
         /\ \A p, q \in Prizes : ~(Before(p, q) /\ Before(q, p))
         /\ \A p, q, r \in Prizes : Before(p, q) /\ Before(q, r) => Before(p, r)
<1>1. \A p \in Prizes : prize[p].rank \in Nat /\ prize[p].order \in Nat /\ p \in Nat
  <2>1. \A p \in Prizes : prize[p] \in PrizeRecords
    BY StandingsAssumption DEF StandingsTypeOK, PrizeRecords
  <2>2. \A x \in PrizeRecords : x.rank \in Nat /\ x.order \in Nat
    BY DEF PrizeRecords
  <2> QED BY <2>1, <2>2, StandingsAssumption
<1>2. ASSUME NEW p \in Prizes, NEW q \in Prizes
      PROVE  (p = q \/ Before(p, q) \/ Before(q, p)) /\ ~(Before(p, q) /\ Before(q, p))
  BY <1>1 DEF Before
<1>3. ASSUME NEW p \in Prizes, NEW q \in Prizes, NEW r \in Prizes, Before(p, q), Before(q, r)
      PROVE  Before(p, r)
  BY <1>1, <1>3 DEF Before
<1> QED BY <1>2, <1>3

(* So neither loop hangs, and neither depends on the order of its input.   *)
THEOREM OneAlwaysComesNext == StandingsSpec => []OneComesNext
<1>1. StandingsTypeOK => OneComesNext
  <2> SUFFICES ASSUME StandingsTypeOK PROVE OneComesNext
    OBVIOUS
  <2>1. ASSUME ranked # Entries PROVE \E e \in Entries : LeadsAlone(e, Entries \ ranked)
    <3>1. Entries \ ranked # {} /\ Entries \ ranked \in SUBSET Entries
      BY <2>1 DEF StandingsTypeOK
    <3> QED BY <3>1, LeaderExists
  <2>2. ASSUME ranked = Entries, awarded # Prizes
        PROVE  \E p \in Prizes :
                 /\ IsNext(p) /\ \A q \in Prizes : IsNext(q) => q = p
                 /\ WinnersOf(p) # {} => \E w \in Entries : LeadsAlone(w, WinnersOf(p))
    <3>1. PICK S : S = Prizes \ awarded
      OBVIOUS
    <3>2. PICK R : R = {r \in Prizes \X Prizes : Before(r[1], r[2])}
      OBVIOUS
    <3>3. \A p, q \in Prizes : <<p, q>> \in R <=> Before(p, q)
      BY <3>2
    <3>4. IsFiniteSet(S) /\ S # {} /\ S \subseteq Prizes
      BY <2>2, <3>1, StandingsAssumption, FS_Subset DEF StandingsTypeOK
    <3>5. \A p, q \in S : p = q \/ <<p, q>> \in R \/ <<q, p>> \in R
      BY <3>3, <3>4, BeforeOrders
    <3>6. \A p, q, r \in S : <<p, q>> \in R /\ <<q, r>> \in R => <<p, r>> \in R
      BY <3>3, <3>4, BeforeOrders
    <3>7. PICK p \in S : \A q \in S : q = p \/ <<p, q>> \in R
      BY <3>4, <3>5, <3>6, FirstExists
    <3>8. IsNext(p)
      BY <2>2, <3>1, <3>3, <3>4, <3>7 DEF IsNext
    <3>9. \A q \in Prizes : IsNext(q) => q = p
      BY <3>1, <3>4, <3>8, BeforeOrders DEF IsNext
    <3>10. WinnersOf(p) \in SUBSET Entries
      BY DEF WinnersOf, Candidates, Qualified, Pool, Chosen
    <3> QED BY <3>4, <3>8, <3>9, <3>10, LeaderExists
  <2> QED BY <2>1, <2>2 DEF OneComesNext
<1> QED BY <1>1, StandingsTypeCorrect, PTL

(* Ranks count those ahead, nobody wins twice, nobody who qualifies is     *)
(* passed over, and one is always next, for any entries, scores and prizes.*)
THEOREM StandingsAlwaysFair == StandingsSpec => []StandingsFair
<1>1. RanksInv /\ PrizesInv /\ OneComesNext => StandingsFair
  BY DEF RanksInv, PrizesInv, StandingsFair
<1> QED BY <1>1, StandingsInvInit, StandingsInvNext, StandingsTypeCorrect, OneAlwaysComesNext, PTL
        DEF StandingsSpec

(***************************************************************************)
(* The composition: each part behaves as it does alone.                    *)
(***************************************************************************)

PartsInv == part \in {"ideas", "codes", "reads", "lock", "product", "standings"}

(* A behaviour of the composition is one of every part, so that what a run *)
(* finds out about the composition and what is proved of the parts are     *)
(* about the same steps.                                                   *)
THEOREM PartsAreAlone ==
  PartsSpec => /\ IdeasSpec /\ CodesSpec /\ ReadsSpec
               /\ LockSpec /\ ProductsSpec /\ StandingsSpec
<1>1. PartsInit => /\ IdeasInit /\ CodesInit /\ ReadsInit
                   /\ LockInit /\ ProductsInit /\ StandingsInit
  BY DEF PartsInit
<1>2. [PartsNext]_partsVars => /\ [IdeasNext]_ideaVars /\ [CodesNext]_codeVars
                               /\ [ReadsNext]_readVars /\ [LockNext]_lockVars
                               /\ [ProductsNext]_productVars
                               /\ [StandingsNext]_standingsVars
  BY DEF PartsNext, partsVars
<1> QED BY <1>1, <1>2, PTL
        DEF PartsSpec, IdeasSpec, CodesSpec, ReadsSpec, LockSpec, ProductsSpec, StandingsSpec

(* The variables of every part keep their types.                           *)
THEOREM PartsTypeCorrect == PartsSpec => []PartsTypeOK
<1>1. PartsInit => PartsInv
  BY DEF PartsInit, PartsInv
<1>2. PartsInv /\ [PartsNext]_partsVars => PartsInv'
  BY DEF PartsInv, PartsNext, partsVars
<1>3. PartsInv /\ IdeasTypeOK /\ CodesTypeOK /\ ReadsTypeOK /\ LockTypeOK
      /\ ProductsTypeOK /\ StandingsTypeOK => PartsTypeOK
  BY DEF PartsInv, PartsTypeOK
<1> QED BY <1>1, <1>2, <1>3, PartsAreAlone, IdeasTypeCorrect, CodesTypeCorrect,
           ReadsTypeCorrect, LockTypeCorrect, ProductsTypeCorrect, StandingsTypeCorrect, PTL
        DEF PartsSpec
================================================================================
