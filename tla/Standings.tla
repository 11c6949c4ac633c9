------------------------------- MODULE Standings ---------------------------------
(***************************************************************************)
(* The ranking of the scored entries (the end of scoreGame in              *)
(* lib/economy/engine.ts) and the prizes (computeAwards in lib/prizes.ts). *)
(*                                                                         *)
(* Both run without a pause; a step here is one turn of their loops.  An   *)
(* entry is a team in a track, its name a number in the order of entryKey; *)
(* a prize is its place in listPrizes.  The scores are what scoreGame has  *)
(* computed; they are compared, never computed with.  jury is 0 without a  *)
(* jury's score, and at is 0 without a submitted product.                  *)
(***************************************************************************)
EXTENDS Naturals, FiniteSets

CONSTANTS
  Entries, NoEntry, Tracks,
  EntryRows,    \* bound: what a scored entry may be
  Prizes,
  PrizeRows,    \* bound: what a prize may be
  MinEntries,   \* prize_min_entries
  MinJury       \* prize_min_jury

ASSUME StandingsAssumption ==
  /\ Entries \subseteq Nat /\ IsFiniteSet(Entries) /\ NoEntry \notin Entries
  /\ Prizes \subseteq Nat /\ IsFiniteSet(Prizes)
  /\ EntryRows \subseteq [track : Tracks, category : {"", "TECH", "NON_TECH"}, members : Nat,
                          total : Nat, people : Nat, jury : Nat, at : Nat]
  /\ PrizeRows \subseteq [kind : {"RANK", "SPECIAL"}, track : Tracks,
                          category : {"", "TECH", "NON_TECH"}, rank : Nat, order : Nat,
                          chosen : Entries \cup {NoEntry}]
  /\ MinEntries \in Nat /\ MinJury \in Nat

VARIABLES
  scored,       \* the entries with their scores
  prize,        \* the Prize rows
  ranked,       \* the entries that have their ranks
  nextInTrack,  \* the last rank given in each track
  rankOf, overallRank,
  awarded,      \* the prizes that were looked at
  winnerOf      \* NoEntry for a prize that is not given

standingsVars == <<scored, prize, ranked, nextInTrack, rankOf, overallRank, awarded, winnerOf>>

StandingsTypeOK ==
  /\ scored \in [Entries -> EntryRows] /\ prize \in [Prizes -> PrizeRows]
  /\ ranked \subseteq Entries /\ nextInTrack \in [Tracks -> Nat]
  /\ rankOf \in [Entries -> Nat] /\ overallRank \in [Entries -> Nat]
  /\ awarded \subseteq Prizes /\ winnerOf \in [Prizes -> Entries \cup {NoEntry}]

StandingsInit ==
  /\ scored \in [Entries -> EntryRows] /\ prize \in [Prizes -> PrizeRows]
  /\ ranked = {} /\ nextInTrack = [t \in Tracks |-> 0]
  /\ rankOf = [e \in Entries |-> 0] /\ overallRank = [e \in Entries |-> 0]
  /\ awarded = {} /\ winnerOf = [p \in Prizes |-> NoEntry]
--------------------------------------------------------------------------------
(* compareRank: the total, then the support, the jury, the earlier product *)
(* (none is last), and the key.                                            *)
Earlier(x, y) == x.at # 0 /\ (y.at = 0 \/ x.at < y.at)

Ahead(e, f) ==
  LET x == scored[e]
      y == scored[f]
  IN  \/ x.total > y.total
      \/ x.total = y.total /\ x.people > y.people
      \/ x.total = y.total /\ x.people = y.people /\ x.jury > y.jury
      \/ /\ x.total = y.total /\ x.people = y.people /\ x.jury = y.jury
         /\ Earlier(x, y) \/ (x.at = y.at /\ e < f)

Leads(e, others) == \A f \in others : f = e \/ Ahead(e, f)

RankNext(e) ==
  LET t == scored[e].track IN
  /\ e \in Entries \ ranked /\ Leads(e, Entries \ ranked)
  /\ ranked' = ranked \cup {e}
  /\ overallRank' = [overallRank EXCEPT ![e] = Cardinality(ranked) + 1]
  /\ nextInTrack' = [nextInTrack EXCEPT ![t] = @ + 1]
  /\ rankOf' = [rankOf EXCEPT ![e] = nextInTrack[t] + 1]
  /\ UNCHANGED <<scored, prize, awarded, winnerOf>>
--------------------------------------------------------------------------------
(* computeAwards goes through the prizes by rank and order.                *)
Before(p, q) ==
  \/ prize[p].rank < prize[q].rank
  \/ prize[p].rank = prize[q].rank /\ prize[p].order < prize[q].order
  \/ prize[p].rank = prize[q].rank /\ prize[p].order = prize[q].order /\ p < q

IsNext(p) ==
  /\ ranked = Entries
  /\ p \in Prizes \ awarded
  /\ \A q \in Prizes \ awarded : q = p \/ Before(p, q)

Eligible(e) == scored[e].members > 0 /\ scored[e].at # 0 /\ scored[e].total > 0

HasWon(e, kind) == \E p \in awarded : prize[p].kind = kind /\ winnerOf[p] = e

Pool(p) ==
  {e \in Entries : /\ scored[e].track = prize[p].track
                   /\ prize[p].category \in {"", scored[e].category}}

(* Few contenders: only a jury's score above the minimum wins.             *)
Thin(p) == Cardinality({e \in Pool(p) : scored[e].at # 0}) < MinEntries

Qualified(p) == {e \in Pool(p) : Eligible(e) /\ (Thin(p) => scored[e].jury >= MinJury)}

CandidatesAgain(p) == Qualified(p)
Candidates(p) == {e \in Qualified(p) : ~HasWon(e, "RANK")}

(* The entry of the product that the committee chose.                      *)
Chosen(p) ==
  {e \in Entries : e = prize[p].chosen /\ Eligible(e) /\ ~HasWon(e, "SPECIAL")}

Give(p, winners) ==
  /\ awarded' = awarded \cup {p}
  /\ IF winners = {}
     THEN UNCHANGED winnerOf
     ELSE \E w \in winners : Leads(w, winners) /\ winnerOf' = [winnerOf EXCEPT ![p] = w]
  /\ UNCHANGED <<scored, prize, ranked, nextInTrack, rankOf, overallRank>>

AwardRank(p) == IsNext(p) /\ prize[p].kind = "RANK" /\ Give(p, Candidates(p))
AwardSpecial(p) == IsNext(p) /\ prize[p].kind = "SPECIAL" /\ Give(p, Chosen(p))

StandingsNext ==
  \/ \E e \in Entries : RankNext(e)
  \/ \E p \in Prizes : AwardRank(p) \/ AwardSpecial(p)

StandingsSpec == StandingsInit /\ [][StandingsNext]_standingsVars
--------------------------------------------------------------------------------
(* Properties *)

(* "The result does not depend on the order of the input" (engine.ts:112): *)
(* an entry's rank is the number of those ahead of it in its track, and    *)
(* one, and so overall.                                                    *)
RanksCount ==
  \A e \in ranked :
    LET better == {f \in Entries : Ahead(f, e)} IN
    /\ overallRank[e] = Cardinality(better) + 1
    /\ rankOf[e] = Cardinality({f \in better : scored[f].track = scored[e].track}) + 1

(* "Every entry wins at most one prize of a rank and one special prize"    *)
(* (prizes.ts:63).                                                         *)
OnePrizeEach ==
  \A p, q \in awarded :
    winnerOf[p] = winnerOf[q] /\ winnerOf[p] # NoEntry /\ prize[p].kind = prize[q].kind => p = q

(* Nobody who qualifies for a prize is passed over, neither by one behind  *)
(* nor by keeping the prize, unless an earlier prize went there.           *)
PassedOver(p, e) ==
  /\ e \in Qualified(p)
  /\ winnerOf[p] = NoEntry \/ Ahead(e, winnerOf[p])
  /\ ~\E q \in awarded : prize[q].kind = "RANK" /\ Before(q, p) /\ winnerOf[q] = e

NobodyPassedOver ==
  \A p \in awarded : prize[p].kind = "RANK" =>
    /\ winnerOf[p] \in Qualified(p) \cup {NoEntry}
    /\ ~\E e \in Entries : PassedOver(p, e)

(* Neither loop hangs on two entries or prizes that are equal, and which   *)
(* one is next never depends on the order of the input: of those that are  *)
(* left exactly one comes first, and of those that may win exactly one.    *)
LeadsAlone(e, others) ==
  e \in others /\ Leads(e, others) /\ \A f \in others : Leads(f, others) => f = e

WinnersOf(p) == IF prize[p].kind = "RANK" THEN Candidates(p) ELSE Chosen(p)

OneComesNext ==
  /\ ranked # Entries => \E e \in Entries : LeadsAlone(e, Entries \ ranked)
  /\ ranked = Entries /\ awarded # Prizes =>
       \E p \in Prizes :
         /\ IsNext(p) /\ \A q \in Prizes : IsNext(q) => q = p
         /\ WinnersOf(p) # {} => \E w \in Entries : LeadsAlone(w, WinnersOf(p))

(* Ranks and prizes together.                                              *)
StandingsFair == RanksCount /\ OnePrizeEach /\ NobodyPassedOver /\ OneComesNext
================================================================================
