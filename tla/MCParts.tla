------------------------------- MODULE MCParts ----------------------------------
(***************************************************************************)
(* Small instances of six parts of the server that share no state: the     *)
(* support of ideas, login codes, the live reads, the lock of the          *)
(* database, one product, and ranks and prizes.  As no step of one can     *)
(* matter to another one, a behaviour chooses its part at the beginning    *)
(* and leaves the others as they are.                                      *)
(***************************************************************************)
EXTENDS IdeaSupport, LoginCodes, LiveReads, DbLock, Products, Standings, TLC

CONSTANTS
  ana, m1, m2,                      \* support: one supporter, two handlers of the team
  c1, c2, c3, a1, a2, v1, v2,       \* codes: three codes, two requests, two answers
  l1, l2, l3, q1, s1,               \* reads: one request beside the broadcaster, one stream
  j1, j2, j3,                       \* lock: three jobs
  h1, h2, p1, p2                    \* product: two requests of the team, two pages

VARIABLE part

(* The two requests of the product's team are alike, and its two pages.    *)
SameHandsAndPages == Permutations(Hands) \cup Permutations(Pages)

TwoEach == [u \in Supporters |-> 2]

(* Entries that differ in one respect or in two: support, jury, date, no   *)
(* product, no members, no points, the category and the track.             *)
Entry(t, c, members, total, people, jury, at) ==
  [track |-> t, category |-> c, members |-> members, total |-> total, people |-> people,
   jury |-> jury, at |-> at]

Entry1 == Entry("general", "TECH", 1, 2, 1, 1, 1)

SomeEntries ==
  {Entry1, [Entry1 EXCEPT !.people = 0], [Entry1 EXCEPT !.people = 0, !.at = 2],
   [Entry1 EXCEPT !.jury = 0], [Entry1 EXCEPT !.at = 0], [Entry1 EXCEPT !.members = 0],
   [Entry1 EXCEPT !.total = 0], [Entry1 EXCEPT !.track = "os"],
   [Entry1 EXCEPT !.category = "NON_TECH"],
   [Entry1 EXCEPT !.category = "NON_TECH", !.jury = 0, !.at = 2]}

RankPrize(c, r, o) ==
  [kind |-> "RANK", track |-> "general", category |-> c, rank |-> r, order |-> o,
   chosen |-> NoEntry]

(* Two places of the general ranking, the first of a category, and a       *)
(* choice of the committee.                                                *)
SomePrizes ==
  {RankPrize("", 1, 0), RankPrize("", 2, 1), RankPrize("TECH", 1, 1),
   [RankPrize("", 1, 0) EXCEPT !.kind = "SPECIAL", !.chosen = 2]}

(* A part that was not chosen has one initial state.                       *)
PartsInit ==
  /\ part \in {"ideas", "codes", "reads", "lock", "product", "standings"}
  /\ IdeasInit /\ CodesInit /\ ReadsInit /\ LockInit /\ ProductsInit
  /\ part = "lock" \/ \A j \in Jobs : job[j].kind = "query"
  /\ IF part = "product"
     THEN <<aiOpen, showcaseOpen, studioOpen>> \in
            {<<TRUE, FALSE, FALSE>>, <<FALSE, TRUE, FALSE>>, <<FALSE, FALSE, TRUE>>}
     ELSE <<aiOpen, showcaseOpen, studioOpen>> = <<FALSE, FALSE, FALSE>>
  /\ scored \in [Entries -> IF part = "standings" THEN EntryRows ELSE {Entry1}]
  /\ prize \in [Prizes -> IF part = "standings" THEN PrizeRows ELSE {RankPrize("", 1, 0)}]
  /\ StandingsInit

PartsNext ==
  \/ /\ part = "ideas" /\ IdeasNext
     /\ UNCHANGED <<part, codeVars, readVars, lockVars, productVars, standingsVars>>
  \/ /\ part = "codes" /\ CodesNext
     /\ UNCHANGED <<part, ideaVars, readVars, lockVars, productVars, standingsVars>>
  \/ /\ part = "reads" /\ ReadsNext
     /\ UNCHANGED <<part, ideaVars, codeVars, lockVars, productVars, standingsVars>>
  \/ /\ part = "lock" /\ LockNext
     /\ UNCHANGED <<part, ideaVars, codeVars, readVars, productVars, standingsVars>>
  \/ /\ part = "product" /\ ProductsNext
     /\ UNCHANGED <<part, ideaVars, codeVars, readVars, lockVars, standingsVars>>
  \/ /\ part = "standings" /\ StandingsNext
     /\ UNCHANGED <<part, ideaVars, codeVars, readVars, lockVars, productVars>>

partsVars ==
  <<part, ideaVars, codeVars, readVars, lockVars, productVars, standingsVars>>

PartsSpec == PartsInit /\ [][PartsNext]_partsVars

(* Every variable of the part has its type; the other parts stay as they   *)
(* began.                                                                  *)
PartsTypeOK ==
  CASE part = "ideas" -> IdeasTypeOK
    [] part = "codes" -> CodesTypeOK
    [] part = "reads" -> ReadsTypeOK
    [] part = "lock" -> LockTypeOK
    [] part = "product" -> ProductsTypeOK
    [] part = "standings" -> StandingsTypeOK
================================================================================
