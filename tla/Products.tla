-------------------------------- MODULE Products ---------------------------------
(***************************************************************************)
(* One product of one team: saving, submitting and unlocking it            *)
(* (app/build/actions.ts), the AI's feedback on it (lib/jury-ai.ts,        *)
(* lib/ai.ts), the public showcase (lib/showcase.ts) and the requests to   *)
(* go live in the studio (lib/studio.ts).                                  *)
(*                                                                         *)
(* Nothing here is a transaction: a handler reads the row, waits, and      *)
(* writes some of its columns; hand[h] keeps what it read.  Any of its     *)
(* queries may throw.  A page is all that the form of the product sends;   *)
(* quality is the page that the AI's stored score is about.  The contest   *)
(* is in one phase.                                                        *)
(***************************************************************************)
EXTENDS Naturals, FiniteSets

CONSTANTS
  Hands,        \* bound: requests of the team at work at one time
  Pages,        \* bound: what the form may hold
  NoPage,
  EvalCap,      \* AI_EVAL_CAP_PER_PHASE
  CountTries,   \* the attempts of incrementAiEvalCount
  MaxAnswers,   \* bound: answers of the AI
  MaxMishaps    \* bound: queries that throw, and restarts

ASSUME ProductsAssumption ==
  /\ NoPage \notin Pages
  /\ IsFiniteSet(Hands) /\ Hands # {}
  /\ EvalCap \in Nat \ {0} /\ CountTries \in Nat \ {0}
  /\ MaxAnswers \in Nat /\ MaxMishaps \in Nat

VARIABLES
  product,      \* the Product row; page is NoPage before the first save
  juryCache,    \* the Setting row ai:jury: the page, and when (at) it was stored
  evalCount,    \* the Setting row ai_eval_count:jury
  hand,         \* the team's requests
  panel,        \* the organiser's pages that list the product
  pick,         \* setShowcaseFeatured between its check and its write
  cooled,       \* a submit of the team in the last AI_SUBMIT_COOLDOWN_MS
  aiOpen, showcaseOpen, studioOpen,   \* the modules
  approved,     \* history: the page that the organiser approved last
  decided,      \* history: the status of the publication that the organiser set last
  answers,      \* history: evaluations for submissions
  rechecks,     \* history: evaluations for requestAiRecheck
  uncounted,    \* history: those whose request stopped, threw or gave up before the count
  burned,       \* history: a recheck stopped or threw between its claim and its answer
  overtaken, outrun, mixed,   \* history: what else the properties make an exception for
  mishaps

productRows == <<product, juryCache, evalCount>>
curator == <<panel, pick>>
productModules == <<aiOpen, showcaseOpen, studioOpen>>
evals == <<answers, rechecks>>
lost == <<uncounted, burned, mishaps>>
reviews == <<approved, decided, overtaken, outrun>>
productHistory == <<reviews, evals, mixed, lost>>
productVars == <<productRows, hand, curator, cooled, productModules, productHistory>>

NoCache == [page |-> NoPage, at |-> 0]
IdleHand == [at |-> "idle", page |-> NoPage, submit |-> FALSE, seen |-> "", before |-> NoCache,
             force |-> FALSE, owes |-> FALSE, tries |-> 0, counted |-> 0]

Publications == {"", "REQUESTED", "PUBLISHING", "LIVE", "REJECTED"}
Published == {"PUBLISHING", "LIVE"}

CacheRows == [page : Pages \cup {NoPage}, at : Nat]
ProductRows ==
  [page : Pages \cup {NoPage}, submitted : BOOLEAN,
   showcase : {"", "REQUESTED", "APPROVED", "REJECTED"}, featured : BOOLEAN,
   live : Publications, quality : Pages \cup {NoPage}, recheckUsed : BOOLEAN]
HandRows ==
  [at : {"idle", "save", "eval", "mark", "read", "look", "ask", "store", "after", "count",
         "swap", "reset", "unlock", "show", "publish"},
   page : Pages \cup {NoPage}, submit : BOOLEAN, seen : {"", "REQUESTED", "APPROVED", "REJECTED"},
   before : CacheRows, force : BOOLEAN, owes : BOOLEAN, tries : Nat, counted : Nat]

ProductsTypeOK ==
  /\ product \in ProductRows /\ juryCache \in CacheRows /\ evalCount \in Nat
  /\ hand \in [Hands -> HandRows]
  /\ panel \subseteq {"showcase", "studio"} /\ pick \in {"idle", "on", "off"}
  /\ cooled \in BOOLEAN
  /\ aiOpen \in BOOLEAN /\ showcaseOpen \in BOOLEAN /\ studioOpen \in BOOLEAN
  /\ approved \in Pages \cup {NoPage} /\ decided \in Publications
  /\ answers \in Nat /\ rechecks \in Nat
  /\ uncounted \in Nat /\ burned \in BOOLEAN /\ mishaps \in Nat
  /\ overtaken \in BOOLEAN /\ outrun \in BOOLEAN /\ mixed \in BOOLEAN

ProductsInit ==
  /\ product = [page |-> NoPage, submitted |-> FALSE, showcase |-> "", featured |-> FALSE,
                live |-> "", quality |-> NoPage, recheckUsed |-> FALSE]
  /\ juryCache = NoCache /\ evalCount = 0
  /\ hand = [h \in Hands |-> IdleHand]
  /\ panel = {} /\ pick = "idle" /\ cooled = FALSE
  /\ aiOpen \in BOOLEAN /\ showcaseOpen \in BOOLEAN /\ studioOpen \in BOOLEAN
  /\ approved = NoPage /\ decided = "" /\ answers = 0 /\ rechecks = 0
  /\ uncounted = 0 /\ burned = FALSE /\ mishaps = 0
  /\ overtaken = FALSE /\ outrun = FALSE /\ mixed = FALSE

Made == product.page # NoPage
HandAt(h, step) == hand[h].at = step
HandTurns(h, to) == hand' = [hand EXCEPT ![h] = to]
HandEnds(h) == HandTurns(h, IdleHand)
--------------------------------------------------------------------------------
(* saveProductAction: a submitted product is refused ...                   *)
SaveProductReads(h, page, submit) ==
  /\ HandAt(h, "idle") /\ ~product.submitted
  /\ HandTurns(h, [IdleHand EXCEPT !.at = "save", !.page = page, !.submit = submit])
  /\ UNCHANGED <<productRows, curator, cooled, productModules, productHistory>>

(* ... a submit too soon after the last one too ...                        *)
SaveProductTooSoon(h) ==
  /\ HandAt(h, "save") /\ hand[h].submit /\ cooled
  /\ HandEnds(h)
  /\ UNCHANGED <<productRows, curator, cooled, productModules, productHistory>>

(* ... and the row is written, whatever happened to it since.              *)
SaveProduct(h) ==
  /\ HandAt(h, "save") /\ ~(hand[h].submit /\ cooled)
  /\ cooled' = (cooled \/ hand[h].submit)
  /\ product' = [product EXCEPT !.page = hand[h].page, !.submitted = @ \/ hand[h].submit]
  /\ overtaken' = (overtaken \/ product.submitted)
  /\ IF hand[h].submit THEN HandTurns(h, [IdleHand EXCEPT !.at = "eval"]) ELSE HandEnds(h)
  /\ UNCHANGED <<juryCache, evalCount, curator, productModules, approved, decided, outrun, evals,
                 mixed, lost>>

(* unsubmitProductAction: what was approved has to be approved again, by   *)
(* the status that was read.                                               *)
UnlockReads(h) ==
  /\ HandAt(h, "idle") /\ Made
  /\ HandTurns(h, [IdleHand EXCEPT !.at = "unlock", !.seen = product.showcase])
  /\ UNCHANGED <<productRows, curator, cooled, productModules, productHistory>>

AfterUnlockKept(h) == product.showcase
AfterUnlock(h) == IF hand[h].seen = "APPROVED" THEN "REQUESTED" ELSE product.showcase

UnlockWrites(h) ==
  /\ HandAt(h, "unlock")
  /\ product' = [product EXCEPT !.submitted = FALSE, !.showcase = AfterUnlock(h)]
  /\ HandEnds(h)
  /\ UNCHANGED <<juryCache, evalCount, curator, cooled, productModules, productHistory>>
--------------------------------------------------------------------------------
(* runCappedAiEval: below the cap the evaluation runs, and the cache row   *)
(* is remembered to see whether it did.                                    *)
EvalCounts(h) ==
  /\ HandAt(h, "eval")
  /\ IF evalCount < EvalCap
     THEN HandTurns(h, [IdleHand EXCEPT !.at = "mark"])
     ELSE HandEnds(h)
  /\ UNCHANGED <<productRows, curator, cooled, productModules, productHistory>>

EvalMarks(h) ==
  /\ HandAt(h, "mark")
  /\ HandTurns(h, [IdleHand EXCEPT !.at = "read", !.before = juryCache])
  /\ UNCHANGED <<productRows, curator, cooled, productModules, productHistory>>

(* runJuryAi reads the page, and asks the AI about it; about the page that *)
(* the cache holds only if it is forced.  Without an answer ...            *)
Unanswered(h) == HandTurns(h, [hand[h] EXCEPT !.at = IF hand[h].force THEN "reset" ELSE "after"])

EvalReads(h) ==
  /\ HandAt(h, "read")
  /\ IF aiOpen
     THEN HandTurns(h, [hand[h] EXCEPT !.at = IF hand[h].force THEN "ask" ELSE "look",
                                       !.page = product.page])
     ELSE Unanswered(h)
  /\ UNCHANGED <<productRows, curator, cooled, productModules, productHistory>>

EvalLooks(h) ==
  /\ HandAt(h, "look")
  /\ IF juryCache.page # hand[h].page
     THEN HandTurns(h, [hand[h] EXCEPT !.at = "ask"])
     ELSE Unanswered(h)
  /\ UNCHANGED <<productRows, curator, cooled, productModules, productHistory>>

AiFails(h) ==
  /\ HandAt(h, "ask")
  /\ Unanswered(h)
  /\ UNCHANGED <<productRows, curator, cooled, productModules, productHistory>>

(* ... nothing is stored; an answer is stored in the row, and then in the  *)
(* cache.                                                                  *)
Storing == {h \in Hands : HandAt(h, "store")}

AiAnswers(h) ==
  /\ HandAt(h, "ask") /\ answers + rechecks < MaxAnswers
  /\ product' = [product EXCEPT !.quality = hand[h].page]
  /\ HandTurns(h, [hand[h] EXCEPT !.at = "store", !.owes = ~hand[h].force])
  /\ IF hand[h].force
     THEN rechecks' = rechecks + 1 /\ UNCHANGED answers
     ELSE answers' = answers + 1 /\ UNCHANGED rechecks
  /\ mixed' = (mixed \/ Storing # {})
  /\ UNCHANGED <<juryCache, evalCount, curator, cooled, productModules, reviews, lost>>

CacheStoresUnforced(h) ==
  /\ HandAt(h, "store")
  /\ juryCache' = IF hand[h].force THEN juryCache
                  ELSE [page |-> hand[h].page, at |-> juryCache.at + 1]
  /\ IF hand[h].force THEN HandEnds(h) ELSE HandTurns(h, [hand[h] EXCEPT !.at = "after"])
  /\ UNCHANGED <<product, evalCount, curator, cooled, productModules, productHistory>>

CacheStores(h) ==
  /\ HandAt(h, "store")
  /\ juryCache' = [page |-> hand[h].page, at |-> juryCache.at + 1]
  /\ IF hand[h].force THEN HandEnds(h) ELSE HandTurns(h, [hand[h] EXCEPT !.at = "after"])
  /\ UNCHANGED <<product, evalCount, curator, cooled, productModules, productHistory>>

(* An evaluation counts if the cache row has changed, its time included.   *)
Evaluated(h) == juryCache # hand[h].before

CapReads(h) ==
  /\ HandAt(h, "after")
  /\ IF Evaluated(h)
     THEN HandTurns(h, [IdleHand EXCEPT !.at = "count", !.owes = hand[h].owes])
     ELSE HandEnds(h)
  /\ UNCHANGED <<productRows, curator, cooled, productModules, productHistory>>

(* incrementAiEvalCount: the counter is read, and replaced if it still is  *)
(* what was read; after some attempts it is left as it is.                 *)
CountReads(h) ==
  /\ HandAt(h, "count")
  /\ HandTurns(h, [hand[h] EXCEPT !.at = "swap", !.tries = @ + 1, !.counted = evalCount])
  /\ UNCHANGED <<productRows, curator, cooled, productModules, productHistory>>

CountSwaps(h) ==
  /\ HandAt(h, "swap") /\ evalCount = hand[h].counted
  /\ evalCount' = evalCount + 1
  /\ HandEnds(h)
  /\ UNCHANGED <<product, juryCache, curator, cooled, productModules, productHistory>>

CountMisses(h) ==
  /\ HandAt(h, "swap") /\ evalCount # hand[h].counted /\ hand[h].tries < CountTries
  /\ HandTurns(h, [hand[h] EXCEPT !.at = "count"])
  /\ UNCHANGED <<productRows, curator, cooled, productModules, productHistory>>

(* The answer that this request owes to the counter, if any.               *)
Owes(h) == IF hand[h].owes THEN 1 ELSE 0

CountGivesUp(h) ==
  /\ HandAt(h, "swap") /\ evalCount # hand[h].counted /\ CountTries <= hand[h].tries
  /\ uncounted' = uncounted + Owes(h)
  /\ HandEnds(h)
  /\ UNCHANGED <<productRows, curator, cooled, productModules, reviews, evals, mixed, burned,
                 mishaps>>

(* requestAiRecheck: one claim for each product, given back if the AI does *)
(* not answer.                                                             *)
RecheckClaims(h) ==
  /\ HandAt(h, "idle") /\ aiOpen
  /\ product.submitted /\ ~product.recheckUsed
  /\ product' = [product EXCEPT !.recheckUsed = TRUE]
  /\ HandTurns(h, [IdleHand EXCEPT !.at = "read", !.force = TRUE])
  /\ UNCHANGED <<juryCache, evalCount, curator, cooled, productModules, productHistory>>

RecheckResets(h) ==
  /\ HandAt(h, "reset")
  /\ product' = [product EXCEPT !.recheckUsed = FALSE]
  /\ HandEnds(h)
  /\ UNCHANGED <<juryCache, evalCount, curator, cooled, productModules, productHistory>>
--------------------------------------------------------------------------------
(* The showcase: the team's request ...                                    *)
RequestShowcaseReads(h) ==
  /\ HandAt(h, "idle") /\ showcaseOpen
  /\ product.submitted /\ product.showcase \notin {"REQUESTED", "APPROVED"}
  /\ HandTurns(h, [IdleHand EXCEPT !.at = "show"])
  /\ UNCHANGED <<productRows, curator, cooled, productModules, productHistory>>

RequestShowcase(h) ==
  /\ HandAt(h, "show")
  /\ product' = [product EXCEPT !.showcase = "REQUESTED"]
  /\ HandEnds(h)
  /\ UNCHANGED <<juryCache, evalCount, curator, cooled, productModules, productHistory>>

(* ... and its withdrawal; a pick of the organiser under way comes after.  *)
Leaves == overtaken' = (overtaken \/ pick = "on")

WithdrawShowcase ==
  /\ Made
  /\ product' = [product EXCEPT !.showcase = "", !.featured = FALSE]
  /\ Leaves
  /\ UNCHANGED <<juryCache, evalCount, hand, curator, cooled, productModules, approved, decided,
                 outrun, evals, mixed, lost>>

(* The organiser decides on what the page listed when it was loaded; what  *)
(* has become of the product since is not looked at.                       *)
Listed == (IF product.showcase # "" THEN {"showcase"} ELSE {})
          \cup (IF product.live # "" THEN {"studio"} ELSE {})

PanelLoads(list) ==
  /\ panel' = (panel \ {list}) \cup (Listed \cap {list})
  /\ UNCHANGED <<productRows, hand, pick, cooled, productModules, productHistory>>

UnlocksUnapproved == \E h \in Hands : HandAt(h, "unlock") /\ hand[h].seen # "APPROVED"

ApproveShowcase ==
  /\ "showcase" \in panel
  /\ product' = [product EXCEPT !.showcase = "APPROVED"]
  /\ approved' = product.page
  /\ overtaken' = (overtaken \/ ~product.submitted \/ UnlocksUnapproved)
  /\ UNCHANGED <<juryCache, evalCount, hand, curator, cooled, productModules, decided, outrun,
                 evals, mixed, lost>>

RejectShowcase ==
  /\ "showcase" \in panel
  /\ product' = [product EXCEPT !.showcase = "REJECTED", !.featured = FALSE]
  /\ Leaves
  /\ UNCHANGED <<juryCache, evalCount, hand, curator, cooled, productModules, approved, decided,
                 outrun, evals, mixed, lost>>

(* setShowcaseFeatured checks the status, and writes later.                *)
FeatureReads(to) ==
  /\ "showcase" \in panel /\ pick = "idle" /\ product.showcase = "APPROVED"
  /\ pick' = to
  /\ UNCHANGED <<productRows, hand, panel, cooled, productModules, productHistory>>

SetFeatured ==
  /\ pick # "idle"
  /\ product' = [product EXCEPT !.featured = (pick = "on")]
  /\ pick' = "idle"
  /\ UNCHANGED <<juryCache, evalCount, hand, panel, cooled, productModules, productHistory>>
--------------------------------------------------------------------------------
(* The studio: the team's request is refused once the publication has      *)
(* begun, and written later ...                                            *)
RequestGoLiveReads(h) ==
  /\ HandAt(h, "idle") /\ studioOpen
  /\ product.submitted /\ product.live \notin Published
  /\ HandTurns(h, [IdleHand EXCEPT !.at = "publish"])
  /\ UNCHANGED <<productRows, curator, cooled, productModules, productHistory>>

RequestGoLive(h) ==
  /\ HandAt(h, "publish")
  /\ product' = [product EXCEPT !.live = "REQUESTED"]
  /\ outrun' = (outrun \/ product.live \in Published)
  /\ HandEnds(h)
  /\ UNCHANGED <<juryCache, evalCount, curator, cooled, productModules, approved, decided, overtaken,
                 evals, mixed, lost>>

(* ... its cancellation checks in the write; the organiser sets any        *)
(* status.                                                                 *)
CanCancel == product.live \in {"REQUESTED", "REJECTED"}

CancelGoLive ==
  /\ CanCancel
  /\ product' = [product EXCEPT !.live = ""]
  /\ UNCHANGED <<juryCache, evalCount, hand, curator, cooled, productModules, productHistory>>

AdminSetLiveStatus(to) ==
  /\ "studio" \in panel
  /\ product' = [product EXCEPT !.live = to]
  /\ decided' = to
  /\ UNCHANGED <<juryCache, evalCount, hand, curator, cooled, productModules, approved, overtaken,
                 outrun, evals, mixed, lost>>
--------------------------------------------------------------------------------
SubmitCooldownEnds ==
  /\ cooled /\ cooled' = FALSE
  /\ UNCHANGED <<productRows, hand, curator, productModules, productHistory>>

(* A query throws, without effect.  Within runJuryAi a submission catches  *)
(* it and goes on to the count; everything else ends there, also a recheck *)
(* with its claim and a submission that has been charged its cooldown.     *)
Evaluating(h) == hand[h].at \in {"read", "look", "ask", "store"} /\ ~hand[h].force

HandThrows(h) ==
  /\ mishaps < MaxMishaps /\ mishaps' = mishaps + 1
  /\ ~HandAt(h, "idle")
  /\ IF Evaluating(h)
     THEN HandTurns(h, [hand[h] EXCEPT !.at = "after", !.owes = FALSE])
     ELSE HandEnds(h)
  /\ uncounted' = uncounted + Owes(h)
  /\ burned' = (burned \/ (hand[h].force /\ ~HandAt(h, "store")))
  /\ mixed' = (mixed \/ HandAt(h, "store"))
  /\ cooled' \in {cooled, cooled \/ hand[h].submit}
  /\ UNCHANGED <<productRows, curator, productModules, reviews, evals>>

SetFeaturedThrows ==
  /\ mishaps < MaxMishaps /\ mishaps' = mishaps + 1
  /\ pick # "idle" /\ pick' = "idle"
  /\ UNCHANGED <<productRows, hand, panel, cooled, productModules, reviews, evals, mixed,
                 uncounted, burned>>

(* The process stops: the handlers and the cooldown are gone.              *)
Owed == {h \in Hands : hand[h].owes}

ProductsRestart ==
  /\ mishaps < MaxMishaps /\ mishaps' = mishaps + 1
  /\ hand' = [h \in Hands |-> IdleHand] /\ pick' = "idle" /\ cooled' = FALSE
  /\ uncounted' = uncounted + Cardinality(Owed)
  /\ burned' = (burned \/ \E h \in Hands : hand[h].force /\ ~HandAt(h, "store"))
  /\ mixed' = (mixed \/ Storing # {})
  /\ UNCHANGED <<productRows, panel, productModules, reviews, evals>>

TeamStep(h) ==
  \/ \E page \in Pages, submit \in BOOLEAN : SaveProductReads(h, page, submit)
  \/ SaveProductTooSoon(h) \/ SaveProduct(h)
  \/ UnlockReads(h) \/ UnlockWrites(h)
  \/ RequestShowcaseReads(h) \/ RequestShowcase(h)
  \/ RequestGoLiveReads(h) \/ RequestGoLive(h)

FeedbackStep(h) ==
  \/ EvalCounts(h) \/ EvalMarks(h) \/ EvalReads(h) \/ EvalLooks(h) \/ AiFails(h) \/ AiAnswers(h)
  \/ CacheStores(h) \/ CapReads(h)
  \/ CountReads(h) \/ CountSwaps(h) \/ CountMisses(h) \/ CountGivesUp(h)
  \/ RecheckClaims(h) \/ RecheckResets(h)
  \/ HandThrows(h)

CuratorStep ==
  \/ \E list \in {"showcase", "studio"} : PanelLoads(list)
  \/ ApproveShowcase \/ RejectShowcase
  \/ \E to \in {"on", "off"} : FeatureReads(to)
  \/ SetFeatured \/ SetFeaturedThrows
  \/ \E to \in Publications \ {""} : AdminSetLiveStatus(to)

ProductsNext ==
  \/ \E h \in Hands : TeamStep(h) \/ FeedbackStep(h)
  \/ WithdrawShowcase \/ CancelGoLive
  \/ CuratorStep
  \/ SubmitCooldownEnds
  \/ ProductsRestart

ProductsSpec == ProductsInit /\ [][ProductsNext]_productVars
--------------------------------------------------------------------------------
(* Properties *)

(* "A submitted product changes only after it is unlocked, or an old tab   *)
(* could change it without a review of the showcase", and "after it is     *)
(* submitted again the organiser must approve again" (build/actions.ts:120 *)
(* and 273): what the showcase shows is what the organiser approved, and a *)
(* product that was withdrawn or rejected is not the committee's choice;   *)
(* over any number of edits, unless a handler wrote over what had happened *)
(* since it read, or an unlocked product was approved.                     *)
ShownIsApproved ==
  ~overtaken =>
    /\ product.showcase = "APPROVED" /\ product.submitted => product.page = approved
    /\ product.featured => product.showcase \in {"APPROVED", "REQUESTED"}

(* "Until the publication begins" (studio.ts:72) a request can be made or  *)
(* taken back; from then on the status is the one that the organiser set,  *)
(* unless a request that had read an older one was written over it.        *)
PublicationKept == ~outrun /\ decided \in Published => product.live = decided

(* Both: what the organiser decided about the product stands.              *)
DecisionsStand == ShownIsApproved /\ PublicationKept

(* "At most AI_EVAL_CAP_PER_PHASE real feedbacks" (build/actions.ts:242),  *)
(* "only a real evaluation is counted" (ai.ts:171) and "a recheck only     *)
(* once; if it is not done the team's share must not be burned" (jury-ai.  *)
(* ts:135 and 145).  Every answer for a submission is counted, or its      *)
(* request is on its way to do so, or was lost on that way: it stopped, a  *)
(* query threw, or its attempts at the counter failed.  Beyond the cap     *)
(* there are at most those of the other handlers that were at work when    *)
(* the last one below it began.  A used recheck has its answer or its      *)
(* request, unless that stopped or threw before the answer.                *)
EvalsCounted ==
  /\ answers <= evalCount + Cardinality(Owed) + uncounted
  /\ evalCount < EvalCap + Cardinality(Hands)
  /\ rechecks <= 1
  /\ product.recheckUsed /\ ~burned => rechecks = 1 \/ \E h \in Hands : hand[h].force

(* The cache answers for the stored score: a page that is not evaluated    *)
(* again because it was the last one is the one that the score is about,   *)
(* unless two evaluations stored their answers at the same time or one did *)
(* not get from the score to the cache.                                    *)
FeedbackFits == ~mixed /\ Storing = {} => juryCache.page = product.quality

(* Both: what the AI said about the product is counted and is about it.    *)
FeedbackKept == EvalsCounted /\ FeedbackFits
================================================================================
