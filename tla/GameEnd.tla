--------------------------------- MODULE GameEnd ---------------------------------
(***************************************************************************)
(* The end of the contest and its result: lib/phase-transition.ts,         *)
(* lib/phase.ts, lib/settlement.ts, the final AI evaluation of             *)
(* lib/jury-ai.ts, the scheduler's closeAtDeadline and the organiser's     *)
(* buttons (app/admin/control, app/admin/settlement, app/admin/actions).   *)
(*                                                                         *)
(* What the teams do and the jury writes is a counter, `facts`: a later    *)
(* value includes the earlier ones.  A score is the values it was computed *)
(* from: of `facts`, and of the AI's final evaluation (itself the value of *)
(* `facts` at which the product was read).  One product stands for all.    *)
(***************************************************************************)
EXTENDS Integers, Sequences

CONSTANTS
  AiConfigured,  \* aiClient() is not null
  Manual,        \* bound: which organiser's operations and failures a run takes
  MaxPresses,    \* bound: how many of them
  MaxFacts       \* bound: how often the contest changes, the last sale apart

ManualOperations ==
  {"end", "deadline", "settle", "resettle", "ai", "fail", "restart"}

ASSUME EndAssumption ==
  /\ AiConfigured \in BOOLEAN
  /\ Manual \subseteq ManualOperations
  /\ MaxPresses \in Nat /\ MaxFacts \in Nat

Deadlines == {"first", "moved"}
Closers == {"scheduler", "organiser"}     \* who runs transitionTo("CLOSED")
Settlers == Closers \cup {"button"}       \* who calls settleGame
Resettlers == Settlers \cup {"panel"}     \* who calls resettleGame: a closer's AI run,
                                          \* the button, or the AI run of the panel
None == -1
NoScore == [facts |-> None, ai |-> None]

VARIABLES
  phase,        \* Setting phase
  deadline,     \* Setting phase_ends_at, "none" if empty
  passed,       \* the deadlines that lie in the past
  mover,        \* setDeadlineAction; bound: it is called once
  facts,        \* support, purchases, products, jury scores
  auctionLive,  \* a live auction with a bid is waiting for its end
  closer,       \* transitionTo of each closer: where it is, the deadline it has read
  settleQueue,  \* the chain of settleGame calls behind settleInFlight
  settleRun,    \* settleGameOnce of the first of them
  resettle,     \* resettleGame of each resettler
  ai,           \* runFinalAiEvaluation (finalRunning: not idle)
  aiFinal,      \* Product.aiFinal
  score,        \* TeamScore and settled_at
  settledFinal, \* settled_final
  mustCount,    \* history: the facts when the contest closed and its auctions ended
  forced,       \* history: the forced AI evaluation of the end has been stored
  mishaps,      \* history: what went wrong on the way
  presses       \* how many of the operations of Manual have been taken

contest == <<phase, deadline, passed, mover, facts, auctionLive>>
runs == <<closer, settleQueue, settleRun, resettle, ai>>
result == <<aiFinal, score, settledFinal>>
history == <<mustCount, forced, mishaps, presses>>
vars == <<contest, runs, result, history>>

Versions == None..(MaxFacts + 1)
Scores == [facts : Versions, ai : Versions]
IdleCloser == [at |-> "idle", ends |-> "none"]
NoSettle == [at |-> "read", score |-> NoScore]
NoResettle == [at |-> "out", score |-> NoScore, awaits |-> "nobody"]
IdleAi == [at |-> "idle", by |-> "panel", seen |-> None]

TypeOK ==
  /\ phase \in {"LIVE", "CLOSED"} /\ deadline \in Deadlines \cup {"none"}
  /\ passed \subseteq Deadlines /\ mover \in {"idle", "read", "phase", "done"}
  /\ facts \in 0..(MaxFacts + 1) /\ auctionLive \in BOOLEAN
  /\ closer \in [Closers ->
       [at : {"idle", "read", "claimed", "phase", "closing", "ended", "settle", "ai"},
        ends : Deadlines \cup {"none"}]]
  /\ settleQueue \in Seq(Settlers)
  /\ settleRun \in [at : {"read", "compute", "write"}, score : Scores]
  /\ resettle \in [Resettlers -> [at : {"out", "wait", "write"}, score : Scores,
                                  awaits : Settlers \cup {"nobody"}]]
  /\ ai \in [at : {"idle", "ask"}, by : Closers \cup {"panel"}, seen : Versions]
  /\ aiFinal \in Versions /\ score \in Scores /\ settledFinal \in BOOLEAN
  /\ mustCount \in Versions /\ forced \in BOOLEAN
  /\ mishaps \subseteq {"early", "reopened", "failed", "restarted"}
  /\ presses \in 0..MaxPresses

Init ==
  /\ phase = "LIVE" /\ deadline = "first" /\ passed = {} /\ mover = "idle"
  /\ facts = 0 /\ auctionLive = TRUE
  /\ closer = [c \in Closers |-> IdleCloser]
  /\ settleQueue = <<>> /\ settleRun = NoSettle
  /\ resettle = [r \in Resettlers |-> NoResettle]
  /\ ai = IdleAi
  /\ aiFinal = None /\ score = NoScore /\ settledFinal = FALSE
  /\ mustCount = None /\ forced = FALSE /\ mishaps = {} /\ presses = 0

Settled == score # NoScore
InFlight == {settleQueue[i] : i \in DOMAIN settleQueue}
CachedScores == [facts |-> IF Settled THEN score.facts ELSE facts, ai |-> aiFinal]
ComputeScores == [facts |-> facts, ai |-> aiFinal]

(* An organiser's operation or a failure, within the bounds.               *)
Presses(operation) ==
  /\ operation \in Manual /\ presses < MaxPresses
  /\ presses' = presses + 1

(* The contest changes although its result is final or being made.         *)
NotesEarly ==
  mishaps' = IF \/ settledFinal \/ settleQueue # <<>>
                \/ \E r \in Resettlers : resettle[r].at # "out"
             THEN mishaps \cup {"early"} ELSE mishaps

(* The phase becomes CLOSED: from here on the facts must count.            *)
SetClosed ==
  /\ phase' = "CLOSED"
  /\ IF phase = "LIVE"
     THEN mustCount' = facts /\ NotesEarly
     ELSE UNCHANGED <<mustCount, mishaps>>
--------------------------------------------------------------------------------
(* The contest changes at any time: the jury works on after the end, and a *)
(* handler of a player that has passed its gate commits later.             *)

SaveJuryScore ==
  /\ facts < MaxFacts
  /\ facts' = facts + 1
  /\ UNCHANGED <<phase, deadline, passed, mover, auctionLive, runs, result, history>>

DeadlinePasses ==
  /\ deadline \in Deadlines \ passed
  /\ passed' = passed \cup {deadline}
  /\ UNCHANGED <<phase, deadline, mover, facts, auctionLive, runs, result, history>>

(* setDeadlineAction reads the phase and refuses a contest that is over;   *)
(* setPhase then writes the phase that was read, and after it the deadline.*)
MoverReads ==
  /\ Presses("deadline")
  /\ mover = "idle" /\ phase = "LIVE"
  /\ mover' = "read"
  /\ UNCHANGED <<phase, deadline, passed, facts, auctionLive, runs, result,
                 mustCount, forced, mishaps>>

MoverWritesPhase ==
  /\ mover = "read"
  /\ mover' = "phase"
  /\ phase' = "LIVE"
  /\ mishaps' = IF phase = "CLOSED" THEN mishaps \cup {"reopened"} ELSE mishaps
  /\ UNCHANGED <<deadline, passed, facts, auctionLive, runs, result,
                 mustCount, forced, presses>>

MoverWritesDeadline(d) ==
  /\ mover = "phase"
  /\ mover' = "done"
  /\ deadline' = d
  /\ UNCHANGED <<phase, passed, facts, auctionLive, runs, result, history>>
--------------------------------------------------------------------------------
(* Closing: closeAtDeadline and endContestAction, then transitionTo.       *)

Goes(c, at) == closer' = [closer EXCEPT ![c].at = at]

CloserReads(c) ==
  /\ closer[c].at = "idle" /\ phase = "LIVE"
  /\ CASE c = "scheduler" -> deadline \in passed /\ UNCHANGED presses
       [] c = "organiser" -> Presses("end")
  /\ closer' = [closer EXCEPT ![c] = [at |-> "read", ends |-> deadline]]
  /\ UNCHANGED <<contest, settleQueue, settleRun, resettle, ai, result,
                 mustCount, forced, mishaps>>

(* The scheduler claims the change of phase; it gives up if the organiser  *)
(* was faster.                                                             *)
Claim ==
  /\ closer["scheduler"].at = "read"
  /\ IF phase = "LIVE"
     THEN SetClosed /\ Goes("scheduler", "claimed")
     ELSE /\ closer' = [closer EXCEPT !["scheduler"] = IdleCloser]
          /\ UNCHANGED <<phase, mustCount, mishaps>>
  /\ UNCHANGED <<deadline, passed, mover, facts, auctionLive,
                 settleQueue, settleRun, resettle, ai, result, forced, presses>>

(* transitionTo sets the phase, of the scheduler once more, and then the   *)
(* deadline that its caller has read.                                      *)
TransitionSetsPhase(c) ==
  /\ closer[c].at = IF c = "scheduler" THEN "claimed" ELSE "read"
  /\ SetClosed /\ Goes(c, "phase")
  /\ UNCHANGED <<deadline, passed, mover, facts, auctionLive,
                 settleQueue, settleRun, resettle, ai, result, forced, presses>>

TransitionSetsDeadline(c) ==
  /\ closer[c].at = "phase"
  /\ deadline' = closer[c].ends /\ Goes(c, "closing")
  /\ UNCHANGED <<phase, passed, mover, facts, auctionLive,
                 settleQueue, settleRun, resettle, ai, result, history>>

CloseAuctionsAgain(c) ==
  /\ closer[c].at = "closing"
  /\ Goes(c, "ended")
  /\ auctionLive' = FALSE /\ facts' = facts + 1
  /\ mustCount' = facts + 1 /\ NotesEarly
  /\ UNCHANGED <<phase, deadline, passed, mover,
                 settleQueue, settleRun, resettle, ai, result, forced, presses>>

(* closeAuctionsForGameEnd: what the live auction sells has to count.      *)
CloseAuctions(c) ==
  /\ closer[c].at = "closing"
  /\ Goes(c, "ended")
  /\ IF auctionLive
     THEN /\ auctionLive' = FALSE /\ facts' = facts + 1
          /\ mustCount' = facts + 1 /\ NotesEarly
     ELSE UNCHANGED <<auctionLive, facts, mustCount, mishaps>>
  /\ UNCHANGED <<phase, deadline, passed, mover,
                 settleQueue, settleRun, resettle, ai, result, forced, presses>>

(* A failing step is reported and the end goes on; the auction stays LIVE. *)
CloseAuctionsFails(c) ==
  /\ Presses("fail")
  /\ closer[c].at = "closing"
  /\ Goes(c, "ended")
  /\ mishaps' = mishaps \cup {"failed"}
  /\ UNCHANGED <<contest, settleQueue, settleRun, resettle, ai, result, mustCount, forced>>
--------------------------------------------------------------------------------
(* settleGame: the calls queue up behind each other in the process.        *)

CloserSettles(c) ==
  /\ closer[c].at = "ended"
  /\ Goes(c, "settle") /\ settleQueue' = Append(settleQueue, c)
  /\ UNCHANGED <<contest, settleRun, resettle, ai, result, history>>

(* settleNowAction; bound: one call of the button at a time.               *)
SettleNow ==
  /\ Presses("settle")
  /\ "button" \notin InFlight
  /\ settleQueue' = Append(settleQueue, "button")
  /\ UNCHANGED <<contest, closer, settleRun, resettle, ai, result, mustCount, forced, mishaps>>

(* The first call of the queue ends: who awaits it goes on, a closer with  *)
(* the AI evaluation unless settling has failed.                           *)
SettlerLeaves(failed) ==
  LET s == Head(settleQueue)
  IN /\ settleQueue' = Tail(settleQueue) /\ settleRun' = NoSettle
     /\ resettle' = [r \in Resettlers |->
                       [resettle[r] EXCEPT !.awaits = IF @ = s THEN "nobody" ELSE @]]
     /\ IF s \notin Closers THEN UNCHANGED closer
        ELSE IF failed THEN closer' = [closer EXCEPT ![s] = IdleCloser]
        ELSE Goes(s, "ai")

AlreadySettled == Settled /\ (settledFinal \/ phase # "CLOSED")

SettleReadsOnce ==
  /\ settleQueue # <<>> /\ settleRun.at = "read"
  /\ IF Settled
     THEN SettlerLeaves(FALSE)
     ELSE /\ settleRun' = [settleRun EXCEPT !.at = "compute"]
          /\ UNCHANGED <<closer, settleQueue, resettle>>
  /\ UNCHANGED <<contest, ai, result, history>>

SettleReads ==
  /\ settleQueue # <<>> /\ settleRun.at = "read"
  /\ IF AlreadySettled
     THEN SettlerLeaves(FALSE)
     ELSE /\ settleRun' = [settleRun EXCEPT !.at = "compute"]
          /\ UNCHANGED <<closer, settleQueue, resettle>>
  /\ UNCHANGED <<contest, ai, result, history>>

SettleComputes ==
  /\ settleRun.at = "compute"
  /\ settleRun' = [at |-> "write", score |-> ComputeScores]
  /\ UNCHANGED <<contest, closer, settleQueue, resettle, ai, result, history>>

SettleWritesUnguarded ==
  /\ settleRun.at = "write"
  /\ score' = settleRun.score /\ settledFinal' = (phase = "CLOSED")
  /\ SettlerLeaves(FALSE)
  /\ UNCHANGED <<contest, ai, aiFinal, history>>

(* The writing transaction looks at the state of the settlement again.     *)
SettleWrites ==
  /\ settleRun.at = "write"
  /\ IF AlreadySettled
     THEN UNCHANGED <<score, settledFinal>>
     ELSE score' = settleRun.score /\ settledFinal' = (phase = "CLOSED")
  /\ SettlerLeaves(FALSE)
  /\ UNCHANGED <<contest, ai, aiFinal, history>>

SettleFails ==
  /\ Presses("fail")
  /\ settleRun.at \in {"compute", "write"}
  /\ SettlerLeaves(TRUE)
  /\ mishaps' = mishaps \cup {"failed"}
  /\ UNCHANGED <<contest, ai, result, mustCount, forced>>
--------------------------------------------------------------------------------
(* resettleGame waits for the settlement that was called last, then        *)
(* computes and replaces what is there.                                    *)

ResettleBegins(r) ==
  resettle' = [resettle EXCEPT ![r] =
                 [at |-> "wait", score |-> NoScore,
                  awaits |-> IF settleQueue = <<>> THEN "nobody"
                             ELSE settleQueue[Len(settleQueue)]]]

Resettle ==
  /\ Presses("resettle")
  /\ resettle["button"].at = "out" /\ Settled
  /\ ResettleBegins("button")
  /\ UNCHANGED <<contest, closer, settleQueue, settleRun, ai, result, mustCount, forced, mishaps>>

ResettleComputes(r) ==
  /\ resettle[r].at = "wait" /\ resettle[r].awaits = "nobody"
  /\ resettle' = [resettle EXCEPT ![r].at = "write", ![r].score = ComputeScores]
  /\ UNCHANGED <<contest, closer, settleQueue, settleRun, ai, result, history>>

ResettleWrites(r) ==
  /\ resettle[r].at = "write"
  /\ score' = resettle[r].score
  /\ settledFinal' = (settledFinal \/ phase = "CLOSED")
  /\ resettle' = [resettle EXCEPT ![r] = NoResettle]
  /\ UNCHANGED <<contest, closer, settleQueue, settleRun, ai, aiFinal, history>>
--------------------------------------------------------------------------------
(* runFinalAiEvaluation: one run at a time in the process; a second call   *)
(* returns at once with nothing done.                                      *)

Asks(by) == ai' = [at |-> "ask", by |-> by, seen |-> facts]

EndEvaluatesJoins(c) ==
  /\ closer[c].at = "ai"
  /\ closer' = [closer EXCEPT ![c] = IdleCloser]
  /\ IF ~AiConfigured THEN UNCHANGED ai
     ELSE IF ai.at = "idle" THEN Asks(c) ELSE ai' = [ai EXCEPT !.by = c]
  /\ UNCHANGED <<contest, settleQueue, settleRun, resettle, result, history>>

(* The end evaluates every product afresh (force).                         *)
EndEvaluates(c) ==
  /\ closer[c].at = "ai"
  /\ closer' = [closer EXCEPT ![c] = IdleCloser]
  /\ IF AiConfigured /\ ai.at = "idle" THEN Asks(c) ELSE UNCHANGED ai
  /\ UNCHANGED <<contest, settleQueue, settleRun, resettle, result, history>>

(* The panel's run only fills in what has no evaluation yet.               *)
PanelEvaluates ==
  /\ Presses("ai")
  /\ AiConfigured /\ ai.at = "idle" /\ aiFinal = None
  /\ resettle["panel"].at = "out"
  /\ Asks("panel")
  /\ UNCHANGED <<contest, closer, settleQueue, settleRun, resettle, result, mustCount, forced, mishaps>>

(* The answer is stored; then the run's caller has the scores replaced.    *)
(* Bound: one replacement of a caller at a time.                           *)
AiAnswers ==
  /\ ai.at = "ask"
  /\ resettle[ai.by].at = "out"
  /\ aiFinal' = ai.seen
  /\ ai' = IdleAi
  /\ forced' = (forced \/ ai.by \in Closers)
  /\ IF ai.by \in Closers \/ Settled
     THEN ResettleBegins(ai.by)
     ELSE UNCHANGED resettle
  /\ UNCHANGED <<contest, closer, settleQueue, settleRun, score, settledFinal, mustCount, mishaps, presses>>

AiFails ==
  /\ Presses("fail")
  /\ ai.at = "ask"
  /\ ai' = IdleAi
  /\ UNCHANGED <<contest, closer, settleQueue, settleRun, resettle, result, mustCount, forced, mishaps>>
--------------------------------------------------------------------------------
(* Nothing resumes the end of a contest after the process has stopped.     *)
Restart ==
  /\ Presses("restart")
  /\ "restarted" \notin mishaps
  /\ mishaps' = mishaps \cup {"restarted"}
  /\ mover' = "done"
  /\ closer' = [c \in Closers |-> IdleCloser]
  /\ settleQueue' = <<>> /\ settleRun' = NoSettle
  /\ resettle' = [r \in Resettlers |-> NoResettle]
  /\ ai' = IdleAi
  /\ UNCHANGED <<phase, deadline, passed, facts, auctionLive, result, mustCount, forced>>

Next ==
  \/ SaveJuryScore \/ DeadlinePasses
  \/ MoverReads \/ MoverWritesPhase
  \/ \E d \in {"none", "moved"} : MoverWritesDeadline(d)
  \/ \E c \in Closers :
       \/ CloserReads(c) \/ TransitionSetsPhase(c) \/ TransitionSetsDeadline(c)
       \/ CloseAuctions(c) \/ CloseAuctionsFails(c) \/ CloserSettles(c)
       \/ EndEvaluates(c)
  \/ Claim \/ SettleNow
  \/ SettleReads \/ SettleComputes \/ SettleWrites \/ SettleFails
  \/ Resettle
  \/ \E r \in Resettlers : ResettleComputes(r) \/ ResettleWrites(r)
  \/ PanelEvaluates \/ AiAnswers \/ AiFails
  \/ Restart

Spec == Init /\ [][Next]_vars

(* Time passes, the scheduler ticks every half minute, and a transitionTo  *)
(* or settleGame that has begun runs on.                                   *)
Fairness ==
  /\ WF_vars(DeadlinePasses)
  /\ WF_vars(CloserReads("scheduler")) /\ WF_vars(Claim)
  /\ \A c \in Closers :
       WF_vars(\/ TransitionSetsPhase(c) \/ TransitionSetsDeadline(c)
               \/ CloseAuctions(c) \/ CloserSettles(c))
  /\ WF_vars(SettleReads \/ SettleComputes \/ SettleWrites)

FairSpec == Spec /\ Fairness
--------------------------------------------------------------------------------
(* Properties *)

(* "Reaching CLOSED always settles again, with everything up to CLOSED"    *)
(* (phase-transition.ts:31): a final result contains all that happened     *)
(* before the contest closed and what its last auction sold, if no         *)
(* settlement was under way at those moments.                              *)
FinalHasAll ==
  settledFinal /\ mishaps \cap {"early", "reopened"} = {} => score.facts >= mustCount

(* settleGame never replaces a final result, whatever made it final while  *)
(* the scores were being computed; only a resettlement does.               *)
SettleKeepsFinal ==
  [][Settled /\ settledFinal =>
       score' = score \/ \E r \in Resettlers : resettle[r].at = "write"
                                               /\ resettle'[r].at = "out"]_vars

(* Once the end's own evaluation is stored, no older evaluation replaces   *)
(* it: it has seen the contest as it was when it closed.                   *)
ForcedIsFresh ==
  forced /\ mishaps \cap {"early", "reopened"} = {} => aiFinal >= mustCount

(* A contest whose deadline has passed gets its final result, whoever      *)
(* closes it, unless the deadline is moved, a step fails, or the process   *)
(* stops on the way.                                                       *)
EndsSettled ==
  phase = "LIVE" /\ deadline \in passed
    ~> settledFinal \/ deadline \notin passed
       \/ mishaps \cap {"reopened", "failed", "restarted"} # {}

(* "With the end of the contest an early settlement is recomputed with all *)
(* activity up to that moment" (app/admin/actions.ts:22): when everything  *)
(* has run to its end, the final result contains the contest.              *)
EndIsOver ==
  /\ phase = "CLOSED" /\ ~auctionLive
  /\ \A c \in Closers : closer[c].at = "idle"
  /\ InFlight = {} /\ \A r \in Resettlers : resettle[r].at = "out"
  /\ ai.at = "idle"
ResultCoversContest == EndIsOver => score.facts >= mustCount

(* Ending the contest "is irreversible" (ControlForms.tsx:127).            *)
ClosedForGood == [][phase = "CLOSED" => phase' = "CLOSED"]_vars
================================================================================
