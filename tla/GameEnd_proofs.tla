----------------------------- MODULE GameEnd_proofs -----------------------------
(* The end of the contest, for any number of operations of the organiser,  *)
(* with and without an AI.                                                 *)
EXTENDS GameEnd, TLAPS

(* The last sale fits into the bound of facts.                             *)
SaleFits == auctionLive => facts <= MaxFacts

(* A run of settleGameOnce belongs to the first call of the queue.         *)
RunIsQueued == settleRun.at # "read" => settleQueue # <<>>

TypeInv == TypeOK /\ SaleFits /\ RunIsQueued

LEMMA PressesTypes ==
  ASSUME TypeOK, NEW operation, Presses(operation)
  PROVE  presses' \in 0..MaxPresses
  BY EndAssumption DEF TypeOK, Presses

LEMMA GoesTypes ==
  ASSUME TypeOK, NEW c \in Closers,
         NEW at \in {"idle", "read", "claimed", "phase", "closing", "ended", "settle", "ai"},
         Goes(c, at)
  PROVE  closer' \in [Closers ->
           [at : {"idle", "read", "claimed", "phase", "closing", "ended", "settle", "ai"},
            ends : Deadlines \cup {"none"}]]
  BY DEF TypeOK, Goes

LEMMA SetClosedTypes ==
  ASSUME TypeOK, SetClosed
  PROVE  /\ phase' \in {"LIVE", "CLOSED"} /\ mustCount' \in Versions
         /\ mishaps' \subseteq {"early", "reopened", "failed", "restarted"}
<1>1. mishaps' \subseteq {"early", "reopened", "failed", "restarted"}
  BY DEF TypeOK, SetClosed, NotesEarly
<1>2. facts \in Versions
  BY EndAssumption DEF TypeOK, Versions, None
<1> QED BY <1>1, <1>2 DEF TypeOK, SetClosed

LEMMA ComputeScoresTypes == ASSUME TypeOK PROVE ComputeScores \in Scores
  BY EndAssumption DEF TypeOK, ComputeScores, Scores, Versions, None

LEMMA NoScoreType == NoScore \in Scores
  BY EndAssumption DEF NoScore, Scores, Versions, None

LEMMA IdleTypes ==
  /\ IdleCloser \in [at : {"idle", "read", "claimed", "phase", "closing", "ended",
                          "settle", "ai"},
                    ends : Deadlines \cup {"none"}]
  /\ NoSettle \in [at : {"read", "compute", "write"}, score : Scores]
  /\ NoSettle.at = "read"
  /\ NoResettle \in [at : {"out", "wait", "write"}, score : Scores,
                    awaits : Settlers \cup {"nobody"}]
  /\ IdleAi \in [at : {"idle", "ask"}, by : Closers \cup {"panel"}, seen : Versions]
<1>1. None \in Versions
  BY EndAssumption DEF Versions, None
<1> QED BY <1>1, NoScoreType DEF IdleCloser, NoSettle, NoResettle, IdleAi

LEMMA SettlerLeavesTypes ==
  ASSUME TypeOK, settleQueue # <<>>, NEW failed \in BOOLEAN, SettlerLeaves(failed)
  PROVE  /\ settleQueue' \in Seq(Settlers)
         /\ settleRun' = NoSettle
         /\ resettle' \in [Resettlers -> [at : {"out", "wait", "write"}, score : Scores,
                                          awaits : Settlers \cup {"nobody"}]]
         /\ closer' \in [Closers ->
           [at : {"idle", "read", "claimed", "phase", "closing", "ended", "settle", "ai"},
            ends : Deadlines \cup {"none"}]]
<1> DEFINE s == Head(settleQueue)
<1>1. s \in Settlers /\ Tail(settleQueue) \in Seq(Settlers)
  BY DEF TypeOK
<1>2. settleQueue' = Tail(settleQueue) /\ settleRun' = NoSettle
  BY DEF SettlerLeaves
<1>3. resettle' = [r \in Resettlers |->
                     [resettle[r] EXCEPT !.awaits = IF @ = s THEN "nobody" ELSE @]]
  BY DEF SettlerLeaves
<1>4. resettle' \in [Resettlers -> [at : {"out", "wait", "write"}, score : Scores,
                                    awaits : Settlers \cup {"nobody"}]]
  BY <1>3 DEF TypeOK
<1>5. closer' \in [Closers ->
           [at : {"idle", "read", "claimed", "phase", "closing", "ended", "settle", "ai"},
            ends : Deadlines \cup {"none"}]]
  <2>1. CASE s \notin Closers
    BY <2>1 DEF SettlerLeaves, TypeOK
  <2>2. CASE s \in Closers /\ failed
    BY <2>2 DEF SettlerLeaves, TypeOK, IdleCloser
  <2>3. CASE s \in Closers /\ ~failed
    BY <2>3, GoesTypes DEF SettlerLeaves
  <2> QED BY <2>1, <2>2, <2>3
<1> QED BY <1>1, <1>2, <1>4, <1>5

LEMMA ResettleBeginsTypes ==
  ASSUME TypeOK, NEW r \in Resettlers, ResettleBegins(r)
  PROVE  resettle' \in [Resettlers -> [at : {"out", "wait", "write"}, score : Scores,
                                       awaits : Settlers \cup {"nobody"}]]
<1>1. settleQueue # <<>> => settleQueue[Len(settleQueue)] \in Settlers
  BY DEF TypeOK
<1> QED BY <1>1, NoScoreType DEF TypeOK, ResettleBegins

LEMMA TypeInvInit == Init => TypeInv
<1> SUFFICES ASSUME Init PROVE TypeInv
  OBVIOUS
<1>1. /\ settleQueue \in Seq(Settlers) /\ settleRun.at = "read"
      /\ settleRun \in [at : {"read", "compute", "write"}, score : Scores]
  BY IdleTypes DEF Init
<1>2. /\ closer \in [Closers ->
           [at : {"idle", "read", "claimed", "phase", "closing", "ended", "settle", "ai"},
            ends : Deadlines \cup {"none"}]]
      /\ resettle \in [Resettlers -> [at : {"out", "wait", "write"}, score : Scores,
                                      awaits : Settlers \cup {"nobody"}]]
      /\ ai \in [at : {"idle", "ask"}, by : Closers \cup {"panel"}, seen : Versions]
      /\ score \in Scores
  BY IdleTypes, NoScoreType DEF Init
<1>3. /\ facts \in 0..(MaxFacts + 1) /\ aiFinal \in Versions /\ mustCount \in Versions
      /\ presses \in 0..MaxPresses /\ SaleFits
  BY EndAssumption DEF Init, Versions, None, SaleFits
<1>4. /\ phase \in {"LIVE", "CLOSED"} /\ deadline \in Deadlines \cup {"none"}
      /\ passed \subseteq Deadlines /\ mover \in {"idle", "read", "phase", "done"}
      /\ auctionLive \in BOOLEAN /\ settledFinal \in BOOLEAN /\ forced \in BOOLEAN
      /\ mishaps \subseteq {"early", "reopened", "failed", "restarted"}
  BY DEF Init, Deadlines
<1> QED BY <1>1, <1>2, <1>3, <1>4 DEF TypeInv, TypeOK, RunIsQueued

LEMMA TypeInvNext == TypeInv /\ [Next]_vars => TypeInv'
<1> SUFFICES ASSUME TypeInv, [Next]_vars PROVE TypeInv'
  OBVIOUS
<1> USE DEF contest, runs, result, history, TypeInv, SaleFits, RunIsQueued
<1>1. ASSUME SaveJuryScore PROVE TypeInv'
  BY <1>1, EndAssumption DEF SaveJuryScore, TypeOK
<1>2. ASSUME DeadlinePasses PROVE TypeInv'
  BY <1>2 DEF DeadlinePasses, TypeOK
<1>3. ASSUME MoverReads PROVE TypeInv'
  BY <1>3, PressesTypes DEF MoverReads, TypeOK
<1>4. ASSUME MoverWritesPhase PROVE TypeInv'
  BY <1>4 DEF MoverWritesPhase, TypeOK
<1>5. ASSUME NEW d \in {"none", "moved"}, MoverWritesDeadline(d) PROVE TypeInv'
  BY <1>5 DEF MoverWritesDeadline, TypeOK, Deadlines
<1>6. ASSUME NEW c \in Closers, CloserReads(c) PROVE TypeInv'
  <2>1. presses' \in 0..MaxPresses
    BY <1>6, PressesTypes DEF CloserReads, TypeOK, Closers
  <2> QED BY <1>6, <2>1 DEF CloserReads, TypeOK
<1>7. ASSUME NEW c \in Closers, TransitionSetsPhase(c) PROVE TypeInv'
  BY <1>7, GoesTypes, SetClosedTypes DEF TransitionSetsPhase, TypeOK
<1>8. ASSUME NEW c \in Closers, TransitionSetsDeadline(c) PROVE TypeInv'
  BY <1>8, GoesTypes DEF TransitionSetsDeadline, TypeOK
<1>9. ASSUME NEW c \in Closers, CloseAuctions(c) PROVE TypeInv'
  <2>1. mishaps' \subseteq {"early", "reopened", "failed", "restarted"}
    BY <1>9 DEF CloseAuctions, NotesEarly, TypeOK
  <2>2. auctionLive => facts + 1 \in 0..(MaxFacts + 1) /\ facts + 1 \in Versions
    BY EndAssumption DEF TypeOK, Versions, None
  <2>3. facts' \in 0..(MaxFacts + 1) /\ mustCount' \in Versions /\ auctionLive' = FALSE
    BY <1>9, <2>2 DEF CloseAuctions, TypeOK
  <2> QED BY ZenonT(40), <1>9, <2>1, <2>3, GoesTypes DEF CloseAuctions, TypeOK
<1>10. ASSUME NEW c \in Closers, CloseAuctionsFails(c) PROVE TypeInv'
  BY <1>10, GoesTypes, PressesTypes DEF CloseAuctionsFails, TypeOK
<1>11. ASSUME NEW c \in Closers, CloserSettles(c) PROVE TypeInv'
  <2>1. settleQueue' \in Seq(Settlers) /\ settleQueue' # <<>>
    BY <1>11 DEF CloserSettles, TypeOK, Settlers
  <2> QED BY <1>11, <2>1, GoesTypes DEF CloserSettles, TypeOK
<1>12. ASSUME NEW c \in Closers, EndEvaluates(c) PROVE TypeInv'
  BY <1>12, EndAssumption DEF EndEvaluates, Asks, IdleCloser, TypeOK, Versions, None
<1>13. ASSUME Claim PROVE TypeInv'
  <2>1. CASE phase = "LIVE"
    BY <1>13, <2>1, GoesTypes, SetClosedTypes DEF Claim, TypeOK, Closers
  <2>2. CASE phase # "LIVE"
    <3>1. closer' = [closer EXCEPT !["scheduler"] = IdleCloser]
      BY <1>13, <2>2 DEF Claim
    <3>2. closer' \in [Closers ->
           [at : {"idle", "read", "claimed", "phase", "closing", "ended", "settle", "ai"},
            ends : Deadlines \cup {"none"}]]
      BY <3>1, IdleTypes DEF TypeOK
    <3>3. UNCHANGED <<phase, mustCount, mishaps>>
      BY <1>13, <2>2 DEF Claim
    <3> QED BY <1>13, <3>2, <3>3 DEF Claim, TypeOK
  <2> QED BY <2>1, <2>2
<1>14. ASSUME SettleNow PROVE TypeInv'
  <2>1. settleQueue' \in Seq(Settlers) /\ settleQueue' # <<>>
    BY <1>14 DEF SettleNow, TypeOK, Settlers
  <2> QED BY <1>14, <2>1, PressesTypes DEF SettleNow, TypeOK
<1>15. ASSUME SettleReads PROVE TypeInv'
  <2>1. CASE AlreadySettled
    BY ZenonT(40), <1>15, <2>1, SettlerLeavesTypes, IdleTypes DEF SettleReads, TypeOK
  <2>2. CASE ~AlreadySettled
    BY <1>15, <2>2 DEF SettleReads, TypeOK
  <2> QED BY <2>1, <2>2
<1>16. ASSUME SettleComputes PROVE TypeInv'
  BY <1>16, ComputeScoresTypes DEF SettleComputes, TypeOK
<1>17. ASSUME SettleWrites PROVE TypeInv'
  <2>1. settleQueue # <<>> /\ SettlerLeaves(FALSE)
    BY <1>17 DEF SettleWrites
  <2>2. score' \in Scores /\ settledFinal' \in BOOLEAN
    BY <1>17 DEF SettleWrites, TypeOK
  <2> QED BY <1>17, <2>1, <2>2, SettlerLeavesTypes, IdleTypes DEF SettleWrites, TypeOK
<1>18. ASSUME SettleFails PROVE TypeInv'
  <2>1. settleQueue # <<>> /\ SettlerLeaves(TRUE) /\ presses' \in 0..MaxPresses
    BY <1>18, PressesTypes DEF SettleFails
  <2> QED BY ZenonT(40), <1>18, <2>1, SettlerLeavesTypes, IdleTypes DEF SettleFails, TypeOK
<1>19. ASSUME Resettle PROVE TypeInv'
  BY <1>19, ResettleBeginsTypes, PressesTypes DEF Resettle, TypeOK, Resettlers, Settlers
<1>20. ASSUME NEW r \in Resettlers, ResettleComputes(r) PROVE TypeInv'
  <2>1. resettle' \in [Resettlers -> [at : {"out", "wait", "write"}, score : Scores,
                                      awaits : Settlers \cup {"nobody"}]]
    BY ZenonT(40), <1>20, ComputeScoresTypes DEF ResettleComputes, TypeOK
  <2> QED BY <1>20, <2>1 DEF ResettleComputes, TypeOK
<1>21. ASSUME NEW r \in Resettlers, ResettleWrites(r) PROVE TypeInv'
  BY <1>21, NoScoreType DEF ResettleWrites, NoResettle, TypeOK
<1>22. ASSUME PanelEvaluates PROVE TypeInv'
  BY <1>22, PressesTypes, EndAssumption DEF PanelEvaluates, Asks, TypeOK, Versions, None
<1>23. ASSUME AiAnswers PROVE TypeInv'
  <2>1. ai.by \in Resettlers /\ IdleAi \in [at : {"idle", "ask"}, by : Closers \cup {"panel"},
                                            seen : Versions]
    BY EndAssumption DEF TypeOK, Resettlers, Settlers, IdleAi, Versions, None
  <2>2. resettle' \in [Resettlers -> [at : {"out", "wait", "write"}, score : Scores,
                                      awaits : Settlers \cup {"nobody"}]]
    BY <1>23, <2>1, ResettleBeginsTypes DEF AiAnswers, TypeOK
  <2>3. aiFinal' \in Versions /\ forced' \in BOOLEAN
    BY <1>23 DEF AiAnswers, TypeOK
  <2> QED BY <1>23, <2>1, <2>2, <2>3 DEF AiAnswers, TypeOK
<1>24. ASSUME AiFails PROVE TypeInv'
  BY <1>24, PressesTypes, EndAssumption DEF AiFails, IdleAi, TypeOK, Versions, None
<1>25. ASSUME Restart PROVE TypeInv'
  BY <1>25, PressesTypes, NoScoreType, EndAssumption
     DEF Restart, IdleCloser, NoSettle, NoResettle, IdleAi, TypeOK, Versions, None
<1>26. ASSUME UNCHANGED vars PROVE TypeInv'
  BY <1>26 DEF vars, TypeOK
<1> QED BY <1>1, <1>2, <1>3, <1>4, <1>5, <1>6, <1>7, <1>8, <1>9, <1>10, <1>11, <1>12,
           <1>13, <1>14, <1>15, <1>16, <1>17, <1>18, <1>19, <1>20, <1>21, <1>22, <1>23,
           <1>24, <1>25, <1>26 DEF Next

LEMMA TypeInvAlways == Spec => []TypeInv
  BY TypeInvInit, TypeInvNext, PTL DEF Spec

(* Every state of the end is well-typed; in particular the last auction    *)
(* of the contest is sold once, whoever and however often it is closed.    *)
THEOREM EndTypeCorrect == Spec => []TypeOK
  BY TypeInvAlways, PTL DEF TypeInv
--------------------------------------------------------------------------------
(* What has run its course without a mishap at the end of the contest.     *)
Orderly == mishaps \cap {"early", "reopened"} = {}

(* Everything that has been computed and not yet written, and the final    *)
(* result, contains what must count; while the contest is LIVE nothing     *)
(* must count yet.                                                         *)
CountsAll ==
  /\ facts >= mustCount
  /\ settledFinal => score.facts >= mustCount
  /\ settleRun.at = "write" => settleRun.score.facts >= mustCount
  /\ \A r \in Resettlers :
       resettle[r].at = "write" => resettle[r].score.facts >= mustCount

CountsInv == TypeInv /\ (Orderly => CountsAll)

LEMMA Integral ==
  ASSUME TypeOK
  PROVE  /\ facts \in Int /\ mustCount \in Int /\ aiFinal \in Int
         /\ score.facts \in Int /\ settleRun.score.facts \in Int
         /\ ComputeScores.facts = facts
         /\ \A r \in Resettlers : resettle[r].score.facts \in Int
<1>1. Versions \subseteq Int
  BY EndAssumption DEF Versions, None
<1>2. facts \in Int
  BY EndAssumption DEF TypeOK
<1> QED BY <1>1, <1>2 DEF TypeOK, Scores, ComputeScores

(* The contest changes only before a settlement or is noted as early.      *)
LEMMA NotedChange ==
  ASSUME TypeInv, Orderly', NotesEarly
  PROVE  /\ Orderly /\ ~settledFinal /\ settleRun.at # "write"
         /\ \A r \in Resettlers : resettle[r].at # "write"
  BY DEF Orderly, NotesEarly, TypeInv, RunIsQueued

LEMMA SetClosedCounts ==
  ASSUME CountsInv, SetClosed, Orderly',
         UNCHANGED <<facts, settleQueue, settleRun, resettle, ai, result>>
  PROVE  CountsAll'
<1>1. CASE phase = "LIVE"
  BY <1>1, NotedChange, Integral DEF CountsInv, TypeInv, SetClosed, CountsAll, result
<1>2. CASE phase # "LIVE"
  BY <1>2 DEF CountsInv, SetClosed, CountsAll, Orderly, result
<1> QED BY <1>1, <1>2

LEMMA SettlerLeavesCounts ==
  ASSUME TypeOK, SettlerLeaves(TRUE) \/ SettlerLeaves(FALSE)
  PROVE  /\ settleRun'.at # "write"
         /\ \A r \in Resettlers : /\ resettle'[r].at = resettle[r].at
                                  /\ resettle'[r].score = resettle[r].score
<1>1. settleRun' = NoSettle
  BY DEF SettlerLeaves
<1>2. PICK s : resettle' = [r \in Resettlers |->
                 [resettle[r] EXCEPT !.awaits = IF @ = s THEN "nobody" ELSE @]]
  BY DEF SettlerLeaves
<1>3. ASSUME NEW r \in Resettlers
      PROVE  resettle'[r].at = resettle[r].at /\ resettle'[r].score = resettle[r].score
  BY <1>2 DEF TypeOK
<1> QED BY <1>1, <1>3, IdleTypes

LEMMA CountsInit == Init => CountsInv
  BY TypeInvInit DEF Init, CountsInv, CountsAll, NoSettle, NoResettle, None

LEMMA CountsNext == CountsInv /\ [Next]_vars => CountsInv'
<1> SUFFICES ASSUME CountsInv, [Next]_vars, Orderly' PROVE CountsAll'
  BY TypeInvNext DEF CountsInv
<1> USE DEF contest, runs, result, history
<1>0. TypeOK /\ TypeInv /\ (Orderly => CountsAll)
  BY DEF CountsInv, TypeInv
<1>1. ASSUME SaveJuryScore PROVE CountsAll'
  BY <1>0, <1>1, Integral DEF SaveJuryScore, CountsAll, Orderly
<1>2. ASSUME DeadlinePasses \/ MoverReads \/ MoverWritesPhase
             \/ \E d \in {"none", "moved"} : MoverWritesDeadline(d)
      PROVE  CountsAll'
  BY <1>0, <1>2
     DEF DeadlinePasses, MoverReads, MoverWritesPhase, MoverWritesDeadline, CountsAll, Orderly
<1>3. ASSUME NEW c \in Closers,
             \/ CloserReads(c) \/ TransitionSetsDeadline(c) \/ CloseAuctionsFails(c)
             \/ CloserSettles(c) \/ EndEvaluates(c)
      PROVE  CountsAll'
  <2>1. /\ UNCHANGED <<facts, settleRun, resettle, score, settledFinal, mustCount>>
        /\ mishaps \subseteq mishaps'
    BY <1>3 DEF CloserReads, TransitionSetsDeadline, CloseAuctionsFails, CloserSettles,
                EndEvaluates
  <2> QED BY <1>0, <2>1 DEF CountsAll, Orderly
<1>4. ASSUME NEW c \in Closers, TransitionSetsPhase(c) PROVE CountsAll'
  BY <1>4, SetClosedCounts DEF TransitionSetsPhase
<1>5. ASSUME NEW c \in Closers, CloseAuctions(c) PROVE CountsAll'
  <2>1. CASE auctionLive
    BY <1>0, <1>5, <2>1, NotedChange, Integral DEF CloseAuctions, CountsAll
  <2>2. CASE ~auctionLive
    BY <1>0, <1>5, <2>2 DEF CloseAuctions, CountsAll, Orderly
  <2> QED BY <2>1, <2>2
<1>6. ASSUME Claim PROVE CountsAll'
  <2>1. CASE phase = "LIVE"
    BY <1>6, <2>1, SetClosedCounts DEF Claim
  <2>2. CASE phase # "LIVE"
    BY <1>0, <1>6, <2>2 DEF Claim, CountsAll, Orderly
  <2> QED BY <2>1, <2>2
<1>7. ASSUME SettleNow PROVE CountsAll'
  BY <1>0, <1>7 DEF SettleNow, CountsAll, Orderly
<1>8. ASSUME SettleReads PROVE CountsAll'
  <2>1. CASE AlreadySettled
    BY <1>0, <1>8, <2>1, SettlerLeavesCounts DEF SettleReads, CountsAll, Orderly
  <2>2. CASE ~AlreadySettled
    BY <1>0, <1>8, <2>2 DEF SettleReads, CountsAll, Orderly, TypeOK
  <2> QED BY <2>1, <2>2
<1>9. ASSUME SettleComputes PROVE CountsAll'
  BY <1>0, <1>9, Integral DEF SettleComputes, CountsAll, Orderly
<1>10. ASSUME SettleWrites PROVE CountsAll'
  BY <1>0, <1>10, SettlerLeavesCounts DEF SettleWrites, CountsAll, Orderly
<1>11. ASSUME SettleFails PROVE CountsAll'
  BY <1>0, <1>11, SettlerLeavesCounts DEF SettleFails, CountsAll, Orderly
<1>12. ASSUME NEW r \in Resettlers, ResettleBegins(r),
              UNCHANGED <<facts, settleRun, score, settledFinal, mustCount, mishaps>>
       PROVE  CountsAll'
  BY <1>0, <1>12 DEF ResettleBegins, CountsAll, Orderly, TypeOK
<1>13. ASSUME Resettle PROVE CountsAll'
  BY <1>12, <1>13 DEF Resettle, Resettlers, Settlers
<1>14. ASSUME NEW r \in Resettlers, ResettleComputes(r) PROVE CountsAll'
  BY <1>0, <1>14, Integral DEF ResettleComputes, CountsAll, Orderly, TypeOK
<1>15. ASSUME NEW r \in Resettlers, ResettleWrites(r) PROVE CountsAll'
  BY <1>0, <1>15 DEF ResettleWrites, NoResettle, CountsAll, Orderly, TypeOK
<1>16. ASSUME PanelEvaluates \/ AiFails PROVE CountsAll'
  BY <1>0, <1>16 DEF PanelEvaluates, AiFails, CountsAll, Orderly
<1>17. ASSUME AiAnswers PROVE CountsAll'
  <2>1. ai.by \in Resettlers
    BY <1>0 DEF TypeOK, Resettlers, Settlers
  <2>2. CASE ai.by \in Closers \/ Settled
    BY <1>12, <1>17, <2>1, <2>2 DEF AiAnswers
  <2>3. CASE ~(ai.by \in Closers \/ Settled)
    BY <1>0, <1>17, <2>3 DEF AiAnswers, CountsAll, Orderly
  <2> QED BY <2>2, <2>3
<1>18. ASSUME Restart PROVE CountsAll'
  BY <1>0, <1>18 DEF Restart, NoSettle, NoResettle, CountsAll, Orderly
<1>19. ASSUME UNCHANGED vars PROVE CountsAll'
  BY <1>0, <1>19 DEF vars, CountsAll, Orderly
<1> QED BY <1>1, <1>2, <1>3, <1>4, <1>5, <1>6, <1>7, <1>8, <1>9, <1>10, <1>11, <1>13,
           <1>14, <1>15, <1>16, <1>17, <1>18, <1>19 DEF Next

(* A final result contains all that happened before the contest closed and *)
(* what its last auction sold, if no settlement was under way at those     *)
(* moments: the queue of settleGame, its second look at the phase and the  *)
(* order of the steps of transitionTo are enough.                          *)
THEOREM FinalAlwaysHasAll == Spec => []FinalHasAll
<1>1. CountsInv => FinalHasAll
  BY DEF CountsInv, CountsAll, Orderly, FinalHasAll
<1> QED BY <1>1, CountsInit, CountsNext, PTL DEF Spec

(* Only a resettlement replaces a final result: whatever made it final     *)
(* while settleGame was computing, its transaction looks again.            *)
THEOREM SettleAlwaysKeepsFinal == Spec => SettleKeepsFinal
<1> DEFINE Kept ==
      Settled /\ settledFinal =>
        score' = score \/ \E r \in Resettlers : resettle[r].at = "write"
                                                /\ resettle'[r].at = "out"
<1>1. TypeInv /\ [Next]_vars => [Kept]_vars
  <2> SUFFICES ASSUME TypeInv, Next, Settled, settledFinal
               PROVE  score' = score \/ \E r \in Resettlers :
                        resettle[r].at = "write" /\ resettle'[r].at = "out"
    OBVIOUS
  <2> USE DEF runs, result
  <2>1. ASSUME NEW r \in Resettlers, ResettleWrites(r)
        PROVE  resettle[r].at = "write" /\ resettle'[r].at = "out"
    BY <2>1 DEF ResettleWrites, NoResettle, TypeInv, TypeOK
  <2>2. ASSUME SettleWrites PROVE score' = score
    BY <2>2 DEF SettleWrites, AlreadySettled
  <2>3. ASSUME NEW c \in Closers,
               \/ CloserReads(c) \/ TransitionSetsPhase(c) \/ TransitionSetsDeadline(c)
               \/ CloseAuctions(c) \/ CloseAuctionsFails(c) \/ CloserSettles(c)
               \/ EndEvaluates(c)
        PROVE  score' = score
    BY <2>3 DEF CloserReads, TransitionSetsPhase, TransitionSetsDeadline, CloseAuctions,
                CloseAuctionsFails, CloserSettles, EndEvaluates
  <2>4. ASSUME \/ SaveJuryScore \/ DeadlinePasses \/ MoverReads \/ MoverWritesPhase
               \/ \E d \in {"none", "moved"} : MoverWritesDeadline(d)
               \/ Claim \/ SettleNow \/ SettleReads \/ SettleComputes \/ SettleFails
               \/ Resettle \/ \E r \in Resettlers : ResettleComputes(r)
               \/ PanelEvaluates \/ AiAnswers \/ AiFails \/ Restart
        PROVE  score' = score
    BY <2>4 DEF SaveJuryScore, DeadlinePasses, MoverReads, MoverWritesPhase,
                MoverWritesDeadline, Claim, SettleNow, SettleReads, SettleComputes,
                SettleFails, Resettle, ResettleComputes, PanelEvaluates, AiAnswers,
                AiFails, Restart
  <2> QED BY <2>1, <2>2, <2>3, <2>4 DEF Next
<1> QED BY <1>1, TypeInvAlways, PTL DEF Spec, SettleKeepsFinal
--------------------------------------------------------------------------------
(* Who runs the end finds the contest CLOSED, goes on to the AI only with  *)
(* a final result, and asks it about a contest that is complete.           *)
AtTheEnd == {"claimed", "phase", "closing", "ended", "settle", "ai"}
ClosersClosed ==
  /\ \A c \in Closers : closer[c].at \in AtTheEnd => phase = "CLOSED"
  /\ \A i \in DOMAIN settleQueue : settleQueue[i] \in Closers => phase = "CLOSED"
  /\ settledFinal => phase = "CLOSED"
AiAfterFinal ==
  /\ \A c \in Closers : closer[c].at = "ai" => settledFinal
  /\ ai.at = "ask" => ai.seen >= 0
  /\ ai.at = "ask" /\ ai.by \in Closers => settledFinal /\ ai.seen >= mustCount
  /\ ai.at = "ask" /\ ai.by \notin Closers => aiFinal = None
  /\ forced => settledFinal /\ aiFinal >= mustCount /\ aiFinal >= 0

FreshInv == CountsInv /\ (Orderly => ClosersClosed /\ AiAfterFinal)

LEMMA FreshInit == Init => FreshInv
  BY CountsInit
     DEF Init, FreshInv, ClosersClosed, AiAfterFinal, AtTheEnd, IdleCloser, IdleAi

(* The phase becomes CLOSED while nothing of the end is final.             *)
LEMMA SetClosedFresh ==
  ASSUME FreshInv, NEW c \in Closers, NEW at \in {"claimed", "phase"},
         SetClosed, Goes(c, at), Orderly',
         UNCHANGED <<facts, settleQueue, settleRun, resettle, ai, result, forced>>
  PROVE  ClosersClosed' /\ AiAfterFinal'
<1>1. TypeInv /\ TypeOK
  BY DEF FreshInv, CountsInv, TypeInv
<1>2. Orderly
  BY NotedChange, <1>1 DEF SetClosed, Orderly
<1>3. ClosersClosed /\ AiAfterFinal
  BY <1>2 DEF FreshInv
<1>4. ClosersClosed'
  BY DEF ClosersClosed, SetClosed
<1>5. \A d \in Closers : closer'[d].at = "ai" => closer[d].at = "ai"
  BY <1>1 DEF Goes, TypeOK
<1>6. CASE phase = "LIVE"
  <2>1. ~settledFinal
    BY <1>1, <1>6, NotedChange DEF SetClosed
  <2> QED BY <1>3, <1>4, <1>5, <2>1 DEF AiAfterFinal, result
<1>7. CASE phase # "LIVE"
  BY <1>3, <1>4, <1>5, <1>7 DEF AiAfterFinal, SetClosed, result
<1> QED BY <1>6, <1>7

(* A closer's settlement that has not failed leaves a final result.        *)
LEMMA SettlerLeavesFresh ==
  ASSUME TypeOK, settleQueue # <<>>, NEW failed \in BOOLEAN, SettlerLeaves(failed),
         ClosersClosed, AiAfterFinal,
         UNCHANGED <<phase, ai, aiFinal, mustCount, forced>>,
         settledFinal => settledFinal',
         settledFinal' => phase = "CLOSED",
         phase = "CLOSED" /\ ~failed => settledFinal'
  PROVE  ClosersClosed' /\ AiAfterFinal'
<1> DEFINE s == Head(settleQueue)
<1>1. s = settleQueue[1] /\ 1 \in DOMAIN settleQueue
  BY DEF TypeOK
<1>2. s \in Closers => phase = "CLOSED"
  BY <1>1 DEF ClosersClosed
<1>3. \A i \in DOMAIN settleQueue' :
        i + 1 \in DOMAIN settleQueue /\ settleQueue'[i] = settleQueue[i + 1]
  BY DEF TypeOK, SettlerLeaves
<1>4. \A c \in Closers : \/ closer'[c] = closer[c]
                         \/ c = s /\ closer'[c].at = "idle"
                         \/ c = s /\ closer'[c].at = "ai" /\ ~failed
  BY DEF TypeOK, SettlerLeaves, Goes, IdleCloser
<1>5. ClosersClosed'
  BY <1>2, <1>3, <1>4 DEF ClosersClosed, AtTheEnd
<1>6. AiAfterFinal'
  BY <1>2, <1>4 DEF AiAfterFinal
<1> QED BY <1>5, <1>6

LEMMA FreshNext == FreshInv /\ [Next]_vars => FreshInv'
<1> SUFFICES ASSUME FreshInv, [Next]_vars, Orderly' PROVE ClosersClosed' /\ AiAfterFinal'
  BY CountsNext DEF FreshInv
<1> DEFINE Fresh == ClosersClosed /\ AiAfterFinal
<1> USE DEF contest, runs, result, history
<1>0. TypeOK /\ TypeInv /\ (Orderly => CountsAll /\ Fresh)
  BY DEF FreshInv, CountsInv, TypeInv
<1>1. ASSUME UNCHANGED <<closer, settleQueue, ai, aiFinal, settledFinal, mustCount, forced>>,
             phase' = phase, mishaps \subseteq mishaps'
      PROVE  Fresh'
  BY <1>0, <1>1 DEF ClosersClosed, AiAfterFinal, Orderly
<1>2. ASSUME \/ SaveJuryScore \/ DeadlinePasses \/ MoverReads
             \/ \E d \in {"none", "moved"} : MoverWritesDeadline(d)
             \/ SettleComputes \/ Resettle \/ \E r \in Resettlers : ResettleComputes(r)
      PROVE  Fresh'
  BY <1>1, <1>2
     DEF SaveJuryScore, DeadlinePasses, MoverReads, MoverWritesDeadline, SettleComputes,
         Resettle, ResettleComputes
<1>3. ASSUME MoverWritesPhase PROVE Fresh'
  <2>1. phase = "LIVE" /\ Orderly
    BY <1>0, <1>3 DEF MoverWritesPhase, Orderly, TypeOK
  <2> QED BY <1>0, <1>3, <2>1 DEF MoverWritesPhase, ClosersClosed, AiAfterFinal
<1>4. ASSUME NEW c \in Closers, CloserReads(c) PROVE Fresh'
  BY <1>0, <1>4 DEF CloserReads, ClosersClosed, AiAfterFinal, AtTheEnd, Orderly, TypeOK
<1>5. ASSUME NEW c \in Closers, TransitionSetsPhase(c) PROVE Fresh'
  BY <1>5, SetClosedFresh DEF TransitionSetsPhase
<1>6. ASSUME NEW c \in Closers,
             TransitionSetsDeadline(c) \/ CloseAuctionsFails(c)
      PROVE  Fresh'
  <2>1. Orderly /\ Fresh
    BY <1>0, <1>6 DEF TransitionSetsDeadline, CloseAuctionsFails, Orderly
  <2>2. \A d \in Closers :
          \/ closer'[d].at = closer[d].at
          \/ closer[d].at \in AtTheEnd /\ closer'[d].at \in {"closing", "ended"}
    <3>1. PICK at \in {"closing", "ended"} : closer' = [closer EXCEPT ![c].at = at]
      BY <1>6 DEF TransitionSetsDeadline, CloseAuctionsFails, Goes
    <3>2. closer[c].at \in AtTheEnd
      BY <1>6 DEF TransitionSetsDeadline, CloseAuctionsFails, AtTheEnd
    <3>3. \A d \in Closers : closer'[d].at = IF d = c THEN at ELSE closer[d].at
      BY <1>0, <3>1 DEF TypeOK
    <3> QED BY <3>1, <3>2, <3>3
  <2> QED BY <1>6, <2>1, <2>2
          DEF TransitionSetsDeadline, CloseAuctionsFails, ClosersClosed, AiAfterFinal
<1>7. ASSUME NEW c \in Closers, CloseAuctions(c) PROVE Fresh'
  <2>1. Orderly /\ Fresh
    BY <1>0, <1>7, NotedChange DEF CloseAuctions, Orderly
  <2>2. \A d \in Closers :
          \/ closer'[d].at = closer[d].at
          \/ closer[d].at \in AtTheEnd /\ closer'[d].at = "ended"
    <3>1. closer' = [closer EXCEPT ![c].at = "ended"]
      BY <1>7 DEF CloseAuctions, Goes
    <3>2. closer[c].at \in AtTheEnd
      BY <1>7 DEF CloseAuctions, AtTheEnd
    <3>3. \A d \in Closers : closer'[d].at = IF d = c THEN "ended" ELSE closer[d].at
      BY <1>0, <3>1 DEF TypeOK
    <3> QED BY <3>1, <3>2, <3>3
  <2>3. ClosersClosed'
    BY <1>7, <2>1, <2>2 DEF CloseAuctions, ClosersClosed
  <2>4. auctionLive => ~settledFinal
    BY <1>0, <1>7, NotedChange DEF CloseAuctions
  <2>5. AiAfterFinal'
    BY <1>7, <2>1, <2>2, <2>4 DEF CloseAuctions, AiAfterFinal
  <2> QED BY <2>3, <2>5
<1>8. ASSUME NEW c \in Closers, CloserSettles(c) PROVE Fresh'
  <2>1. Orderly /\ Fresh
    BY <1>0, <1>8 DEF CloserSettles, Orderly
  <2>2. phase = "CLOSED"
    BY <1>8, <2>1 DEF CloserSettles, ClosersClosed, AtTheEnd
  <2>3. \A d \in Closers : closer'[d].at = "ai" => closer[d].at = "ai"
    BY <1>0, <1>8 DEF CloserSettles, Goes, TypeOK
  <2> QED BY <1>8, <2>1, <2>2, <2>3 DEF CloserSettles, ClosersClosed, AiAfterFinal
<1>9. ASSUME NEW c \in Closers, EndEvaluates(c) PROVE Fresh'
  <2>1. Orderly /\ Fresh /\ facts >= mustCount /\ facts >= 0
    BY <1>0, <1>9, EndAssumption DEF EndEvaluates, Orderly, CountsAll, TypeOK
  <2>2. \A d \in Closers : closer'[d] = closer[d] \/ closer'[d].at = "idle"
    BY <1>0, <1>9 DEF EndEvaluates, IdleCloser, TypeOK
  <2>3. ClosersClosed'
    BY <1>9, <2>1, <2>2 DEF EndEvaluates, ClosersClosed, AtTheEnd
  <2>4. settledFinal
    BY <1>9, <2>1 DEF EndEvaluates, AiAfterFinal
  <2>5. AiAfterFinal'
    BY <1>9, <2>1, <2>2, <2>4 DEF EndEvaluates, Asks, AiAfterFinal
  <2> QED BY <2>3, <2>5
<1>10. ASSUME Claim PROVE Fresh'
  <2>1. CASE phase = "LIVE"
    BY <1>10, <2>1, SetClosedFresh DEF Claim, Closers
  <2>2. CASE phase # "LIVE"
    <3>1. Orderly /\ Fresh
      BY <1>0, <1>10, <2>2 DEF Claim, Orderly
    <3>2. \A d \in Closers : closer'[d] = closer[d] \/ closer'[d].at = "idle"
      BY <1>0, <1>10, <2>2 DEF Claim, IdleCloser, TypeOK
    <3> QED BY <1>10, <2>2, <3>1, <3>2 DEF Claim, ClosersClosed, AiAfterFinal, AtTheEnd
  <2> QED BY <2>1, <2>2
<1>11. ASSUME SettleNow PROVE Fresh'
  <2>1. Orderly /\ Fresh
    BY <1>0, <1>11 DEF SettleNow, Orderly
  <2>2. \A i \in DOMAIN settleQueue' :
          settleQueue'[i] \in Closers => i \in DOMAIN settleQueue
                                         /\ settleQueue'[i] = settleQueue[i]
    BY <1>0, <1>11 DEF SettleNow, TypeOK, Closers
  <2> QED BY <1>11, <2>1, <2>2 DEF SettleNow, ClosersClosed, AiAfterFinal
<1>12. ASSUME SettleReads PROVE Fresh'
  <2>1. CASE AlreadySettled
    BY <1>0, <1>12, <2>1, SettlerLeavesFresh
       DEF SettleReads, AlreadySettled, Orderly, ClosersClosed
  <2>2. CASE ~AlreadySettled
    BY <1>1, <1>12, <2>2 DEF SettleReads
  <2> QED BY <2>1, <2>2
<1>13. ASSUME SettleWrites PROVE Fresh'
  <2>1. Orderly /\ Fresh /\ settleQueue # <<>>
    BY <1>0, <1>13 DEF SettleWrites, Orderly, TypeInv, RunIsQueued
  <2>2. /\ settledFinal => settledFinal'
        /\ settledFinal' => phase = "CLOSED"
        /\ phase = "CLOSED" => settledFinal'
    BY <1>0, <1>13, <2>1 DEF SettleWrites, AlreadySettled, ClosersClosed, TypeOK
  <2> QED BY <1>0, <1>13, <2>1, <2>2, SettlerLeavesFresh DEF SettleWrites
<1>14. ASSUME SettleFails PROVE Fresh'
  <2>1. Orderly /\ Fresh /\ settleQueue # <<>>
    BY <1>0, <1>14 DEF SettleFails, Orderly, TypeInv, RunIsQueued
  <2> QED BY <1>0, <1>14, <2>1, SettlerLeavesFresh DEF SettleFails, ClosersClosed
<1>15. ASSUME NEW r \in Resettlers, ResettleWrites(r) PROVE Fresh'
  BY <1>0, <1>15 DEF ResettleWrites, ClosersClosed, AiAfterFinal, Orderly
<1>16. ASSUME PanelEvaluates PROVE Fresh'
  BY <1>0, <1>16, EndAssumption
     DEF PanelEvaluates, Asks, ClosersClosed, AiAfterFinal, Orderly, Closers, TypeOK
<1>17. ASSUME AiAnswers PROVE Fresh'
  <2>1. Orderly /\ Fresh
    BY <1>0, <1>17 DEF AiAnswers, Orderly
  <2>2. ClosersClosed'
    BY <1>17, <2>1 DEF AiAnswers, ClosersClosed
  <2> DEFINE TheEnd == ai.by \in Closers
  <2>5. /\ UNCHANGED <<closer, settledFinal, mustCount>>
        /\ ai.at = "ask" /\ aiFinal' = ai.seen /\ ai'.at = "idle"
        /\ forced' => forced \/ TheEnd
    BY <1>17 DEF AiAnswers, IdleAi
  <2>3. CASE TheEnd
    <3>1. settledFinal /\ ai.seen >= mustCount /\ ai.seen >= 0
      BY <2>1, <2>3, <2>5 DEF AiAfterFinal
    <3> QED BY <2>1, <2>2, <2>5, <3>1 DEF AiAfterFinal
  <2>4. CASE ~TheEnd
    <3>1. ~forced
      BY <2>1, <2>4, <2>5 DEF AiAfterFinal, None
    <3> QED BY <2>1, <2>2, <2>4, <2>5, <3>1 DEF AiAfterFinal
  <2> QED BY <2>2, <2>3, <2>4
<1>18. ASSUME AiFails PROVE Fresh'
  BY <1>0, <1>18 DEF AiFails, IdleAi, ClosersClosed, AiAfterFinal, Orderly
<1>19. ASSUME Restart PROVE Fresh'
  BY <1>0, <1>19
     DEF Restart, IdleAi, IdleCloser, ClosersClosed, AiAfterFinal, AtTheEnd, Orderly
<1>20. ASSUME UNCHANGED vars PROVE Fresh'
  BY <1>1, <1>20 DEF vars
<1> QED BY <1>2, <1>3, <1>4, <1>5, <1>6, <1>7, <1>8, <1>9, <1>10, <1>11, <1>12, <1>13,
           <1>14, <1>15, <1>16, <1>17, <1>18, <1>19, <1>20 DEF Next

(* Once the forced evaluation of the end is stored, no older answer        *)
(* replaces it: there is one evaluation at a time (finalRunning), and the  *)
(* panel's only fills in what has none.                                    *)
THEOREM ForcedAlwaysFresh == Spec => []ForcedIsFresh
<1>1. FreshInv => ForcedIsFresh
  BY DEF FreshInv, AiAfterFinal, Orderly, ForcedIsFresh
<1> QED BY <1>1, FreshInit, FreshNext, PTL DEF Spec
================================================================================
