------------------------------- MODULE AtomicJobs -------------------------------
(***************************************************************************)
(* What lib/db.ts promises the handlers: queries and transactions are      *)
(* served one at a time, in the order in which they were asked for, and    *)
(* each of them happens in one step, as a whole or not at all.             *)
(*                                                                         *)
(* The other modules of the server rest on this: they take a transaction   *)
(* of the source, however many awaits it has, as one action.               *)
(***************************************************************************)
EXTENDS Integers, Sequences

CONSTANTS Jobs   \* the queries and transactions of a run

VARIABLES
  kind,     \* whether the job is a query or a transaction
  asked,    \* the jobs that were asked for and not yet answered, in order
  answer,   \* what the handler of the job knows of it
  stored    \* the database: write <<j, n>> is the n-th one of job j

jobVars == <<kind, asked, answer, stored>>

WritesOf(j) == {j} \X (IF kind[j] = "query" THEN {1} ELSE {1, 2})

AtomicInit ==
  /\ kind \in [Jobs -> {"query", "transaction"}]
  /\ asked = <<>>
  /\ answer = [j \in Jobs |-> "none"]
  /\ stored = {}

AskJob(j) ==
  /\ asked' = Append(asked, j)
  /\ answer[j] = "none" /\ answer' = [answer EXCEPT ![j] = "asked"]
  /\ UNCHANGED <<kind, stored>>

AnswerJob(j, a) ==
  /\ asked # <<>> /\ Head(asked) = j
  /\ asked' = Tail(asked)
  /\ answer' = [answer EXCEPT ![j] = a]
  /\ UNCHANGED kind

CompleteJob(j) == AnswerJob(j, "done") /\ stored' = stored \cup WritesOf(j)
FailJob(j) == AnswerJob(j, "failed") /\ UNCHANGED stored

AtomicNext == \E j \in Jobs : AskJob(j) \/ CompleteJob(j) \/ FailJob(j)

AtomicSpec == AtomicInit /\ [][AtomicNext]_jobVars
================================================================================
