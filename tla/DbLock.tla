--------------------------------- MODULE DbLock ---------------------------------
(***************************************************************************)
(* The one connection to the database and its lock (lib/db.ts).            *)
(*                                                                         *)
(* Every other module takes a transaction as one step and a query outside  *)
(* one as another.  This module is why that is right: the connection has   *)
(* no notion of who asks, so a query that runs while a transaction is open *)
(* is part of that transaction and shares its rollback.                    *)
(*                                                                         *)
(* A job is a handler's query outside any transaction, or its transaction: *)
(* two writes, through tx or through prisma inside the callback, and the   *)
(* commit or the rollback.  write <<j, n>> is the n-th one of job j.       *)
(***************************************************************************)
EXTENDS Integers, Sequences, FiniteSets

CONSTANTS Jobs   \* bound: the queries and transactions of a run

VARIABLES
  job,        \* what a job is and how far it has come
  lockQueue,  \* the promises of Lock, the holder first
  open,       \* the connection: writes since BEGIN, if there was one
  begins,     \* the connection: the jobs whose BEGIN was not ended
  stored      \* the database

lockVars == <<job, lockQueue, open, begins, stored>>

JobKinds == {"query", "transaction"}
Writes(j) == IF job[j].kind = "query" THEN {<<j, 1>>} ELSE {<<j, 1>>, <<j, 2>>}

LockTypeOK ==
  /\ job \in [Jobs -> [kind : JobKinds, at : {"new", "waits", "runs", "done", "failed"}, wrote : 0..2]]
  /\ lockQueue \in Seq(Jobs)
  /\ open \subseteq Jobs \X (1..2) /\ stored \subseteq Jobs \X (1..2)
  /\ begins \subseteq Jobs

LockInit ==
  /\ job \in [Jobs -> [kind : JobKinds, at : {"new"}, wrote : {0}]]
  /\ lockQueue = <<>> /\ open = {} /\ begins = {} /\ stored = {}

JobIs(j, at) == job' = [job EXCEPT ![j].at = at]
--------------------------------------------------------------------------------
(* Lock.acquire: behind everyone who asked before, and release.            *)

Acquires(j) == lockQueue' = Append(lockQueue, j)
HasLock(j) == lockQueue # <<>> /\ Head(lockQueue) = j
Releases == lockQueue' = Tail(lockQueue)

(* guard, around queryRaw and executeRaw of the adapter, and               *)
(* startTransaction: both wait for the lock.                               *)
JobAsks(j) ==
  /\ job[j].at = "new"
  /\ Acquires(j) /\ JobIs(j, "waits")
  /\ UNCHANGED <<open, begins, stored>>

(* A statement on the connection.                                          *)
Executes(write) ==
  IF begins = {} THEN stored' = stored \cup {write} /\ UNCHANGED open
                 ELSE open' = open \cup {write} /\ UNCHANGED stored

(* lock.run: the lock is released whether the query succeeds or not.       *)
GuardNot(j) == job[j].at = "waits"
Guard(j) == job[j].at = "waits" /\ HasLock(j)

LoneQuery(j) ==
  /\ job[j].kind = "query" /\ Guard(j)
  /\ \/ Executes(<<j, 1>>) /\ JobIs(j, "done")
     \/ UNCHANGED <<open, stored>> /\ JobIs(j, "failed")
  /\ Releases
  /\ UNCHANGED begins

(* BEGIN; if it throws the lock is released.                               *)
StartTransaction(j) ==
  /\ job[j].kind = "transaction" /\ job[j].at = "waits" /\ HasLock(j)
  /\ JobIs(j, "runs")
  /\ begins' = begins \cup {j}
  /\ UNCHANGED <<lockQueue, open, stored>>

StartTransactionFails(j) ==
  /\ job[j].kind = "transaction" /\ job[j].at = "waits" /\ HasLock(j)
  /\ JobIs(j, "failed") /\ Releases
  /\ UNCHANGED <<open, begins, stored>>

(* A query of the callback, through tx or through prisma: inTransaction    *)
(* says it is inside, and it does not wait.                                *)
InTransaction(j) == job[j].at = "runs"

QueryInside(j) ==
  /\ InTransaction(j) /\ job[j].wrote < 2
  /\ Executes(<<j, job[j].wrote + 1>>)
  /\ job' = [job EXCEPT ![j].wrote = @ + 1]
  /\ UNCHANGED <<lockQueue, begins>>

(* finish, around commit and rollback.                                     *)
CommitTransaction(j) ==
  /\ job[j].at = "runs" /\ job[j].wrote = 2
  /\ stored' = stored \cup open /\ open' = {} /\ begins' = begins \ {j}
  /\ JobIs(j, "done") /\ Releases

(* The callback threw, or the transaction took too long.                   *)
RollbackTransaction(j) ==
  /\ job[j].at = "runs"
  /\ open' = {} /\ begins' = begins \ {j}
  /\ JobIs(j, "failed") /\ Releases
  /\ UNCHANGED stored

LockNext ==
  \E j \in Jobs :
    \/ JobAsks(j) \/ LoneQuery(j)
    \/ StartTransaction(j) \/ StartTransactionFails(j)
    \/ QueryInside(j) \/ CommitTransaction(j) \/ RollbackTransaction(j)

LockSpec == LockInit /\ [][LockNext]_lockVars
--------------------------------------------------------------------------------
(* Properties *)

(* "A query outside a transaction that runs in the middle of an open BEGIN *)
(* becomes part of it and is silently wiped out by its rollback" (db.ts:40)*)
(* does not happen: what was answered is stored, what failed is not, and a *)
(* transaction is stored as a whole or not at all.                         *)
AnsweredIsStored ==
  \A j \in Jobs :
    stored \cap ({j} \X (1..2)) = IF job[j].at = "done" THEN Writes(j) ELSE {}

(* To the handlers a transaction is one step, and jobs are served in the   *)
(* order in which they asked: what a job that runs has written shows with  *)
(* its commit, all at once.  Whoever is answered has given the lock back,  *)
(* so that the first of the queue always is one that can go on.            *)
Known == [new |-> "none", waits |-> "asked", runs |-> "asked", done |-> "done", failed |-> "failed"]

Atomic == INSTANCE AtomicJobs WITH
  kind <- [j \in Jobs |-> job[j].kind],
  asked <- lockQueue,
  answer <- [j \in Jobs |-> Known[job[j].at]]

JobsAreAtomic == Atomic!AtomicSpec
================================================================================
