--------------------------- MODULE ExecutionProofs --------------------------
(***************************************************************************)
(* Proofs about the count of executions.  A worker calls the executor on a *)
(* row it listed some time ago and only then asks the table whether the    *)
(* row is still current, so the invariants speak of listed and of computed *)
(* rows that are stale: whoever overtook the worker has counted an attempt *)
(* in its place.  The bounds hold for any number of workers.  With one,    *)
(* without failures and results reported by hand, nobody overtakes it, and *)
(* the job runs agree with what the rows count.                            *)
(***************************************************************************)
EXTENDS DecisionProofs, FiniteSetTheorems

-----------------------------------------------------------------------------
(* Attempts as the transitions count them. *)

NotYetExecuted == {"draft", "pending_review", "approved"}

Reported == {"executed", "execution_failed"}

LEMMA TransitionCounts ==
  ASSUME NEW old \in Row, NEW new, NEW time \in Nat, IsTransition(old, new, time)
  PROVE  /\ old.execution_attempts \in Nat
         /\ \/ new.execution_attempts = old.execution_attempts + 1
            \/ new.execution_attempts = old.execution_attempts
         /\ AwaitsExecution(old) =>
               new.execution_attempts = old.execution_attempts + 1
         /\ new.status \in Reported =>
               /\ AwaitsExecution(old)
               /\ new.execution_attempts = old.execution_attempts + 1
         /\ new.status \in NotYetExecuted =>
               /\ old.status \in NotYetExecuted
               /\ new.execution_attempts = old.execution_attempts
<1>1. old.execution_attempts \in Nat
  BY DEF Row
<1>2. CASE old.status = "draft" /\ \E t \in 0..time : new = SubmittedRow(old, t)
  <2>1. new.status = "pending_review" /\ new.execution_attempts = old.execution_attempts
    BY <1>2 DEF SubmittedRow, Row
  <2> QED BY <1>1, <1>2, <2>1 DEF AwaitsExecution, Reported, NotYetExecuted
<1>3. CASE /\ old.status = "pending_review"
           /\ \E t \in 0..time, decision \in Decisions : new = ReviewedRow(old, decision, t)
  <2>1. new.status \in Decisions /\ new.execution_attempts = old.execution_attempts
    BY <1>3 DEF ReviewedRow, Row
  <2> QED BY <1>1, <1>3, <2>1 DEF AwaitsExecution, Reported, NotYetExecuted, Decisions
<1>4. CASE \E t \in 0..time : NeedsReminder(old, t) /\ new = RemindedRow(old, t)
  <2>1. /\ old.status = "pending_review" /\ new.status = "pending_review"
        /\ new.execution_attempts = old.execution_attempts
    BY <1>4 DEF RemindedRow, NeedsReminder, Row
  <2> QED BY <1>1, <2>1 DEF AwaitsExecution, Reported, NotYetExecuted
<1>5. CASE /\ AwaitsExecution(old)
           /\ \E t \in 0..time, success \in BOOLEAN : new = ExecutionRow(old, success, t)
  <2>1. new.status \in Reported /\ new.execution_attempts = old.execution_attempts + 1
    BY <1>5 DEF ExecutionRow, Outcome, AttemptsAfter, Reported, Row
  <2> QED BY <1>1, <1>5, <2>1 DEF Reported, NotYetExecuted
<1> QED BY <1>2, <1>3, <1>4, <1>5 DEF IsTransition

\* Until its first execution a request has no attempts.
Fresh ==
  \A id \in Ids : Exists(id) /\ requests[id].status \in NotYetExecuted =>
      requests[id].execution_attempts = 0

LEMMA FreshKeeps ==
  ASSUME Inv, Fresh, [Next]_vars
  PROVE  Fresh'
<1> SUFFICES ASSUME NEW id \in Ids, Exists(id)', requests'[id].status \in NotYetExecuted
             PROVE  requests'[id].execution_attempts = 0
  BY DEF Fresh
<1>1. CASE ~Exists(id)
  <2>1. PICK actor \in Actors, target \in Targets :
            requests'[id] = DraftRow(id, actor, target)
    BY <1>1, StepRefines, NewRowsAreDrafts
  <2> QED BY <2>1 DEF DraftRow
<1>2. CASE Exists(id)
  BY <1>2, TableStep, TransitionCounts DEF Fresh
<1> QED BY <1>1, <1>2

LEMMA AttemptsGrow ==
  ASSUME Inv, Inv', [Next]_vars, NEW id \in Ids
  PROVE  /\ Attempts(id) \in Nat /\ Attempts(id)' \in Nat
         /\ Attempts(id) <= Attempts(id)'
<1>1. Attempts(id) \in Nat /\ Attempts(id)' \in Nat
  BY DEF Inv, TypeOK, Attempts, Exists, Row
<1>2. CASE ~Exists(id)
  BY <1>1, <1>2 DEF Attempts
<1>3. CASE Exists(id)
  <2>1. requests[id] \in Row /\ now \in Nat /\ Exists(id)'
    BY <1>3, TableStep
  <2>2. CASE requests'[id] = requests[id]
    BY <1>1, <2>1, <2>2 DEF Attempts, Exists
  <2>3. CASE IsTransition(requests[id], requests'[id], now)
    BY <1>1, <1>3, <2>1, <2>3, TransitionCounts DEF Attempts
  <2> QED BY <1>3, <2>2, <2>3, TableStep
<1> QED BY <1>2, <1>3, <1>1

\* A row that waited for its execution when it was read is current, or its
\* attempt has been counted since.
Overtaken(r) == r.execution_attempts < requests[r.id].execution_attempts

LEMMA ReadRowStays ==
  ASSUME Inv, [Next]_vars, NEW r \in Row, AwaitsExecution(r), IsVersionOf(r, requests),
         requests[r.id].version = r.version \/ Overtaken(r)
  PROVE  requests'[r.id].version = r.version \/ Overtaken(r)'
<1>1. r.id \in Ids /\ r.execution_attempts \in Nat /\ Exists(r.id)
  BY DEF Row, IsVersionOf, Exists
<1>2. requests[r.id] \in Row /\ now \in Nat /\ requests[r.id].execution_attempts \in Nat
  BY <1>1, TableStep DEF Row
<1>3. CASE requests'[r.id] = requests[r.id]
  BY <1>3 DEF Overtaken
<1>4. CASE IsTransition(requests[r.id], requests'[r.id], now)
  <2>1. requests[r.id].version = r.version => AwaitsExecution(requests[r.id])
                                              /\ requests[r.id] = r
    BY DEF IsVersionOf
  <2>2. r.execution_attempts < requests'[r.id].execution_attempts
    BY <1>1, <1>2, <1>4, <2>1, TransitionCounts DEF Overtaken
  <2> QED BY <2>2 DEF Overtaken
<1> QED BY <1>1, <1>3, <1>4, TableStep

\* The same of the row computed from it.
Counted(p) == p.execution_attempts <= requests[p.id].execution_attempts

LEMMA ComputedRowStays ==
  ASSUME Inv, [Next]_vars, NEW p \in Row, p.status \in Reported,
         IsSafeWrite(p, requests, now),
         requests[p.id].version + 1 = p.version \/ Counted(p)
  PROVE  requests'[p.id].version + 1 = p.version \/ Counted(p)'
<1>1. p.id \in Ids /\ p.execution_attempts \in Nat /\ p.version \in Nat /\ Exists(p.id)
  BY DEF Row, IsSafeWrite, Exists
<1>2. /\ requests[p.id] \in Row /\ now \in Nat
      /\ requests[p.id].execution_attempts \in Nat /\ requests[p.id].version \in Nat
  BY <1>1, TableStep DEF Row
<1>3. CASE requests'[p.id] = requests[p.id]
  BY <1>3 DEF Counted
<1>4. CASE IsTransition(requests[p.id], requests'[p.id], now)
  <2>1. CASE requests[p.id].version + 1 = p.version
    <3>1. IsTransition(requests[p.id], p, now)
      BY <1>1, <1>2, <2>1 DEF IsSafeWrite
    <3>2. /\ AwaitsExecution(requests[p.id])
          /\ p.execution_attempts = requests[p.id].execution_attempts + 1
      BY <1>2, <3>1, TransitionCounts
    <3>3. requests'[p.id].execution_attempts = requests[p.id].execution_attempts + 1
      BY <1>2, <1>4, <3>2, TransitionCounts
    <3> QED BY <1>1, <1>2, <3>2, <3>3 DEF Counted
  <2>2. CASE Counted(p)
    <3>1. p.execution_attempts <= requests'[p.id].execution_attempts
      BY <1>1, <1>2, <1>4, <2>2, TransitionCounts DEF Counted
    <3> QED BY <3>1 DEF Counted
  <2> QED BY <2>1, <2>2
<1> QED BY <1>1, <1>3, <1>4, TableStep

-----------------------------------------------------------------------------
(* The steps of a worker, as far as executions are concerned.              *)

OneMoreFault == faults' = faults + 1

\* It does something else than executing; from a result at hand only by a
\* failure or at the end of the process.
Leaves(w) ==
    /\ workers'[w].pc \notin ExecutionPcs /\ executions' = executions
    /\ OneMoreFault \/ (faults' = faults /\ ~WorkerAt(w, "executeUpdate"))

\* It lists a batch.
Lists(w) ==
    /\ WorkerAt(w, "listReady") /\ workers'[w].pc = "execute"
    /\ Batch(w)' \in ListRequestsReadyForExecution(workers[w].pass, BatchSize)
    /\ UNCHANGED <<requests, executions, faults>>

\* It calls the executor on a listed row.
Executes(w, r) ==
    /\ WorkerAt(w, "execute") /\ workers'[w].pc = "executeUpdate"
    /\ r \in Batch(w) /\ Batch(w)' = Batch(w) \ {r}
    /\ Pending(w)' = ExecutionRow(r, ExecutionSucceeds(r), now)
    /\ executions' = [executions EXCEPT ![w][r.id] = @ + 1]
    /\ UNCHANGED <<requests, faults>>

\* It writes the result, is refused, or fails; or it goes on after that.
Proceeds(w) ==
    /\ workers[w].pc \in ExecutionPcs \ {"execute"}
    /\ workers'[w].pc \in ExecutionPcs \ {"executeUpdate"}
    /\ Batch(w)' = Batch(w) /\ executions' = executions
    /\ \/ OneMoreFault
       \/ /\ faults' = faults
          /\ WorkerAt(w, "executeUpdate") =>
                \/ UpdateRequest(Pending(w))
                \/ ~UpdateMatches(Pending(w)) /\ requests' = requests

PassMove(w) ==
    \/ Leaves(w) \/ Lists(w) \/ Proceeds(w)
    \/ \E r \in Batch(w) : Executes(w, r)

LEMMA NextExecutionMeans ==
  ASSUME TypeOK, NEW w \in Workers, NextExecution(w)
  PROVE  \/ workers'[w].pc = "execute" /\ Batch(w)' = Batch(w)
         \/ workers'[w].pc = "wait"
BY WorkerGotoMeans DEF NextExecution, EndRun, IdleWorker, TypeOK

LEMMA NextReminderMeans ==
  ASSUME TypeOK, NEW w \in Workers, NEW batch, NextReminder(w, batch)
  PROVE  workers'[w].pc \in {"remind", "listReady"}
BY WorkerGotoMeans DEF NextReminder, BeginPass, TypeOK

LEMMA PassSteps ==
  ASSUME TypeOK, NEW w \in Workers, WorkStep(w)
  PROVE  PassMove(w)
<1>1. faults' = faults
  BY DEF WorkStep
<1>2. CASE Poll(w) \/ ListReminders(w)
  <2>1. executions' = executions /\ ~WorkerAt(w, "executeUpdate")
    BY <1>2 DEF Poll, ListReminders, WorkerAt
  <2>2. workers'[w].pc \in {"listReminders", "remind", "listReady"}
    BY <1>2, NextReminderMeans DEF Poll, ListReminders, BeginPass, TypeOK
  <2> QED BY <1>1, <2>1, <2>2 DEF PassMove, Leaves, ExecutionPcs
<1>3. CASE Remind(w) \/ RemindAudit(w) \/ RemindJob(w)
  <2>1. executions' = executions /\ ~WorkerAt(w, "executeUpdate")
    BY <1>3 DEF Remind, RemindAudit, RemindJob, WorkerAt
  <2>2. workers'[w].pc \in {"remind", "remindAudit", "remindJob", "listReady"}
    BY <1>3, NextReminderMeans, WorkerGotoMeans DEF Remind, RemindAudit, RemindJob
  <2> QED BY <1>1, <2>1, <2>2 DEF PassMove, Leaves, ExecutionPcs
<1>4. CASE ListReady(w)
  <2>1. /\ WorkerAt(w, "listReady") /\ ~WorkerAt(w, "executeUpdate")
        /\ UNCHANGED <<requests, executions>>
    BY <1>4 DEF ListReady, WorkerAt, storeVars
  <2>2. PICK batch \in ListRequestsReadyForExecution(workers[w].pass, BatchSize) :
            \/ workers' = [workers EXCEPT ![w] = [pc |-> "execute", batch |-> batch,
                                                  row |-> Nil, pass |-> 0]]
            \/ EndRun(w)
    BY <1>4 DEF ListReady
  <2>3. CASE workers' = [workers EXCEPT ![w] = [pc |-> "execute", batch |-> batch,
                                                row |-> Nil, pass |-> 0]]
    <3>1. workers'[w].pc = "execute" /\ Batch(w)' = batch
      BY <2>3 DEF TypeOK, Batch
    <3> QED BY <1>1, <2>1, <2>2, <3>1 DEF PassMove, Lists
  <2>4. CASE EndRun(w)
    BY <1>1, <2>1, <2>4 DEF PassMove, Leaves, ExecutionPcs, EndRun, IdleWorker, TypeOK
  <2> QED BY <2>2, <2>3, <2>4
<1>5. CASE Execute(w)
  <2>1. PICK r \in Batch(w) :
            /\ executions' = [executions EXCEPT ![w][r.id] = @ + 1]
            /\ WorkerGoto(w, "executeUpdate", Batch(w) \ {r},
                          ExecutionRow(r, ExecutionSucceeds(r), now))
    BY <1>5 DEF Execute, NextOf
  <2>2. WorkerAt(w, "execute") /\ UNCHANGED requests
    BY <1>5 DEF Execute, storeVars
  <2>3. Executes(w, r)
    BY <1>1, <2>1, <2>2, WorkerGotoMeans DEF Executes
  <2> QED BY <2>3 DEF PassMove
<1>6. CASE ExecuteUpdate(w)
  BY <1>1, <1>6, WorkerGotoMeans
     DEF ExecuteUpdate, PassMove, Proceeds, WorkerAt, ExecutionPcs, storeVars
<1>7. CASE ExecuteAudit(w)
  BY <1>1, <1>7, WorkerGotoMeans DEF ExecuteAudit, PassMove, Proceeds, WorkerAt, ExecutionPcs
<1>8. CASE ExecuteJob(w)
  <2>1. /\ workers[w].pc = "executeJob" /\ ~WorkerAt(w, "executeUpdate")
        /\ executions' = executions
    BY <1>8 DEF ExecuteJob, WorkerAt
  <2>2. CASE workers'[w].pc = "execute" /\ Batch(w)' = Batch(w)
    BY <1>1, <2>1, <2>2 DEF PassMove, Proceeds, ExecutionPcs
  <2>3. CASE workers'[w].pc = "wait"
    BY <1>1, <2>1, <2>3 DEF PassMove, Leaves, ExecutionPcs
  <2> QED BY <1>8, <2>2, <2>3, NextExecutionMeans DEF ExecuteJob
<1> QED
  BY <1>2, <1>3, <1>4, <1>5, <1>6, <1>7, <1>8 DEF WorkStep, WorkerStep

LEMMA PassFaults ==
  ASSUME TypeOK, NEW w \in Workers, WorkFault(w)
  PROVE  PassMove(w)
<1>1. OneMoreFault /\ executions' = executions
  BY DEF WorkFault, Fault, OneMoreFault, WorkerStoreError, WorkerReplyLost
<1>2. CASE workers'[w].pc \notin ExecutionPcs
  BY <1>1, <1>2 DEF PassMove, Leaves
<1>3. CASE \/ BeginPass(w, "listReady") \/ EndRun(w)
           \/ \E batch : NextReminder(w, batch)
           \/ WorkerGoto(w, "remindJob", Batch(w), Pending(w))
  <2>1. workers'[w].pc \in {"remind", "remindJob", "listReady", "wait"}
    BY <1>3, NextReminderMeans, WorkerGotoMeans DEF BeginPass, EndRun, IdleWorker, TypeOK
  <2> QED BY <1>2, <2>1 DEF ExecutionPcs
<1>4. CASE /\ workers[w].pc \in {"executeUpdate", "executeAudit"}
           /\ WorkerGoto(w, "executeJob", Batch(w), Pending(w))
  BY <1>1, <1>4, WorkerGotoMeans DEF PassMove, Proceeds, ExecutionPcs
<1>5. CASE WorkerAt(w, "executeJob") /\ NextExecution(w)
  BY <1>1, <1>2, <1>5, NextExecutionMeans DEF PassMove, Proceeds, WorkerAt, ExecutionPcs
<1> QED
  BY <1>3, <1>4, <1>5 DEF WorkFault, WorkerStoreError, WorkerReplyLost, WorkerAt

\* Whatever happens, at most one worker takes a step of its pass, or some of them
\* begin afresh.
Stand ==
    /\ executions' = executions
    /\ faults' = faults \/ OneMoreFault
    /\ \A w \in Workers :
          \/ workers'[w] = workers[w]
          \/ workers'[w].pc \notin ExecutionPcs /\ OneMoreFault

Alone(w) == \A v \in Workers \ {w} : workers'[v] = workers[v]

LEMMA PassMoves ==
  ASSUME Inv, [Next]_vars
  PROVE  Stand \/ \E w \in Workers : PassMove(w) /\ Alone(w)
<1>1. TypeOK
  BY DEF Inv
<1>2. ASSUME NEW w \in Workers, WorkStep(w) \/ WorkFault(w)
      PROVE  PassMove(w) /\ Alone(w)
  BY <1>1, <1>2, PassSteps, PassFaults, WorkStepMoves, WorkFaultMoves DEF WorkerAlone, Alone
<1>3. CASE Restart
  BY <1>3 DEF Restart, Fault, Stand, OneMoreFault, IdleWorker, ExecutionPcs
<1>4. CASE \/ \E c \in Calls : CallStep(c) \/ CallFault(c)
           \/ Tick \/ UNCHANGED vars
  BY <1>4 DEF CallStep, CallFault, Fault, Tick, vars, Stand, OneMoreFault
<1> QED BY <1>2, <1>3, <1>4 DEF Next

-----------------------------------------------------------------------------
(* The inductive invariant.  Rows a worker has listed, each once, have     *)
(* attempts left, and the row it has computed from a result counts no more *)
(* attempts than there may be; either is current or was overtaken.         *)
(*                                                                         *)
(* For every attempt a row counts, and for every failure, each worker may  *)
(* have called the executor once.  One that holds the result of the        *)
(* attempt that comes next has called for it too; one that holds a row of  *)
(* an earlier attempt still owes a call, for which there is room already.  *)

ListedCounted(w) ==
  workers[w].pc \in ExecutionPcs =>
      \A r \in Batch(w) :
          /\ r.execution_attempts < MaxAttempts
          /\ requests[r.id].version = r.version \/ Overtaken(r)
          /\ \A q \in Batch(w) : q.id = r.id => q = r

PendingCounted(w) ==
  WorkerAt(w, "executeUpdate") =>
      /\ Pending(w).status \in Reported
      /\ Pending(w).execution_attempts <= MaxAttempts
      /\ \/ requests[Pending(w).id].version + 1 = Pending(w).version
         \/ Counted(Pending(w))
      /\ \A r \in Batch(w) : r.id # Pending(w).id

Credited(id) == IF Attempts(id) < MaxAttempts THEN Attempts(id) ELSE MaxAttempts

Owing(w, id) ==
  /\ workers[w].pc \in ExecutionPcs
  /\ \E r \in Batch(w) : r.id = id /\ r.execution_attempts < Attempts(id)

Spent(w, id) ==
  /\ WorkerAt(w, "executeUpdate") /\ Pending(w).id = id
  /\ Attempts(id) < Pending(w).execution_attempts

Slot(w, id) ==
  executions[w][id] + (IF Owing(w, id) THEN 1 ELSE 0) <=
      Credited(id) + faults + (IF Spent(w, id) THEN 1 ELSE 0)

Counting ==
  /\ Fresh
  /\ \A w \in Workers : ListedCounted(w) /\ PendingCounted(w)
  /\ \A w \in Workers, id \in Ids : Slot(w, id)

LEMMA FaultsGrow ==
  ASSUME Inv, Inv', [Next]_vars
  PROVE  faults \in Nat /\ faults' \in Nat /\ faults <= faults'
<1>1. faults \in Nat /\ faults' \in Nat
  BY DEF Inv, TypeOK
<1>2. faults' = faults \/ faults' = faults + 1
  BY DEF Next, CallStep, CallFault, WorkStep, WorkFault, Tick, Restart, Fault, vars
<1> QED BY <1>1, <1>2

LEMMA BatchRow ==
  ASSUME Inv, NEW w \in Workers, workers[w].pc \in ExecutionPcs, NEW r \in Batch(w)
  PROVE  /\ r \in Row /\ r.id \in Ids /\ r.execution_attempts \in Nat /\ r.version \in Nat
         /\ AwaitsExecution(r) /\ IsVersionOf(r, requests)
<1>1. r \in Row /\ AwaitsExecution(r) /\ IsVersionOf(r, requests)
  BY WorkerFacts DEF WorkerIsSafe, Batch
<1> QED BY <1>1 DEF Row

LEMMA ResultRow ==
  ASSUME Inv, NEW w \in Workers, WorkerAt(w, "executeUpdate")
  PROVE  /\ Pending(w) \in Row /\ Pending(w).id \in Ids
         /\ Pending(w).execution_attempts \in Nat /\ Pending(w).version \in Nat
         /\ IsSafeWrite(Pending(w), requests, now)
<1>1. Pending(w) \in Row /\ IsSafeWrite(Pending(w), requests, now)
  BY WorkerFacts DEF WorkerIsSafe, WorkerAt, Pending, IsSafeWrite
<1> QED BY <1>1 DEF Row

\* A row listed for execution is a stored row with attempts left.
LEMMA ListedRow ==
  ASSUME Inv, Fresh, ScheduleMatchesStatus,
         NEW time, NEW limit,
         NEW batch \in ListRequestsReadyForExecution(time, limit), NEW r \in batch
  PROVE  /\ r \in Row /\ r.id \in Ids /\ r = requests[r.id] /\ Exists(r.id)
         /\ r.execution_attempts < MaxAttempts
<1>1. PICK id \in Ids : Exists(id) /\ r = requests[id] /\ ReadyForExecution(r, time)
  BY DEF ListRequestsReadyForExecution, Batches, Rows
<1>2. r \in Row /\ r.id = id
  BY <1>1, StoredRow
<1>3. r.status = "approved" \/ r.execution_attempts < MaxAttempts
  BY <1>1 DEF ReadyForExecution, ScheduleMatchesStatus, ScheduledRight
<1>4. ASSUME r.status = "approved" PROVE r.execution_attempts < MaxAttempts
  <2>1. r.execution_attempts = 0
    BY <1>1, <1>4 DEF Fresh, NotYetExecuted
  <2> QED BY <2>1, ConfigAssumption
<1> QED BY <1>1, <1>2, <1>3, <1>4

\* What Execute hands on: the row it was called for, and the one computed from
\* that.
LEMMA ExecutedRow ==
  ASSUME NEW r \in Row, NEW p, p = ExecutionRow(r, ExecutionSucceeds(r), now)
  PROVE  /\ p.id = r.id /\ p.version = r.version + 1
         /\ p.execution_attempts = r.execution_attempts + 1
         /\ p.status \in Reported
BY DEF ExecutionRow, AttemptsAfter, Outcome, Reported, Row

\* A result that counts one attempt more than the stored row follows that row,
\* so its update is not refused.
LEMMA SpentRow ==
  ASSUME Inv, NEW w \in Workers, WorkerAt(w, "executeUpdate"), PendingCounted(w),
         NEW id \in Ids, Pending(w).id = id,
         Attempts(id) < Pending(w).execution_attempts
  PROVE  /\ Exists(id) /\ UpdateMatches(Pending(w))
         /\ Pending(w).execution_attempts = Attempts(id) + 1
         /\ Attempts(id) < MaxAttempts
<1>1. PICK p : p = Pending(w)
  OBVIOUS
<1>2. /\ p \in Row /\ p.execution_attempts \in Nat /\ p.version \in Nat
      /\ p.id = id /\ IsSafeWrite(p, requests, now)
  BY <1>1, ResultRow
<1>3. Exists(id)
  BY <1>2 DEF IsSafeWrite, Exists
<1>4. requests[id] \in Row /\ now \in Nat /\ requests[id].version \in Nat
  BY <1>3, StoredRow DEF Inv, TypeOK, Row
<1>5. Attempts(id) = requests[id].execution_attempts /\ Attempts(id) \in Nat
  BY <1>3, <1>4 DEF Attempts, Row
<1>6. /\ p.execution_attempts <= MaxAttempts
      /\ requests[id].version + 1 = p.version \/ Counted(p)
  BY <1>1, <1>2 DEF PendingCounted
<1>7. requests[id].version + 1 = p.version
  BY <1>1, <1>2, <1>5, <1>6 DEF Counted
<1>8. IsTransition(requests[id], p, now)
  BY <1>2, <1>4, <1>7 DEF IsSafeWrite
<1>9. p.execution_attempts = Attempts(id) + 1
  BY <1>1, <1>2, <1>4, <1>5, <1>8, TransitionCounts
<1>10. UpdateMatches(p)
  BY <1>2, <1>3, <1>4, <1>7 DEF UpdateMatches
<1> QED
  BY <1>1, <1>2, <1>3, <1>5, <1>6, <1>9, <1>10, ConfigAssumption

-----------------------------------------------------------------------------
(* Listed and computed rows. *)

LEMMA ListedStays ==
  ASSUME Inv, [Next]_vars, NEW w \in Workers, ListedCounted(w),
         workers[w].pc \in ExecutionPcs, Batch(w)' \subseteq Batch(w)
  PROVE  ListedCounted(w)'
<1> SUFFICES ASSUME NEW r \in Batch(w)'
             PROVE  /\ r.execution_attempts < MaxAttempts
                    /\ requests'[r.id].version = r.version \/ Overtaken(r)'
                    /\ \A q \in Batch(w)' : q.id = r.id => q = r
  BY DEF ListedCounted
<1>1. r \in Row /\ AwaitsExecution(r) /\ IsVersionOf(r, requests)
  BY BatchRow
<1>2. /\ r.execution_attempts < MaxAttempts
      /\ requests[r.id].version = r.version \/ Overtaken(r)
      /\ \A q \in Batch(w)' : q.id = r.id => q = r
  BY DEF ListedCounted
<1> QED BY <1>1, <1>2, ReadRowStays

LEMMA RowsWhenStill ==
  ASSUME Inv, [Next]_vars, NEW w \in Workers, ListedCounted(w), PendingCounted(w),
         workers'[w] = workers[w]
  PROVE  ListedCounted(w)' /\ PendingCounted(w)'
<1>1. Batch(w)' = Batch(w) /\ Pending(w)' = Pending(w)
  BY DEF Batch, Pending
<1>2. ListedCounted(w)'
  BY <1>1, ListedStays DEF ListedCounted
<1>3. ASSUME WorkerAt(w, "executeUpdate") PROVE PendingCounted(w)'
  <2>1. PICK p : p = Pending(w)
    OBVIOUS
  <2>2. p \in Row /\ IsSafeWrite(p, requests, now)
    BY <1>3, <2>1, ResultRow
  <2>3. /\ p.status \in Reported /\ p.execution_attempts <= MaxAttempts
        /\ requests[p.id].version + 1 = p.version \/ Counted(p)
        /\ \A r \in Batch(w) : r.id # p.id
    BY <1>3, <2>1 DEF PendingCounted
  <2>4. requests'[p.id].version + 1 = p.version \/ Counted(p)'
    BY <2>2, <2>3, ComputedRowStays
  <2>5. Pending(w)' = p
    BY <1>1, <2>1
  <2> QED BY <1>1, <2>3, <2>4, <2>5 DEF PendingCounted, Counted
<1>4. ASSUME ~WorkerAt(w, "executeUpdate") PROVE PendingCounted(w)'
  BY <1>4 DEF PendingCounted, WorkerAt
<1> QED BY <1>2, <1>3, <1>4

LEMMA RowsWhenListed ==
  ASSUME Inv, Fresh, ScheduleMatchesStatus, NEW w \in Workers, Lists(w)
  PROVE  ListedCounted(w)' /\ PendingCounted(w)'
<1>1. workers'[w].pc = "execute" /\ requests' = requests
  BY DEF Lists
<1>2. \A r \in Batch(w)' :
          r.execution_attempts < MaxAttempts /\ r = requests[r.id]
  BY ListedRow DEF Lists
<1>3. \A r \in Batch(w)', q \in Batch(w)' : q.id = r.id => q = r
  BY <1>2
<1> QED BY <1>1, <1>2, <1>3 DEF ListedCounted, PendingCounted, WorkerAt

LEMMA RowsWhenExecuted ==
  ASSUME Inv, [Next]_vars, NEW w \in Workers, ListedCounted(w),
         NEW r \in Batch(w), Executes(w, r)
  PROVE  ListedCounted(w)' /\ PendingCounted(w)'
<1>1. /\ workers[w].pc \in ExecutionPcs /\ workers'[w].pc = "executeUpdate"
      /\ Batch(w)' = Batch(w) \ {r} /\ requests' = requests
  BY DEF Executes, WorkerAt, ExecutionPcs
<1>2. PICK p : p = Pending(w)'
  OBVIOUS
<1>3. /\ r \in Row /\ r.execution_attempts \in Nat /\ IsVersionOf(r, requests)
      /\ r.id \in Ids
  BY <1>1, BatchRow
<1>4. /\ p.id = r.id /\ p.version = r.version + 1
      /\ p.execution_attempts = r.execution_attempts + 1
      /\ p.status \in Reported
  BY <1>2, <1>3, ExecutedRow DEF Executes
<1>5. /\ r.execution_attempts < MaxAttempts
      /\ requests[r.id].version = r.version \/ Overtaken(r)
      /\ \A q \in Batch(w) : q.id = r.id => q = r
  BY <1>1 DEF ListedCounted
<1>6. ListedCounted(w)'
  BY <1>1, ListedStays
<1>7. requests[p.id].version + 1 = p.version \/ Counted(p)
  <2>1. requests[r.id].execution_attempts \in Nat
    BY <1>3 DEF IsVersionOf, Inv, TypeOK, Row
  <2> QED BY <1>3, <1>4, <1>5, <2>1 DEF Overtaken, Counted
<1>8. p.execution_attempts <= MaxAttempts
  BY <1>3, <1>4, <1>5, ConfigAssumption
<1>9. \A q \in Batch(w)' : q.id # p.id
  BY <1>1, <1>4, <1>5
<1>10. PendingCounted(w)'
  BY <1>1, <1>2, <1>4, <1>7, <1>8, <1>9 DEF PendingCounted, Counted
<1> QED BY <1>6, <1>10

LEMMA RowsKeep ==
  ASSUME Inv, ScheduleMatchesStatus, [Next]_vars, Counting, NEW w \in Workers
  PROVE  ListedCounted(w)' /\ PendingCounted(w)'
<1>1. Fresh /\ ListedCounted(w) /\ PendingCounted(w)
  BY DEF Counting
<1>2. CASE workers'[w] = workers[w]
  BY <1>1, <1>2, RowsWhenStill
<1>3. CASE workers'[w].pc \notin ExecutionPcs
  BY <1>3 DEF ListedCounted, PendingCounted, WorkerAt, ExecutionPcs
<1>4. CASE Lists(w)
  BY <1>1, <1>4, RowsWhenListed
<1>5. CASE \E r \in Batch(w) : Executes(w, r)
  BY <1>1, <1>5, RowsWhenExecuted
<1>6. CASE Proceeds(w)
  <2>1. ListedCounted(w)'
    BY <1>1, <1>6, ListedStays DEF Proceeds
  <2> QED BY <1>6, <2>1 DEF Proceeds, PendingCounted, WorkerAt
<1> QED
  BY <1>2, <1>3, <1>4, <1>5, <1>6, PassMoves DEF PassMove, Leaves, Stand, Alone

-----------------------------------------------------------------------------
(* The calls of the executor. *)

LEMMA CreditGrows ==
  ASSUME Inv, Inv', [Next]_vars, NEW w \in Workers, NEW id \in Ids
  PROVE  /\ executions[w][id] \in Nat /\ executions'[w][id] \in Nat
         /\ Credited(id) \in Nat /\ Credited(id)' \in Nat
         /\ Credited(id) <= Credited(id)'
<1>1. executions[w][id] \in Nat /\ executions'[w][id] \in Nat
  BY DEF Inv, TypeOK
<1> QED BY <1>1, AttemptsGrow, ConfigAssumption DEF Credited

\* Without a call of the executor, a slot is given up only for a failure.
LEMMA SlotKept ==
  ASSUME Inv, Inv', [Next]_vars, NEW w \in Workers, NEW id \in Ids, Slot(w, id),
         executions'[w][id] = executions[w][id], Owing(w, id)' => Owing(w, id),
         OneMoreFault \/ (faults' = faults /\ (Spent(w, id) => Spent(w, id)'))
  PROVE  Slot(w, id)'
<1> DEFINE o == IF Owing(w, id) THEN 1 ELSE 0
           s == IF Spent(w, id) THEN 1 ELSE 0
<1>1. /\ executions[w][id] \in Nat /\ faults \in Nat /\ faults' \in Nat
      /\ Credited(id) \in Nat /\ Credited(id)' \in Nat /\ Credited(id) <= Credited(id)'
      /\ OneMoreFault => faults' = faults + 1
  BY CreditGrows, FaultsGrow DEF OneMoreFault
<1>2. /\ o \in {0, 1} /\ s \in {0, 1} /\ o' \in {0, 1} /\ s' \in {0, 1}
      /\ o' <= o /\ (OneMoreFault \/ s <= s')
  OBVIOUS
<1>3. executions[w][id] + o <= Credited(id) + faults + s
  BY DEF Slot
<1> HIDE DEF o, s
<1>4. executions'[w][id] + o' <= Credited(id)' + faults' + s'
  BY <1>1, <1>2, <1>3
<1> QED BY <1>4 DEF Slot, o, s

\* What another worker does leaves the slot alone.
LEMMA SlotOfOthers ==
  ASSUME Inv, Inv', [Next]_vars, NEW w \in Workers, NEW id \in Ids, Slot(w, id),
         workers'[w] = workers[w], executions'[w] = executions[w],
         Attempts(id)' = Attempts(id), faults' = faults \/ OneMoreFault
  PROVE  Slot(w, id)'
<1>1. Batch(w)' = Batch(w) /\ Pending(w)' = Pending(w)
  BY DEF Batch, Pending
<1>2. (Owing(w, id)' => Owing(w, id)) /\ (Spent(w, id) => Spent(w, id)')
  BY <1>1 DEF Owing, Spent, WorkerAt
<1> QED BY <1>2, SlotKept

\* The executor is called for a row of this attempt, or of an earlier one.
LEMMA SlotWhenExecuted ==
  ASSUME Inv, Inv', [Next]_vars, NEW w \in Workers, ListedCounted(w),
         NEW r \in Batch(w), Executes(w, r), NEW id \in Ids, Slot(w, id)
  PROVE  Slot(w, id)'
<1>1. /\ workers[w].pc = "execute" /\ workers'[w].pc = "executeUpdate"
      /\ workers[w].pc \in ExecutionPcs /\ workers'[w].pc \in ExecutionPcs
      /\ Batch(w)' = Batch(w) \ {r} /\ requests' = requests /\ faults' = faults
      /\ executions' = [executions EXCEPT ![w][r.id] = executions[w][r.id] + 1]
  BY DEF Executes, WorkerAt, ExecutionPcs
<1>2. PICK p : p = Pending(w)'
  OBVIOUS
<1>3. /\ r \in Row /\ r.id \in Ids /\ r.execution_attempts \in Nat
      /\ IsVersionOf(r, requests) /\ executions \in [Workers -> [Ids -> Nat]]
  BY <1>1, BatchRow DEF Inv, TypeOK
<1>4. p.id = r.id /\ p.execution_attempts = r.execution_attempts + 1
  BY <1>2, <1>3, ExecutedRow DEF Executes
<1>5. \A q \in Batch(w) : q.id = r.id => q = r
  BY <1>1 DEF ListedCounted
<1>6. Attempts(id)' = Attempts(id) /\ Attempts(id) \in Nat
  BY <1>1, AttemptsGrow DEF Attempts, Exists
<1>7. /\ Owing(w, id)' => Owing(w, id)
      /\ ~Spent(w, id)
  BY <1>1, <1>6 DEF Owing, Spent, WorkerAt
<1>8. CASE r.id # id
  <2>1. executions'[w][id] = executions[w][id]
    BY <1>1, <1>3, <1>8
  <2> QED BY <1>1, <1>7, <2>1, SlotKept
<1>9. CASE r.id = id
  <2>1. executions'[w][id] = executions[w][id] + 1
    BY <1>1, <1>3, <1>9
  <2>2. r.execution_attempts <= Attempts(id)
    <3>1. Exists(id) /\ requests[id] \in Row
      BY <1>3, <1>9, StoredRow DEF IsVersionOf, Exists
    <3>2. requests[id].version = r.version \/ Overtaken(r)
      BY <1>1, <1>9 DEF ListedCounted
    <3> QED BY <1>3, <1>6, <1>9, <3>1, <3>2 DEF Attempts, Overtaken, IsVersionOf
  <2>3. ~Owing(w, id)'
    BY <1>1, <1>5, <1>9 DEF Owing
  <2>4. Owing(w, id) \/ Spent(w, id)'
    <3>1. CASE r.execution_attempts < Attempts(id)
      BY <1>1, <1>9, <3>1 DEF Owing
    <3>2. CASE r.execution_attempts = Attempts(id)
      BY <1>1, <1>2, <1>3, <1>4, <1>6, <1>9, <3>2 DEF Spent, WorkerAt
    <3> QED BY <1>3, <1>6, <2>2, <3>1, <3>2
  <2>5. /\ executions[w][id] \in Nat /\ faults \in Nat /\ Credited(id) \in Nat
        /\ Credited(id)' = Credited(id)
    BY <1>6, CreditGrows, FaultsGrow DEF Credited
  <2>6. executions[w][id] + (IF Owing(w, id) THEN 1 ELSE 0) <= Credited(id) + faults
    BY <1>7, <2>5 DEF Slot
  <2>7. executions'[w][id] <= Credited(id) + faults + (IF Spent(w, id)' THEN 1 ELSE 0)
    BY <2>1, <2>4, <2>5, <2>6
  <2> QED BY <1>1, <2>1, <2>3, <2>5, <2>7 DEF Slot
<1> QED BY <1>8, <1>9

\* As long as a row counts no more attempts than before, the slots are kept.
LEMMA SlotsStay ==
  ASSUME Inv, Inv', ScheduleMatchesStatus, [Next]_vars, Counting,
         NEW v \in Workers, NEW id \in Ids, Attempts(id)' = Attempts(id)
  PROVE  Slot(v, id)'
<1>1. Slot(v, id) /\ ListedCounted(v) /\ PendingCounted(v)
  BY DEF Counting
<1>2. CASE Stand
  <2>1. CASE workers'[v] = workers[v]
    BY <1>1, <1>2, <2>1, SlotOfOthers DEF Stand
  <2>2. CASE workers'[v].pc \notin ExecutionPcs /\ OneMoreFault
    <3>1. ~Owing(v, id)'
      BY <2>2 DEF Owing
    <3> QED BY <1>1, <1>2, <2>2, <3>1, SlotKept DEF Stand
  <2> QED BY <1>2, <2>1, <2>2 DEF Stand
<1>3. ASSUME NEW w \in Workers, PassMove(w), Alone(w), w # v
      PROVE  Slot(v, id)'
  <2>1. workers'[v] = workers[v]
    BY <1>3 DEF Alone
  <2>2. executions'[v] = executions[v]
    BY <1>3 DEF PassMove, Leaves, Lists, Executes, Proceeds, Inv, TypeOK
  <2>3. faults' = faults \/ OneMoreFault
    BY <1>3 DEF PassMove, Leaves, Lists, Executes, Proceeds
  <2> QED BY <1>1, <2>1, <2>2, <2>3, SlotOfOthers
<1>4. CASE PassMove(v)
  <2>1. CASE Leaves(v)
    <3>1. ~Owing(v, id)'
      BY <2>1 DEF Owing, Leaves
    <3>2. ~WorkerAt(v, "executeUpdate") => ~Spent(v, id)
      BY DEF Spent
    <3> QED BY <1>1, <2>1, <3>1, <3>2, SlotKept DEF Leaves
  <2>2. CASE Lists(v)
    <3>1. \A r \in Batch(v)' : r = requests[r.id] /\ Exists(r.id)
      BY <2>2, ListedRow DEF Lists, Counting
    <3>2. \A r \in Batch(v)' : r.id = id => r.execution_attempts = Attempts(id)
      BY <3>1 DEF Attempts
    <3>3. Attempts(id) \in Nat
      BY AttemptsGrow
    <3>4. ~Owing(v, id)' /\ ~Spent(v, id)
      BY <2>2, <3>2, <3>3 DEF Owing, Spent, Lists, WorkerAt
    <3> QED BY <1>1, <2>2, <3>4, SlotKept DEF Lists
  <2>3. CASE \E r \in Batch(v) : Executes(v, r)
    BY <1>1, <2>3, SlotWhenExecuted
  <2>4. CASE Proceeds(v)
    <3>1. Owing(v, id)' => Owing(v, id)
      BY <2>4 DEF Owing, Proceeds
    <3>2. ASSUME Spent(v, id), faults' = faults PROVE FALSE
      <4>1. PICK p : p = Pending(v)
        OBVIOUS
      <4>2. WorkerAt(v, "executeUpdate") /\ p.id = id /\ Attempts(id) < p.execution_attempts
        BY <3>2, <4>1 DEF Spent
      <4>3. UpdateMatches(p) /\ p \in Row
        BY <1>1, <4>1, <4>2, SpentRow, ResultRow
      <4>4. UpdateRequest(p)
        BY <2>4, <3>2, <4>1, <4>2, <4>3, FaultsGrow DEF Proceeds, OneMoreFault
      <4>5. requests' = [requests EXCEPT ![id] = p] /\ p # Nil
        BY <4>2, <4>3, <4>4, NilAssumption DEF UpdateRequest
      <4>6. requests'[id] = p
        BY <4>5 DEF Inv, TypeOK
      <4>7. Attempts(id)' = p.execution_attempts
        BY <4>5, <4>6 DEF Attempts, Exists
      <4> QED BY <4>2, <4>7, AttemptsGrow
    <3> QED BY <1>1, <2>4, <3>1, <3>2, SlotKept DEF Proceeds
  <2> QED BY <1>4, <2>1, <2>2, <2>3, <2>4 DEF PassMove
<1> QED BY <1>2, <1>3, <1>4, PassMoves

\* While a row changes, no worker lists it or calls the executor.
LEMMA RowsPassOn ==
  ASSUME Inv, Inv', [Next]_vars, requests' # requests
  PROVE  /\ executions' = executions
         /\ \A w \in Workers :
               /\ workers'[w].pc \in ExecutionPcs =>
                     workers[w].pc \in ExecutionPcs /\ Batch(w)' = Batch(w)
               /\ workers'[w].pc = "executeUpdate" =>
                     WorkerAt(w, "executeUpdate") /\ Pending(w)' = Pending(w)
<1>1. CASE Stand
  BY <1>1 DEF Stand, Batch, Pending, WorkerAt, ExecutionPcs
<1>2. ASSUME NEW w \in Workers, PassMove(w), Alone(w)
      PROVE  /\ executions' = executions
             /\ \A v \in Workers :
                   /\ workers'[v].pc \in ExecutionPcs =>
                         workers[v].pc \in ExecutionPcs /\ Batch(v)' = Batch(v)
                   /\ workers'[v].pc = "executeUpdate" =>
                         WorkerAt(v, "executeUpdate") /\ Pending(v)' = Pending(v)
  <2>1. Leaves(w) \/ Proceeds(w)
    BY <1>2 DEF PassMove, Lists, Executes
  <2>2. \A v \in Workers \ {w} : workers'[v] = workers[v]
    BY <1>2 DEF Alone
  <2> QED
    BY <2>1, <2>2 DEF Leaves, Proceeds, Batch, Pending, WorkerAt, ExecutionPcs
<1> QED BY <1>1, <1>2, PassMoves

\* When a row counts one attempt more, a worker that holds its result has called
\* for it, and one that holds a listed row still may: no worker holds both.
LEMMA SlotWhenCounted ==
  ASSUME Inv, Inv', [Next]_vars, Counting, NEW w \in Workers,
         NEW id \in Ids, Attempts(id)' # Attempts(id)
  PROVE  Slot(w, id)'
<1> DEFINE Holding == workers[w].pc \in ExecutionPcs /\ \E r \in Batch(w) : r.id = id
<1>1. Slot(w, id) /\ ListedCounted(w) /\ PendingCounted(w)
  BY DEF Counting
<1>2. requests' # requests
  BY DEF Attempts, Exists
<1>3. Attempts(id) \in Nat /\ Attempts(id)' = Attempts(id) + 1 /\ Exists(id)
  <2>1. CASE ~Exists(id)
    <3>1. CASE Exists(id)'
      <4>1. PICK actor \in Actors, target \in Targets :
                requests'[id] = DraftRow(id, actor, target)
        BY <2>1, <3>1, StepRefines, NewRowsAreDrafts
      <4> QED BY <2>1, <3>1, <4>1 DEF Attempts, DraftRow
    <3>2. CASE ~Exists(id)'
      BY <2>1, <3>2 DEF Attempts
    <3> QED BY <3>1, <3>2
  <2>2. CASE Exists(id)
    <3>1. requests[id] \in Row /\ now \in Nat /\ Exists(id)'
      BY <2>2, TableStep
    <3>2. Attempts(id) = requests[id].execution_attempts
          /\ Attempts(id)' = requests'[id].execution_attempts
      BY <2>2, <3>1 DEF Attempts
    <3>3. IsTransition(requests[id], requests'[id], now)
      BY <2>2, <3>2, TableStep
    <3> QED BY <2>2, <3>1, <3>2, <3>3, TransitionCounts
  <2> QED BY <2>1, <2>2
<1>4. Owing(w, id)' => Holding
  BY <1>2, RowsPassOn DEF Owing
<1>5. ~Spent(w, id)'
  <2> SUFFICES ASSUME workers'[w].pc = "executeUpdate", Pending(w)'.id = id,
                      Attempts(id)' < Pending(w)'.execution_attempts
               PROVE  FALSE
    BY DEF Spent, WorkerAt
  <2>1. PICK p : p = Pending(w)
    OBVIOUS
  <2>2. WorkerAt(w, "executeUpdate") /\ Pending(w)' = p
    BY <1>2, <2>1, RowsPassOn
  <2>3. p.id = id /\ p.execution_attempts \in Nat /\ Attempts(id) + 1 < p.execution_attempts
    BY <1>3, <2>1, <2>2, ResultRow
  <2>4. p.execution_attempts = Attempts(id) + 1
    BY <1>1, <1>3, <2>1, <2>2, <2>3, SpentRow
  <2> QED BY <1>3, <2>3, <2>4
<1>6. ~(Holding /\ Spent(w, id))
  BY <1>1 DEF Spent, PendingCounted
<1>7. ASSUME ~(Attempts(id) < MaxAttempts)
      PROVE  ~Spent(w, id) /\ (Holding => Owing(w, id))
  <2>1. ~Spent(w, id)
    BY <1>1, <1>7, SpentRow DEF Spent
  <2>2. ASSUME workers[w].pc \in ExecutionPcs, NEW r \in Batch(w), r.id = id
        PROVE  r.execution_attempts < Attempts(id)
    <3>1. r.execution_attempts < MaxAttempts
      BY <1>1, <2>2 DEF ListedCounted
    <3>2. r.execution_attempts \in Nat
      BY <2>2, BatchRow
    <3> QED BY <1>3, <1>7, <3>1, <3>2, ConfigAssumption
  <2> QED BY <2>1, <2>2 DEF Owing
<1> HIDE DEF Holding
<1>8. /\ executions[w][id] \in Nat /\ executions'[w][id] = executions[w][id]
      /\ faults \in Nat /\ faults' \in Nat /\ faults <= faults'
      /\ Credited(id) \in Nat /\ Credited(id)' \in Nat /\ Credited(id) <= Credited(id)'
      /\ Attempts(id) < MaxAttempts => Credited(id)' = Credited(id) + 1
  <2>1. executions' = executions
    BY <1>2, RowsPassOn
  <2>2. Attempts(id) < MaxAttempts => Credited(id)' = Credited(id) + 1
    BY <1>3, ConfigAssumption DEF Credited
  <2> QED BY <2>1, <2>2, CreditGrows, FaultsGrow
<1>9. executions[w][id] + (IF Owing(w, id) THEN 1 ELSE 0)
         <= Credited(id) + faults + (IF Spent(w, id) THEN 1 ELSE 0)
  BY <1>1 DEF Slot
<1>10. executions'[w][id] + (IF Owing(w, id)' THEN 1 ELSE 0) <= Credited(id)' + faults'
  <2>1. CASE Attempts(id) < MaxAttempts
    <3>1. CASE Owing(w, id)'
      BY <1>4, <1>6, <1>8, <1>9, <2>1, <3>1
    <3>2. CASE ~Owing(w, id)'
      BY <1>8, <1>9, <2>1, <3>2
    <3> QED BY <3>1, <3>2
  <2>2. CASE ~(Attempts(id) < MaxAttempts)
    BY <1>4, <1>7, <1>8, <1>9, <2>2
  <2> QED BY <2>1, <2>2
<1> QED BY <1>5, <1>8, <1>10 DEF Slot

LEMMA CountingKeeps ==
  ASSUME Inv, Inv', ScheduleMatchesStatus, [Next]_vars, Counting
  PROVE  Counting'
<1>1. Fresh'
  BY FreshKeeps DEF Counting
<1>2. \A w \in Workers : ListedCounted(w)' /\ PendingCounted(w)'
  BY RowsKeep
<1>3. \A w \in Workers, id \in Ids : Slot(w, id)'
  BY SlotsStay, SlotWhenCounted
<1> QED BY <1>1, <1>2, <1>3 DEF Counting

LEMMA CountingStarts ==
  ASSUME Init
  PROVE  Counting
<1>1. /\ \A w \in Workers : workers[w].pc = "wait"
      /\ \A w \in Workers, id \in Ids : executions[w][id] = 0
      /\ \A id \in Ids : ~Exists(id)
      /\ faults = 0
  BY DEF Init, StoreInit, WorkerInit, IdleWorker, Exists
<1>2. ASSUME NEW w \in Workers, NEW id \in Ids PROVE Slot(w, id)
  <2>1. ~Owing(w, id) /\ ~Spent(w, id)
    BY <1>1 DEF Owing, Spent, WorkerAt, ExecutionPcs
  <2>2. Credited(id) = 0
    BY <1>1, ConfigAssumption DEF Credited, Attempts
  <2> QED BY <1>1, <2>1, <2>2 DEF Slot
<1> QED
  BY <1>1, <1>2 DEF Counting, Fresh, ListedCounted, PendingCounted, WorkerAt, ExecutionPcs

-----------------------------------------------------------------------------
(* What follows. *)

LEMMA ExecutionsCounted ==
  ASSUME Inv, Counting
  PROVE  ExecutionsAreCounted /\ ExecutionsAreBounded
<1> SUFFICES ASSUME NEW w \in Workers, NEW id \in Ids
             PROVE  /\ executions[w][id] <=
                          Attempts(id) + faults + (IF HoldsResult(w, id) THEN 1 ELSE 0)
                    /\ executions[w][id] <= MaxAttempts + faults
  BY DEF ExecutionsAreCounted, ExecutionsAreBounded
<1>1. Slot(w, id) /\ PendingCounted(w)
  BY DEF Counting
<1>2. Spent(w, id) => HoldsResult(w, id) /\ Attempts(id) < MaxAttempts
  BY <1>1, SpentRow DEF Spent, HoldsResult
<1>3. /\ executions[w][id] \in Nat /\ Attempts(id) \in Nat /\ Credited(id) \in Nat
      /\ faults \in Nat /\ MaxAttempts \in Nat
      /\ Credited(id) <= Attempts(id) /\ Credited(id) <= MaxAttempts
      /\ Attempts(id) < MaxAttempts => Credited(id) + 1 <= MaxAttempts
  BY ConfigAssumption DEF Inv, TypeOK, Credited, Attempts, Exists, Row
<1>4. executions[w][id] <= Credited(id) + faults + (IF Spent(w, id) THEN 1 ELSE 0)
  BY <1>1, <1>3 DEF Slot
<1> QED BY <1>2, <1>3, <1>4

\* Every call a worker makes of the executor is an attempt the row counts, is
\* about to be counted, or was lost to a failure, and no two are the same one
\* (ProcessDueExecutions and applyExecutionResult): no interleaving with
\* approvals, reminders, reported results, a refused update or another process
\* makes a worker provision behind the row's back.
THEOREM ExecutionsAreCountedHolds == Spec => []ExecutionsAreCounted
<1>1. Init => Counting
  BY CountingStarts
<1>2. Inv /\ Inv' /\ ScheduleMatchesStatus /\ Counting /\ [Next]_vars => Counting'
  BY CountingKeeps
<1>3. Inv /\ Counting => ExecutionsAreCounted
  BY ExecutionsCounted
<1> QED BY <1>1, <1>2, <1>3, InvHolds, ScheduleMatchesStatusHolds, PTL DEF Spec

\* Each worker calls the executor at most MaxAttempts times for a request, and
\* once more for every failure, although it is called on a row read earlier: a
\* listed row has attempts left, and a result in hand is one of them.
THEOREM ExecutionsAreBoundedHolds == Spec => []ExecutionsAreBounded
<1>1. Init => Counting
  BY CountingStarts
<1>2. Inv /\ Inv' /\ ScheduleMatchesStatus /\ Counting /\ [Next]_vars => Counting'
  BY CountingKeeps
<1>3. Inv /\ Counting => ExecutionsAreBounded
  BY ExecutionsCounted
<1> QED BY <1>1, <1>2, <1>3, InvHolds, ScheduleMatchesStatusHolds, PTL DEF Spec

-----------------------------------------------------------------------------
(* Job runs: without failures, and when nobody reports results by hand, a  *)
(* row the one worker has listed for execution, or has computed the result *)
(* of, stays current; and whatever a row counts has its job run, or is     *)
(* about to.                                                               *)

NobodyReports == \A m \in Traffic : m.op = "execution" => ~MayRecordExecution(m.actor)

NoneReported == \A c \in Calls : InFlight(c) => Op(c) # "execution"

LEMMA NoneReportedKeeps ==
  ASSUME Inv, Inv', [Next]_vars, NobodyReports, NoneReported
  PROVE  NoneReported'
<1> SUFFICES ASSUME NEW c \in Calls, InFlight(c)', Op(c)' = "execution"
             PROVE  FALSE
  BY DEF NoneReported
<1>1. CASE calls'[c] = calls[c]
  BY <1>1 DEF NoneReported, InFlight, Op
<1>2. CASE CallMove(c)
  <2>1. CASE Begins(c)
    <3>1. MayRecordExecution(ActorOf(c)')
      BY <2>1 DEF Begins, Answered, At, InFlight, StorePcs
    <3>2. calls'[c].msg \in Traffic
      BY DEF Inv, NoLostUpdate, CallIsSafe, InFlight
    <3> QED BY <3>1, <3>2 DEF NobodyReports, Op, ActorOf
  <2>2. CASE ~Begins(c)
    <3>1. InFlight(c) /\ KeepsMessage(c)
      BY <1>2, <2>2 DEF CallMove, Reads, Claims, Creates, Updates, Reviews, Audits,
                        InFlight, At, StorePcs
    <3> QED BY <3>1 DEF NoneReported, KeepsMessage, Op
  <2> QED BY <2>1, <2>2
<1>3. CASE Crashes
  BY <1>1, <1>3, CrashEndsCalls DEF InFlight, Answered, At, StorePcs
<1> QED BY <1>1, <1>2, <1>3, Moves DEF CallAlone, WorkerAlone, Waits

\* A row about to be written has the counts of the row it may replace.
SameCounts(old, new) ==
  /\ new.reminder_count = old.reminder_count
  /\ new.execution_attempts = old.execution_attempts

CountsKept(p) == requests[p.id].version + 1 = p.version => SameCounts(requests[p.id], p)

Leaving == \A c \in Calls : At(c, "update") => CountsKept(RowOf(c))

LEMMA TransitionFollows ==
  ASSUME NEW old \in Row, NEW new, NEW time \in Nat, IsTransition(old, new, time)
  PROVE  Follows(new, old)
<1>1. \A t \in 0..time : t \in Int
  OBVIOUS
<1> QED
  BY <1>1, SubmittedRowFollows, ReviewedRowFollows, RemindedRowFollows,
     ExecutionRowFollows DEF IsTransition

LEMMA CountsStayKept ==
  ASSUME Inv, [Next]_vars, NEW p \in Row, IsSafeWrite(p, requests, now), CountsKept(p)
  PROVE  CountsKept(p)'
<1>1. /\ p.id \in Ids /\ p.version \in Nat /\ Exists(p.id)
      /\ p.version - 1 <= requests[p.id].version
  BY DEF Row, IsSafeWrite, Exists
<1>2. requests[p.id] \in Row /\ now \in Nat /\ requests[p.id].version \in Nat
  BY <1>1, TableStep DEF Row
<1>3. CASE requests'[p.id] = requests[p.id]
  BY <1>3 DEF CountsKept
<1>4. CASE IsTransition(requests[p.id], requests'[p.id], now)
  <2>1. requests'[p.id].version = requests[p.id].version + 1
    BY <1>2, <1>4, TransitionFollows DEF Follows
  <2> QED BY <1>1, <1>2, <2>1 DEF CountsKept
<1> QED BY <1>1, <1>3, <1>4, TableStep

LEMMA ClaimedCounts ==
  ASSUME Inv, NEW c \in Calls, At(c, "claim")
  PROVE  CountsKept(ClaimedRow(c))
<1>1. PICK r : r = RowOf(c)
  OBVIOUS
<1>2. r \in Row /\ IsVersionOf(r, requests)
  BY <1>1, CallFacts DEF CallIsSafe, IsVersionOf, At, RowOf, InFlight, StorePcs
<1>3. PICK p : p = ClaimedRow(c)
  OBVIOUS
<1>4. p.id = r.id /\ p.version = r.version + 1 /\ SameCounts(r, p)
  BY <1>1, <1>2, <1>3 DEF ClaimedRow, SubmittedRow, ReviewedRow, SameCounts, Row
<1>5. r.version \in Nat /\ requests[r.id].version \in Nat
  BY <1>2 DEF IsVersionOf, Inv, TypeOK, Row
<1>6. CountsKept(p)
  BY <1>2, <1>4, <1>5 DEF CountsKept, IsVersionOf
<1> QED BY <1>3, <1>6

LEMMA LeavingKeeps ==
  ASSUME Inv, NoneReported, Leaving, [Next]_vars
  PROVE  Leaving'
<1> SUFFICES ASSUME NEW c \in Calls, At(c, "update")'
             PROVE  CountsKept(RowOf(c))'
  BY DEF Leaving
<1>1. CASE calls'[c] = calls[c]
  <2>1. At(c, "update") /\ InFlight(c) /\ RowOf(c)' = RowOf(c)
    BY <1>1 DEF At, InFlight, StorePcs, RowOf
  <2>2. PICK p : p = RowOf(c)
    OBVIOUS
  <2>3. p \in Row /\ IsSafeWrite(p, requests, now) /\ CountsKept(p)
    BY <2>1, <2>2, CallFacts DEF CallIsSafe, IsSafeWrite, At, RowOf, Leaving
  <2>4. CountsKept(p)'
    BY <2>3, CountsStayKept
  <2> QED BY <2>1, <2>2, <2>4 DEF CountsKept
<1>2. CASE CallMove(c)
  <2>1. CASE Claims(c)
    <3>1. At(c, "claim") /\ RowOf(c)' = ClaimedRow(c) /\ requests' = requests
      BY <2>1 DEF Claims, Answered, At, CreateIdempotency
    <3>2. PICK p : p = ClaimedRow(c)
      OBVIOUS
    <3>3. CountsKept(p)
      BY <3>1, <3>2, ClaimedCounts
    <3> QED BY <3>1, <3>2, <3>3 DEF CountsKept
  <2>2. CASE ~Claims(c)
    <3>1. Reads(c) /\ InFlight(c) /\ Op(c) = "execution"
      BY <1>2, <2>2 DEF CallMove, Begins, Reads, Creates, Updates, Reviews, Audits,
                        Answered, At
    <3> QED BY <3>1 DEF NoneReported
  <2> QED BY <2>1, <2>2
<1>3. CASE Crashes
  BY <1>1, <1>3, CrashEndsCalls DEF Answered, At, StorePcs
<1> QED BY <1>1, <1>2, <1>3, Moves DEF CallAlone, WorkerAlone, Waits

\* What a step of a call leaves of a stored row.
Spared(id) ==
  /\ Exists(id)'
  /\ SameCounts(requests[id], requests'[id])
  /\ requests'[id].status = "executed" <=> requests[id].status = "executed"
  /\ requests[id].status \in Reported \/ AwaitsExecution(requests[id]) =>
        requests'[id] = requests[id]

LEMMA SameRowIsSpared ==
  ASSUME NEW id, Exists(id), requests'[id] = requests[id]
  PROVE  Spared(id)
BY DEF Spared, SameCounts, Exists

LEMMA CountlessTransition ==
  ASSUME NEW old \in Row, NEW new, NEW time \in Nat, IsTransition(old, new, time),
         SameCounts(old, new)
  PROVE  /\ old.status \notin Reported /\ ~AwaitsExecution(old)
         /\ new.status # "executed"
<1>1. ~AwaitsExecution(old) /\ new.status \notin Reported
  BY TransitionCounts DEF SameCounts
<1>2. old.status # "executed"
  BY DEF IsTransition, NeedsReminder, AwaitsExecution
<1> QED BY <1>1, <1>2 DEF Reported, AwaitsExecution

LEMMA CallsSpare ==
  ASSUME Inv, Leaving, [Next]_vars, NEW c \in Calls, CallMove(c), NEW id \in Ids, Exists(id)
  PROVE  Spared(id)
<1>1. CASE requests'[id] = requests[id]
  BY <1>1, SameRowIsSpared
<1>2. CASE requests'[id] # requests[id]
  <2>1. ~Creates(c)
    <3> SUFFICES ASSUME Creates(c) PROVE FALSE
      OBVIOUS
    <3>1. PICK p : p = RowOf(c)
      OBVIOUS
    <3>2. p.id # id
      BY <3>1 DEF Creates, Inv, NoLostUpdate, IsNewDraft, DraftRow
    <3>3. requests' = [requests EXCEPT ![p.id] = p]
      BY <3>1 DEF Creates, CreateRequest
    <3> QED BY <1>2, <3>2, <3>3 DEF Inv, TypeOK
  <2>2. Updates(c)
    BY <1>2, <2>1 DEF CallMove, Begins, Reads, Claims, Reviews, Audits, storeVars,
                      CreateIdempotency, CreateReview, AppendAudit
  <2>3. PICK p : p = RowOf(c)
    OBVIOUS
  <2>4. At(c, "update") /\ UpdateMatches(p) /\ requests' = [requests EXCEPT ![p.id] = p]
    BY <2>2, <2>3 DEF Updates, UpdateRequest
  <2>5. p \in Row /\ CountsKept(p)
    BY <2>3, <2>4, CallFacts DEF CallIsSafe, IsSafeWrite, At, RowOf, Leaving, InFlight,
                                 StorePcs
  <2>6. p.id = id /\ requests'[id] = p
    BY <1>2, <2>4 DEF Inv, TypeOK
  <2>7. /\ requests[id] \in Row /\ now \in Nat /\ Exists(id)'
        /\ IsTransition(requests[id], requests'[id], now)
    BY <1>2, TableStep
  <2>8. requests[id].version \in Nat /\ p.version \in Nat
    BY <2>5, <2>7 DEF Row
  <2>9. SameCounts(requests[id], requests'[id])
    BY <2>4, <2>5, <2>6, <2>8 DEF CountsKept, UpdateMatches
  <2> QED BY <2>7, <2>9, CountlessTransition DEF Spared, Reported
<1> QED BY <1>1, <1>2

\* The job runs of a request, and the one the worker is about to write.
JobTypes == {"reminder", "execution"}

DuePcs(type) == IF type = "reminder" THEN {"remindAudit", "remindJob"}
                                     ELSE {"executeAudit", "executeJob"}

Due(w) == \E type \in JobTypes : workers[w].pc \in DuePcs(type)

Owed(w, id, type) ==
  IF workers[w].pc \in DuePcs(type) /\ Pending(w).id = id THEN 1 ELSE 0

RunsOf(id, type) == {j \in jobRuns : j.request = id /\ j.job_type = type}

Tally(r, type) == IF type = "reminder" THEN r.reminder_count ELSE r.execution_attempts

\* An executed row says what the executor says of it.
HasResult(p) ==
  /\ p \in Row /\ p.status \in Reported
  /\ p.status = "executed" <=> ExecutionSucceeds(p)

\* What the worker holds is current.
Current(w) ==
  /\ workers[w].pc \in ExecutionPcs => \A r \in Batch(w) : r = requests[r.id]
  /\ WorkerAt(w, "executeUpdate") =>
        /\ HasResult(Pending(w))
        /\ requests[Pending(w).id].version + 1 = Pending(w).version
  /\ workers[w].pc \in DuePcs("execution") =>
        /\ HasResult(Pending(w))
        /\ Pending(w) = requests[Pending(w).id]
  /\ workers[w].pc \in DuePcs("reminder") =>
        /\ Pending(w) \in Row /\ Exists(Pending(w).id)
        /\ Pending(w).reminder_count = requests[Pending(w).id].reminder_count

\* The worker's steps as far as job runs are concerned: it works, it changes a
\* row that has a job run coming, or it writes the job run.
Works(w) ==
  /\ UNCHANGED <<requests, jobRuns>>
  /\ \A type \in JobTypes :
        \/ workers[w].pc \notin DuePcs(type) /\ workers'[w].pc \notin DuePcs(type)
        \/ /\ workers[w].pc \in DuePcs(type) /\ workers'[w].pc \in DuePcs(type)
           /\ Pending(w)' = Pending(w)

Counts(w, type, p) ==
  /\ ~Due(w) /\ workers'[w].pc \in DuePcs(type) /\ Pending(w)' = p
  /\ requests' = [requests EXCEPT ![p.id] = p] /\ jobRuns' = jobRuns
  /\ p \in Row /\ Exists(p.id)
  /\ \A t \in JobTypes :
        Tally(p, t) = Tally(requests[p.id], t) + (IF t = type THEN 1 ELSE 0)
  /\ requests[p.id].status # "executed"
  /\ p.status = "executed" => type = "execution"

Records(w, type, status) ==
  /\ workers[w].pc \in DuePcs(type) /\ ~Due(w)'
  /\ requests' = requests
  /\ AppendJobRun(Pending(w), type, status, Tally(Pending(w), type), w)
  /\ type = "execution" => status = RunStatus(Pending(w))

JobMove(w) ==
  \/ Works(w)
  \/ \E type \in JobTypes, p \in Row : Counts(w, type, p)
  \/ \E type \in JobTypes, status \in {"succeeded", "failed"} : Records(w, type, status)

LEMMA DueMeans ==
  ASSUME NEW w
  PROVE  /\ Due(w) <=> workers[w].pc \in {"remindAudit", "remindJob", "executeAudit",
                                          "executeJob"}
         /\ Due(w)' <=> workers'[w].pc \in {"remindAudit", "remindJob", "executeAudit",
                                            "executeJob"}
BY DEF Due, DuePcs, JobTypes

LEMMA RestingWorks ==
  ASSUME NEW w, UNCHANGED <<requests, jobRuns>>, ~Due(w), ~Due(w)'
  PROVE  Works(w)
BY DEF Works, Due

\* A reminder is counted.
LEMMA RemindCounts ==
  ASSUME Inv, NEW w \in Workers, WorkerAt(w, "remind"), NEW r \in Batch(w), NEW p,
         p = RemindedRow(r, workers[w].pass), UpdateRequest(p),
         workers'[w].pc = "remindAudit", Pending(w)' = p
  PROVE  Counts(w, "reminder", p)
<1>1. /\ r \in Row /\ IsVersionOf(r, requests) /\ r.status = "pending_review"
      /\ workers[w].pass \in Int
  BY WorkerFacts DEF WorkerIsSafe, Batch, WorkerAt, ReminderPcs, NeedsReminder
<1>2. /\ p \in Row /\ p.id = r.id /\ p.version = r.version + 1
      /\ p.reminder_count = r.reminder_count + 1 /\ p.status = "pending_review"
      /\ p.execution_attempts = r.execution_attempts
  <2>1. p \in Row /\ p.id = r.id /\ p.version = r.version + 1
    BY <1>1, RemindedRowFollows DEF Follows
  <2>2. /\ p.reminder_count = r.reminder_count + 1 /\ p.status = r.status
        /\ p.execution_attempts = r.execution_attempts
    BY <1>1 DEF RemindedRow, Row
  <2> QED BY <1>1, <2>1, <2>2
<1>3. /\ Exists(p.id) /\ requests[p.id].version = p.version - 1
      /\ requests' = [requests EXCEPT ![p.id] = p] /\ jobRuns' = jobRuns
  BY DEF UpdateRequest, UpdateMatches
<1>4. r.version \in Nat
  BY <1>1 DEF Row
<1>5. requests[p.id] = r
  BY <1>1, <1>2, <1>3, <1>4 DEF IsVersionOf
<1>6. ASSUME NEW t \in JobTypes
      PROVE  Tally(p, t) = Tally(r, t) + (IF t = "reminder" THEN 1 ELSE 0)
  <2>1. r.execution_attempts \in Nat
    BY <1>1 DEF Row
  <2> QED BY <1>2, <2>1 DEF Tally
<1> QED
  BY <1>1, <1>2, <1>3, <1>5, <1>6, DueMeans DEF Counts, WorkerAt, DuePcs

\* An execution is counted.
LEMMA ExecutionCounts ==
  ASSUME Inv, NEW w \in Workers, WorkerAt(w, "executeUpdate"), NEW p, p = Pending(w),
         HasResult(p), UpdateRequest(p),
         workers'[w].pc = "executeAudit", Pending(w)' = p
  PROVE  Counts(w, "execution", p)
<1>1. p \in Row /\ p.id \in Ids /\ IsSafeWrite(p, requests, now) /\ p.status \in Reported
  BY ResultRow DEF HasResult
<1>2. /\ Exists(p.id) /\ requests[p.id].version = p.version - 1
      /\ requests' = [requests EXCEPT ![p.id] = p] /\ jobRuns' = jobRuns
  BY DEF UpdateRequest, UpdateMatches
<1>3. IsTransition(requests[p.id], p, now)
  BY <1>1, <1>2 DEF IsSafeWrite
<1>4. requests[p.id] \in Row /\ now \in Nat
  BY <1>1, <1>2, StoredRow DEF Inv, TypeOK
<1>5. /\ AwaitsExecution(requests[p.id])
      /\ p.execution_attempts = requests[p.id].execution_attempts + 1
  BY <1>1, <1>3, <1>4, TransitionCounts
<1>6. p.reminder_count = requests[p.id].reminder_count
  <2>1. \E success \in BOOLEAN, t \in 0..now : p = ExecutionRow(requests[p.id], success, t)
    BY <1>3, <1>5 DEF IsTransition, NeedsReminder, AwaitsExecution
  <2> QED BY <1>4, <2>1 DEF ExecutionRow, Row
<1>7. ASSUME NEW t \in JobTypes
      PROVE  Tally(p, t) = Tally(requests[p.id], t) + (IF t = "execution" THEN 1 ELSE 0)
  <2>1. requests[p.id].reminder_count \in Nat
    BY <1>4 DEF Row
  <2> QED BY <1>5, <1>6, <2>1 DEF Tally, JobTypes
<1>8. requests[p.id].status # "executed"
  BY <1>5 DEF AwaitsExecution
<1> QED BY <1>1, <1>2, <1>7, <1>8, DueMeans DEF Counts, WorkerAt, DuePcs

\* The update of a result at hand is not refused.
LEMMA ResultIsAccepted ==
  ASSUME Inv, NEW w \in Workers, WorkerAt(w, "executeUpdate"), Current(w)
  PROVE  UpdateMatches(Pending(w))
<1>1. PICK p : p = Pending(w)
  OBVIOUS
<1>2. /\ requests[p.id].version + 1 = p.version
      /\ IsSafeWrite(p, requests, now) /\ p.id \in Ids
  BY <1>1, ResultRow DEF Current
<1>3. Exists(p.id) /\ requests[p.id].version \in Nat
  BY <1>2 DEF IsSafeWrite, Exists, Inv, TypeOK, Row
<1>4. UpdateMatches(p)
  BY <1>2, <1>3 DEF UpdateMatches
<1> QED BY <1>1, <1>4

LEMMA JobMoves ==
  ASSUME Inv, NEW w \in Workers, WorkStep(w), Current(w)
  PROVE  JobMove(w)
<1>0. TypeOK
  BY DEF Inv
<1>1. CASE Poll(w) \/ ListReminders(w)
  <2>1. workers'[w].pc \in {"listReminders", "remind", "listReady"}
    BY <1>0, <1>1, NextReminderMeans DEF Poll, ListReminders, BeginPass, TypeOK
  <2>2. workers[w].pc \in {"wait", "listReminders"} /\ UNCHANGED <<requests, jobRuns>>
    BY <1>1 DEF Poll, ListReminders, WorkerAt, storeVars
  <2> QED BY <2>1, <2>2, DueMeans, RestingWorks DEF JobMove
<1>2. CASE ListReady(w)
  <2>1. workers'[w].pc \in {"execute", "wait"}
    BY <1>0, <1>2 DEF ListReady, EndRun, IdleWorker, TypeOK
  <2> QED BY <1>2, <2>1, DueMeans, RestingWorks DEF ListReady, WorkerAt, storeVars, JobMove
<1>3. CASE Execute(w)
  <2>1. workers'[w].pc = "executeUpdate"
    BY <1>0, <1>3, WorkerGotoMeans DEF Execute
  <2> QED BY <1>3, <2>1, DueMeans, RestingWorks DEF Execute, WorkerAt, storeVars, JobMove
<1>4. CASE Remind(w)
  <2>1. PICK r \in Batch(w) :
            \/ /\ UpdateRequest(RemindedRow(r, workers[w].pass))
               /\ WorkerGoto(w, "remindAudit", Batch(w) \ {r},
                             RemindedRow(r, workers[w].pass))
            \/ UNCHANGED storeVars /\ NextReminder(w, Batch(w) \ {r})
    BY <1>4 DEF Remind, NextOf
  <2>2. WorkerAt(w, "remind")
    BY <1>4 DEF Remind
  <2>3. CASE UNCHANGED storeVars /\ NextReminder(w, Batch(w) \ {r})
    <3>1. workers'[w].pc \in {"remind", "listReady"}
      BY <1>0, <2>3, NextReminderMeans
    <3> QED BY <2>2, <2>3, <3>1, DueMeans, RestingWorks DEF WorkerAt, storeVars, JobMove
  <2>4. PICK p : p = RemindedRow(r, workers[w].pass)
    OBVIOUS
  <2>5. CASE UpdateRequest(p) /\ WorkerGoto(w, "remindAudit", Batch(w) \ {r}, p)
    <3>1. workers'[w].pc = "remindAudit" /\ Pending(w)' = p
      BY <1>0, <2>5, WorkerGotoMeans
    <3>2. Counts(w, "reminder", p)
      BY <2>2, <2>4, <2>5, <3>1, RemindCounts
    <3> QED BY <3>2 DEF JobMove, JobTypes, Counts
  <2> QED BY <2>1, <2>3, <2>4, <2>5
<1>5. CASE RemindAudit(w) \/ ExecuteAudit(w)
  <2>1. /\ UNCHANGED <<requests, jobRuns>> /\ Pending(w)' = Pending(w)
        /\ \/ workers[w].pc = "remindAudit" /\ workers'[w].pc = "remindJob"
           \/ workers[w].pc = "executeAudit" /\ workers'[w].pc = "executeJob"
    BY <1>0, <1>5, WorkerGotoMeans DEF RemindAudit, ExecuteAudit, AppendAudit, WorkerAt
  <2> QED BY <2>1 DEF Works, DuePcs, JobTypes, JobMove
<1>6. CASE RemindJob(w)
  <2>1. workers[w].pc = "remindJob" /\ workers'[w].pc \in {"remind", "listReady"}
    BY <1>0, <1>6, NextReminderMeans DEF RemindJob, WorkerAt
  <2>2. Records(w, "reminder", "succeeded")
    BY <1>6, <2>1, DueMeans DEF Records, RemindJob, DuePcs, Tally, AppendJobRun
  <2> QED BY <2>2 DEF JobMove, JobTypes
<1>7. CASE ExecuteUpdate(w)
  <2>1. PICK p : p = Pending(w)
    OBVIOUS
  <2>2. WorkerAt(w, "executeUpdate") /\ HasResult(p)
    BY <1>7, <2>1 DEF ExecuteUpdate, Current
  <2>3. UpdateMatches(p)
    BY <2>1, <2>2, ResultIsAccepted
  <2>4. UpdateRequest(p) /\ WorkerGoto(w, "executeAudit", Batch(w), p)
    BY <1>7, <2>1, <2>3 DEF ExecuteUpdate
  <2>5. workers'[w].pc = "executeAudit" /\ Pending(w)' = p
    BY <1>0, <2>4, WorkerGotoMeans
  <2>6. Counts(w, "execution", p)
    BY <2>1, <2>2, <2>4, <2>5, ExecutionCounts
  <2> QED BY <2>6 DEF JobMove, JobTypes, Counts
<1>8. CASE ExecuteJob(w)
  <2>1. workers[w].pc = "executeJob" /\ workers'[w].pc \in {"execute", "wait"}
    BY <1>0, <1>8, NextExecutionMeans DEF ExecuteJob, WorkerAt
  <2>2. RunStatus(Pending(w)) \in {"succeeded", "failed"}
    BY DEF RunStatus
  <2>3. Records(w, "execution", RunStatus(Pending(w)))
    BY <1>8, <2>1, DueMeans DEF Records, ExecuteJob, DuePcs, Tally, AppendJobRun
  <2> QED BY <2>2, <2>3 DEF JobMove, JobTypes
<1> QED
  BY <1>1, <1>2, <1>3, <1>4, <1>5, <1>6, <1>7, <1>8 DEF WorkStep, WorkerStep

-----------------------------------------------------------------------------
(* What the worker holds stays current. *)

LEMMA CurrentStays ==
  ASSUME Inv, [Next]_vars, NEW w \in Workers, Current(w), workers'[w] = workers[w],
         \A id \in Ids : Exists(id) => Spared(id)
  PROVE  Current(w)'
<1>1. Batch(w)' = Batch(w) /\ Pending(w)' = Pending(w)
  BY DEF Batch, Pending
<1>2. ASSUME workers[w].pc \in ExecutionPcs, NEW r \in Batch(w)
      PROVE  requests'[r.id] = r
  <2>1. r \in Row /\ r.id \in Ids /\ AwaitsExecution(r) /\ r = requests[r.id] /\ Exists(r.id)
    BY <1>2, BatchRow DEF Current, IsVersionOf, Exists
  <2> QED BY <2>1 DEF Spared
<1>3. PICK p : p = Pending(w)
  OBVIOUS
<1>4. ASSUME WorkerAt(w, "executeUpdate")
      PROVE  requests'[p.id] = requests[p.id]
  <2>1. /\ p \in Row /\ p.id \in Ids /\ IsSafeWrite(p, requests, now)
        /\ p.status \in Reported /\ requests[p.id].version + 1 = p.version
        /\ p.version \in Nat
    BY <1>3, <1>4, ResultRow DEF Current, HasResult
  <2>2. Exists(p.id) /\ requests[p.id].version \in Nat
    BY <2>1 DEF IsSafeWrite, Exists, Inv, TypeOK, Row
  <2>3. requests[p.id] \in Row /\ now \in Nat /\ IsTransition(requests[p.id], p, now)
    BY <2>1, <2>2, TableStep DEF IsSafeWrite
  <2>4. AwaitsExecution(requests[p.id])
    BY <2>1, <2>3, TransitionCounts
  <2> QED BY <2>1, <2>2, <2>4 DEF Spared
<1>5. ASSUME workers[w].pc \in DuePcs("execution")
      PROVE  requests'[p.id] = p
  <2>1. p \in Row /\ p.id \in Ids /\ p.status \in Reported /\ p = requests[p.id]
    BY <1>3, <1>5 DEF Current, HasResult, Row
  <2>2. Exists(p.id)
    BY <2>1, NilAssumption DEF Exists
  <2> QED BY <2>1, <2>2 DEF Spared
<1>6. ASSUME workers[w].pc \in DuePcs("reminder")
      PROVE  /\ p \in Row /\ Exists(p.id)'
             /\ p.reminder_count = requests'[p.id].reminder_count
  <2>1. /\ p \in Row /\ p.id \in Ids /\ Exists(p.id)
        /\ p.reminder_count = requests[p.id].reminder_count
    BY <1>3, <1>6 DEF Current, Row
  <2> QED BY <2>1 DEF Spared, SameCounts
<1>7. Pending(w)' = p
  BY <1>1, <1>3
<1>8. workers[w].pc \in ExecutionPcs => \A r \in Batch(w)' : r = requests'[r.id]
  BY <1>1, <1>2
<1>9. WorkerAt(w, "executeUpdate") =>
         HasResult(p) /\ requests'[p.id].version + 1 = p.version
  BY <1>3, <1>4 DEF Current
<1>10. workers[w].pc \in DuePcs("execution") => HasResult(p) /\ p = requests'[p.id]
  BY <1>3, <1>5 DEF Current
<1> QED
  BY <1>6, <1>7, <1>8, <1>9, <1>10 DEF Current, WorkerAt, HasResult, ExecutionSucceeds

LEMMA IdleIsCurrent ==
  ASSUME NEW w, workers'[w].pc \notin ExecutionPcs \cup DuePcs("reminder")
  PROVE  Current(w)'
BY DEF Current, WorkerAt, ExecutionPcs, DuePcs

\* After the worker has changed a row.
LEMMA CurrentWhenCounted ==
  ASSUME Inv, NEW w \in Workers, NEW type \in JobTypes, NEW p \in Row, Counts(w, type, p),
         type = "execution" =>
            /\ workers'[w].pc = "executeAudit" /\ HasResult(p)
            /\ \A r \in Batch(w)' : r = requests[r.id] /\ r.id # p.id /\ r.id \in Ids
  PROVE  Current(w)'
<1>1. /\ workers'[w].pc \in DuePcs(type) /\ Pending(w)' = p
      /\ p.id \in Ids /\ requests' = [requests EXCEPT ![p.id] = p]
      /\ requests \in [Ids -> Row \cup {Nil}]
  BY DEF Counts, Row, Inv, TypeOK
<1>2. requests'[p.id] = p /\ p # Nil
  BY <1>1, NilAssumption
<1>3. CASE type = "reminder"
  <2>1. workers'[w].pc \in DuePcs("reminder")
    BY <1>1, <1>3
  <2>2. workers'[w].pc \notin ExecutionPcs
    BY <2>1 DEF DuePcs, ExecutionPcs
  <2> QED BY <1>1, <1>2, <2>1, <2>2 DEF Current, WorkerAt, ExecutionPcs, DuePcs, Exists
<1>4. CASE type = "execution"
  <2>1. \A r \in Batch(w)' : r = requests'[r.id]
    BY <1>1, <1>4
  <2> QED BY <1>1, <1>2, <1>4, <2>1 DEF Current, WorkerAt, DuePcs, HasResult, ExecutionSucceeds
<1> QED BY <1>3, <1>4 DEF JobTypes

LEMMA CurrentWorks ==
  ASSUME Inv, ScheduleMatchesStatus, NEW w \in Workers, WorkStep(w), Current(w),
         Counting
  PROVE  Current(w)'
<1>0. TypeOK
  BY DEF Inv
<1>1. CASE Poll(w) \/ ListReminders(w)
  <2>1. workers'[w].pc \in {"listReminders", "remind", "listReady"}
    BY <1>0, <1>1, NextReminderMeans DEF Poll, ListReminders, BeginPass, TypeOK
  <2> QED BY <2>1, IdleIsCurrent DEF ExecutionPcs, DuePcs
<1>2. CASE ListReady(w)
  <2>1. PICK batch \in ListRequestsReadyForExecution(workers[w].pass, BatchSize) :
            \/ workers' = [workers EXCEPT ![w] = [pc |-> "execute", batch |-> batch,
                                                  row |-> Nil, pass |-> 0]]
            \/ EndRun(w)
    BY <1>2 DEF ListReady
  <2>2. CASE EndRun(w)
    <3>1. workers'[w].pc = "wait"
      BY <1>0, <2>2 DEF EndRun, IdleWorker, TypeOK
    <3> QED BY <3>1, IdleIsCurrent DEF ExecutionPcs, DuePcs
  <2>3. CASE workers' = [workers EXCEPT ![w] = [pc |-> "execute", batch |-> batch,
                                                row |-> Nil, pass |-> 0]]
    <3>1. workers'[w].pc = "execute" /\ Batch(w)' = batch /\ requests' = requests
      BY <1>0, <1>2, <2>3 DEF ListReady, storeVars, TypeOK, Batch
    <3>2. \A r \in batch : r = requests'[r.id]
      BY <3>1, ListedRow DEF Counting
    <3> QED BY <3>1, <3>2 DEF Current, WorkerAt, DuePcs
  <2> QED BY <2>1, <2>2, <2>3
<1>3. CASE Execute(w)
  <2>1. PICK r \in Batch(w) :
            WorkerGoto(w, "executeUpdate", Batch(w) \ {r},
                       ExecutionRow(r, ExecutionSucceeds(r), now))
    BY <1>3 DEF Execute, NextOf
  <2>2. PICK p : p = ExecutionRow(r, ExecutionSucceeds(r), now)
    OBVIOUS
  <2>3. /\ workers[w].pc \in ExecutionPcs /\ workers'[w].pc = "executeUpdate"
        /\ Batch(w)' = Batch(w) \ {r} /\ Pending(w)' = p /\ requests' = requests
    BY <1>0, <1>3, <2>1, <2>2, WorkerGotoMeans
       DEF Execute, storeVars, WorkerAt, ExecutionPcs
  <2>4. /\ r \in Row /\ now \in Int /\ r.version \in Nat
        /\ \A q \in Batch(w) : q = requests[q.id]
    BY <2>3, BatchRow DEF Current, Inv, TypeOK
  <2>5. /\ p \in Row /\ p.id = r.id /\ p.version = r.version + 1
        /\ p.status \in Reported
    BY <2>2, <2>4, ExecutionRowFollows, ExecutedRow DEF Follows, ExecutionSucceeds
  <2>6. /\ p.target_resource = r.target_resource
        /\ p.status = Outcome(ExecutionSucceeds(r))
    BY <2>2, <2>4 DEF ExecutionRow, Row
  <2>7. HasResult(p)
    BY <2>5, <2>6 DEF HasResult, Outcome, ExecutionSucceeds
  <2>8. requests'[p.id].version + 1 = p.version
    BY <2>3, <2>4, <2>5
  <2> QED BY <2>3, <2>4, <2>7, <2>8 DEF Current, DuePcs, HasResult, ExecutionSucceeds
<1>4. CASE Remind(w)
  <2>1. CASE workers'[w].pc \in {"remind", "listReady"}
    BY <2>1, IdleIsCurrent DEF ExecutionPcs, DuePcs
  <2>2. PICK r \in Batch(w) :
            \/ /\ UpdateRequest(RemindedRow(r, workers[w].pass))
               /\ WorkerGoto(w, "remindAudit", Batch(w) \ {r},
                             RemindedRow(r, workers[w].pass))
            \/ UNCHANGED storeVars /\ NextReminder(w, Batch(w) \ {r})
    BY <1>4 DEF Remind, NextOf
  <2>3. PICK p : p = RemindedRow(r, workers[w].pass)
    OBVIOUS
  <2>4. CASE UpdateRequest(p) /\ WorkerGoto(w, "remindAudit", Batch(w) \ {r}, p)
    <3>1. workers'[w].pc = "remindAudit" /\ Pending(w)' = p /\ WorkerAt(w, "remind")
      BY <1>0, <1>4, <2>4, WorkerGotoMeans DEF Remind
    <3>2. Counts(w, "reminder", p)
      BY <2>3, <2>4, <3>1, RemindCounts
    <3> QED BY <3>2, CurrentWhenCounted DEF JobTypes, Counts
  <2> QED BY <1>0, <2>1, <2>2, <2>3, <2>4, NextReminderMeans
<1>5. CASE RemindAudit(w)
  <2>1. /\ requests' = requests /\ Pending(w)' = Pending(w)
        /\ workers[w].pc = "remindAudit" /\ workers'[w].pc = "remindJob"
    BY <1>0, <1>5, WorkerGotoMeans DEF RemindAudit, AppendAudit, WorkerAt
  <2> QED BY <2>1 DEF Current, WorkerAt, DuePcs, ExecutionPcs, Exists
<1>6. CASE RemindJob(w)
  <2>1. workers'[w].pc \in {"remind", "listReady"}
    BY <1>0, <1>6, NextReminderMeans DEF RemindJob
  <2> QED BY <2>1, IdleIsCurrent DEF ExecutionPcs, DuePcs
<1>7. CASE ExecuteUpdate(w)
  <2>1. PICK p : p = Pending(w)
    OBVIOUS
  <2>2. /\ WorkerAt(w, "executeUpdate") /\ HasResult(p)
        /\ workers[w].pc \in ExecutionPcs
        /\ \A r \in Batch(w) : r = requests[r.id] /\ r.id # p.id
    BY <1>7, <2>1 DEF ExecuteUpdate, Current, Counting, PendingCounted, WorkerAt,
                      ExecutionPcs
  <2>3. \A r \in Batch(w) : r.id \in Ids
    BY <2>2, BatchRow
  <2>4. UpdateRequest(p) /\ WorkerGoto(w, "executeAudit", Batch(w), p)
    BY <1>7, <2>1, <2>2, ResultIsAccepted DEF ExecuteUpdate
  <2>5. Batch(w)' = Batch(w) /\ Pending(w)' = p /\ workers'[w].pc = "executeAudit"
    BY <1>0, <2>4, WorkerGotoMeans
  <2>6. p \in Row /\ Counts(w, "execution", p)
    BY <2>1, <2>2, <2>4, <2>5, ExecutionCounts DEF HasResult
  <2> QED BY <2>2, <2>3, <2>5, <2>6, CurrentWhenCounted DEF JobTypes
<1>8. CASE ExecuteAudit(w)
  <2>1. /\ requests' = requests /\ Pending(w)' = Pending(w) /\ Batch(w)' = Batch(w)
        /\ workers[w].pc = "executeAudit" /\ workers'[w].pc = "executeJob"
    BY <1>0, <1>8, WorkerGotoMeans DEF ExecuteAudit, AppendAudit, WorkerAt
  <2> QED
    BY <2>1 DEF Current, WorkerAt, DuePcs, ExecutionPcs, HasResult, ExecutionSucceeds
<1>9. CASE ExecuteJob(w)
  <2>1. workers[w].pc = "executeJob" /\ requests' = requests
    BY <1>9 DEF ExecuteJob, WorkerAt, AppendJobRun
  <2>2. CASE workers'[w].pc = "execute" /\ Batch(w)' = Batch(w)
    BY <2>1, <2>2 DEF Current, WorkerAt, DuePcs, ExecutionPcs
  <2>3. CASE workers'[w].pc = "wait"
    BY <2>3, IdleIsCurrent DEF ExecutionPcs, DuePcs
  <2> QED BY <1>0, <1>9, <2>2, <2>3, NextExecutionMeans DEF ExecuteJob
<1> QED
  BY <1>1, <1>2, <1>3, <1>4, <1>5, <1>6, <1>7, <1>8, <1>9 DEF WorkStep, WorkerStep

-----------------------------------------------------------------------------
(* Job runs and counts. *)

RunsFit == IsFiniteSet(jobRuns) /\ \A j \in jobRuns : Exists(j.request)

TalliedFor(w, id, type) ==
  /\ Cardinality(RunsOf(id, type)) + Owed(w, id, type) = Tally(requests[id], type)
  /\ \A j \in RunsOf(id, type) :
        j.attempt + Owed(w, id, type) <= Tally(requests[id], type)

Tallied(w) == \A id \in Ids, type \in JobTypes : Exists(id) => TalliedFor(w, id, type)

Outcomes ==
  \A j \in jobRuns : j.job_type = "execution" =>
      (j.status = "succeeded" <=>
          /\ requests[j.request].status = "executed"
          /\ j.attempt = requests[j.request].execution_attempts)

JobsInv(w) ==
  NoneReported /\ Leaving /\ Current(w) /\ RunsFit /\ Tallied(w) /\ Outcomes

LEMMA TallyType ==
  ASSUME Inv, NEW id \in Ids, Exists(id), NEW type \in JobTypes
  PROVE  Tally(requests[id], type) \in Nat
BY DEF Inv, TypeOK, Exists, Tally, Row

LEMMA RunTypes ==
  ASSUME Inv, RunsFit, NEW id, NEW type
  PROVE  /\ IsFiniteSet(RunsOf(id, type)) /\ Cardinality(RunsOf(id, type)) \in Nat
         /\ \A j \in RunsOf(id, type) : j \in jobRuns /\ j.attempt \in Nat
<1>1. RunsOf(id, type) \subseteq jobRuns /\ jobRuns \subseteq JobRuns
  BY DEF RunsOf, Inv, TypeOK
<1>2. IsFiniteSet(RunsOf(id, type))
  BY <1>1, FS_Subset DEF RunsFit
<1>3. \A j \in JobRuns : j.attempt \in Nat
  BY DEF JobRuns
<1> QED BY <1>1, <1>2, <1>3, FS_CardinalityType

LEMMA OwedType ==
  ASSUME NEW w, NEW id, NEW type
  PROVE  Owed(w, id, type) \in Nat /\ Owed(w, id, type)' \in Nat
BY DEF Owed

\* What is due is due for a stored request.
LEMMA NothingOwed ==
  ASSUME Inv, NEW w \in Workers, Current(w), NEW id, ~Exists(id), NEW type \in JobTypes
  PROVE  Owed(w, id, type) = 0
<1>1. ASSUME workers[w].pc \in DuePcs(type) PROVE Exists(Pending(w).id)
  <2>1. CASE type = "reminder"
    BY <1>1, <2>1 DEF Current
  <2>2. CASE type = "execution"
    <3>1. Pending(w) \in Row /\ Pending(w) = requests[Pending(w).id]
      BY <1>1, <2>2 DEF Current, HasResult
    <3> QED BY <3>1, NilAssumption DEF Exists
  <2> QED BY <2>1, <2>2 DEF JobTypes
<1> QED BY <1>1 DEF Owed

\* A request that was not there has no job runs and no counts.
LEMMA NewRowTallied ==
  ASSUME Inv, RunsFit, [Next]_vars, jobRuns' = jobRuns, NEW w,
         NEW id \in Ids, ~Exists(id), Exists(id)', NEW type \in JobTypes,
         Owed(w, id, type)' = 0
  PROVE  TalliedFor(w, id, type)'
<1>1. PICK actor \in Actors, target \in Targets : requests'[id] = DraftRow(id, actor, target)
  BY StepRefines, NewRowsAreDrafts
<1>2. Tally(requests'[id], type) = 0
  BY <1>1 DEF Tally, DraftRow
<1>3. RunsOf(id, type)' = {}
  BY DEF RunsOf, RunsFit
<1>4. Cardinality({}) = 0
  BY FS_EmptySet
<1> QED BY <1>2, <1>3, <1>4 DEF TalliedFor

\* Nothing is counted and no job run written.
LEMMA JobsStay ==
  ASSUME Inv, RunsFit, Outcomes, [Next]_vars, jobRuns' = jobRuns,
         NEW w \in Workers, Tallied(w), Current(w),
         \A id \in Ids, type \in JobTypes : Owed(w, id, type)' = Owed(w, id, type),
         \A id \in Ids : Exists(id) => Spared(id)
  PROVE  RunsFit' /\ Tallied(w)' /\ Outcomes'
<1>0. \A j \in jobRuns : j.request \in Ids /\ Spared(j.request)
  BY DEF RunsFit, Inv, TypeOK, JobRuns
<1>1. RunsFit'
  BY <1>0 DEF RunsFit, Spared
<1>2. ASSUME NEW id \in Ids, NEW type \in JobTypes, Exists(id)'
      PROVE  TalliedFor(w, id, type)'
  <2>1. CASE Exists(id)
    <3>1. Tally(requests'[id], type) = Tally(requests[id], type)
      BY <2>1 DEF Spared, SameCounts, Tally
    <3>2. RunsOf(id, type)' = RunsOf(id, type) /\ TalliedFor(w, id, type)
      BY <2>1 DEF RunsOf, Tallied
    <3>3. Owed(w, id, type)' = Owed(w, id, type)
      OBVIOUS
    <3> QED BY <3>1, <3>2, <3>3 DEF TalliedFor
  <2>2. CASE ~Exists(id)
    BY <1>2, <2>2, NothingOwed, NewRowTallied
  <2> QED BY <2>1, <2>2
<1>3. Outcomes'
  BY <1>0 DEF Outcomes, Spared, SameCounts
<1> QED BY <1>1, <1>2, <1>3 DEF Tallied

\* A row counts one more, and its job run is due.
LEMMA JobsWhenCounted ==
  ASSUME Inv, RunsFit, Outcomes, NEW w \in Workers, Tallied(w),
         NEW type \in JobTypes, NEW p \in Row, Counts(w, type, p)
  PROVE  RunsFit' /\ Tallied(w)' /\ Outcomes'
<1>1. /\ p.id \in Ids /\ Exists(p.id) /\ jobRuns' = jobRuns
      /\ requests' = [requests EXCEPT ![p.id] = p]
      /\ requests \in [Ids -> Row \cup {Nil}]
      /\ ~Due(w) /\ workers'[w].pc \in DuePcs(type) /\ Pending(w)' = p
  BY DEF Counts, Row, Inv, TypeOK
<1>2. requests'[p.id] = p /\ p # Nil
  BY <1>1, NilAssumption
<1>3. \A id \in Ids : id # p.id => requests'[id] = requests[id]
  BY <1>1
<1>4. ASSUME NEW id, NEW t \in JobTypes
      PROVE  /\ Owed(w, id, t) = 0
             /\ Owed(w, id, t)' = IF id = p.id /\ t = type THEN 1 ELSE 0
  BY <1>1 DEF Owed, Due, DuePcs, JobTypes
<1>5. RunsFit'
  <2>1. \A j \in jobRuns : j.request \in Ids
    BY DEF Inv, TypeOK, JobRuns
  <2> QED BY <1>1, <1>2, <1>3, <2>1 DEF RunsFit, Exists
<1>6. ASSUME NEW id \in Ids, NEW t \in JobTypes, Exists(id)'
      PROVE  TalliedFor(w, id, t)'
  <2>1. Exists(id) /\ TalliedFor(w, id, t)
    BY <1>1, <1>3, <1>6 DEF Exists, Tallied
  <2>2. PICK n \in Nat : n = Tally(requests[id], t)
    BY <2>1, TallyType
  <2>3. PICK runs : runs = RunsOf(id, t)
    OBVIOUS
  <2>4. /\ Cardinality(runs) \in Nat /\ Cardinality(runs) = n
        /\ \A j \in runs : j.attempt \in Nat /\ j.attempt <= n
    BY <1>4, <2>1, <2>2, <2>3, RunTypes DEF TalliedFor
  <2>5. Tally(requests'[id], t) = n + (IF id = p.id /\ t = type THEN 1 ELSE 0)
    <3>1. CASE id = p.id
      BY <1>2, <2>2, <3>1 DEF Counts
    <3>2. CASE id # p.id
      BY <1>3, <2>2, <3>2
    <3> QED BY <3>1, <3>2
  <2>6. RunsOf(id, t)' = runs
    BY <1>1, <2>3 DEF RunsOf
  <2>7. Owed(w, id, t)' = IF id = p.id /\ t = type THEN 1 ELSE 0
    BY <1>4
  <2> QED BY <2>4, <2>5, <2>6, <2>7 DEF TalliedFor
<1>7. ASSUME NEW j \in jobRuns, j.job_type = "execution"
      PROVE  j.status = "succeeded" <=>
                /\ requests'[j.request].status = "executed"
                /\ j.attempt = requests'[j.request].execution_attempts
  <2>1. /\ j.request \in Ids
        /\ j.status = "succeeded" <=>
              /\ requests[j.request].status = "executed"
              /\ j.attempt = requests[j.request].execution_attempts
    BY <1>7 DEF Outcomes, Inv, TypeOK, JobRuns
  <2>2. CASE j.request # p.id
    BY <1>3, <2>1, <2>2
  <2>3. CASE j.request = p.id
    <3>1. j.status # "succeeded"
      BY <2>1, <2>3 DEF Counts
    <3>2. ASSUME p.status = "executed" PROVE j.attempt # p.execution_attempts
      <4>1. type = "execution" /\ "execution" \in JobTypes
        BY <3>2 DEF Counts, JobTypes
      <4>2. p.execution_attempts = requests[p.id].execution_attempts + 1
        BY <4>1 DEF Counts, Tally
      <4>3. PICK n \in Nat : n = requests[p.id].execution_attempts
        BY <1>1, <4>1, TallyType DEF Tally
      <4>4. j \in RunsOf(p.id, "execution") /\ j.attempt \in Nat
        BY <1>7, <2>3, RunTypes DEF RunsOf
      <4>5. j.attempt <= n
        BY <1>1, <1>4, <4>1, <4>3, <4>4 DEF Tallied, TalliedFor, Tally
      <4> QED BY <4>2, <4>3, <4>4, <4>5
    <3> QED BY <1>2, <2>3, <3>1, <3>2
  <2> QED BY <2>2, <2>3
<1>8. Outcomes'
  BY <1>1, <1>7 DEF Outcomes
<1> QED BY <1>5, <1>6, <1>8 DEF Tallied

\* The job run is written.
LEMMA JobsWhenRecorded ==
  ASSUME Inv, RunsFit, Outcomes, NEW w \in Workers, Current(w), Tallied(w),
         NEW type \in JobTypes, NEW status, Records(w, type, status)
  PROVE  RunsFit' /\ Tallied(w)' /\ Outcomes'
<1>1. PICK p : p = Pending(w)
  OBVIOUS
<1>2. /\ p \in Row /\ p.id \in Ids /\ Exists(p.id) /\ requests' = requests
      /\ Tally(p, type) = Tally(requests[p.id], type)
      /\ type = "execution" => p = requests[p.id] /\ HasResult(p)
  <2>1. workers[w].pc \in DuePcs(type) /\ requests' = requests
    BY DEF Records
  <2>2. CASE type = "reminder"
    BY <1>1, <2>1, <2>2 DEF Current, Tally, Row
  <2>3. CASE type = "execution"
    <3>1. HasResult(p) /\ p = requests[p.id]
      BY <1>1, <2>1, <2>3 DEF Current
    <3> QED BY <2>1, <3>1, NilAssumption DEF HasResult, Row, Exists
  <2> QED BY <2>2, <2>3 DEF JobTypes
<1>3. PICK run : run = [request |-> p.id, version |-> p.version, job_type |-> type,
                        status |-> status, attempt |-> Tally(p, type), writer |-> w]
  OBVIOUS
<1>4. jobRuns' = jobRuns \cup {run}
  BY <1>1, <1>3 DEF Records, AppendJobRun
<1>5. /\ run.request = p.id /\ run.job_type = type /\ run.status = status
      /\ run.attempt = Tally(p, type)
  BY <1>3
<1>6. ASSUME NEW id, NEW t \in JobTypes
      PROVE  /\ Owed(w, id, t) = IF id = p.id /\ t = type THEN 1 ELSE 0
             /\ Owed(w, id, t)' = 0
  BY <1>1 DEF Records, Owed, Due, DuePcs, JobTypes
<1>7. RunsFit'
  <2>1. IsFiniteSet(jobRuns \cup {run})
    BY FS_AddElement DEF RunsFit
  <2> QED BY <1>2, <1>4, <1>5, <2>1 DEF RunsFit, Exists
<1>8. ASSUME NEW id \in Ids, NEW t \in JobTypes, Exists(id)'
      PROVE  TalliedFor(w, id, t)'
  <2>1. Exists(id) /\ TalliedFor(w, id, t)
    BY <1>2, <1>8 DEF Exists, Tallied
  <2>2. PICK n \in Nat : n = Tally(requests[id], t) /\ n = Tally(requests'[id], t)
    BY <1>2, <2>1, TallyType
  <2>3. PICK runs : runs = RunsOf(id, t)
    OBVIOUS
  <2>4. /\ IsFiniteSet(runs) /\ Cardinality(runs) \in Nat
        /\ \A j \in runs : j.attempt \in Nat
    BY <2>3, RunTypes
  <2>5. CASE id = p.id /\ t = type
    <3>1. /\ Cardinality(runs) + 1 = n
          /\ \A j \in runs : j.attempt + 1 <= n
      BY <1>6, <2>1, <2>2, <2>3, <2>5 DEF TalliedFor
    <3>2. run.attempt = n
      BY <1>2, <1>5, <2>2, <2>5
    <3>3. run \notin runs
      BY <2>4, <3>1, <3>2
    <3>4. RunsOf(id, t)' = runs \cup {run}
      BY <1>4, <1>5, <2>3, <2>5 DEF RunsOf
    <3>5. Cardinality(runs \cup {run}) = Cardinality(runs) + 1
      BY <2>4, <3>3, FS_AddElement
    <3>6. Owed(w, id, t)' = 0
      BY <1>6
    <3>7. \A j \in runs \cup {run} : j.attempt <= n /\ j.attempt \in Nat
      BY <2>4, <3>1, <3>2
    <3> QED BY <2>2, <2>4, <3>1, <3>4, <3>5, <3>6, <3>7 DEF TalliedFor
  <2>6. CASE ~(id = p.id /\ t = type)
    <3>1. Owed(w, id, t) = 0 /\ Owed(w, id, t)' = 0
      BY <1>6, <2>6
    <3>2. RunsOf(id, t)' = runs
      BY <1>4, <1>5, <2>3, <2>6 DEF RunsOf
    <3> QED BY <2>1, <2>2, <2>3, <3>1, <3>2 DEF TalliedFor
  <2> QED BY <2>5, <2>6
<1>9. Outcomes'
  <2>1. ASSUME type = "execution"
        PROVE  /\ run.status = "succeeded" <=> p.status = "executed"
               /\ run.attempt = requests'[p.id].execution_attempts
               /\ requests'[p.id] = p
    BY <1>1, <1>2, <1>5, <2>1 DEF Records, RunStatus, HasResult, Tally
  <2> QED BY <1>2, <1>4, <1>5, <2>1 DEF Outcomes
<1> QED BY <1>7, <1>8, <1>9 DEF Tallied

-----------------------------------------------------------------------------

LEMMA NoFaults ==
  ASSUME Inv, MaxFaults = 0, [Next]_vars, NEW solo, Workers = {solo}
  PROVE  \/ WorkStep(solo)
         \/ /\ workers' = workers /\ jobRuns' = jobRuns
            /\ (\E c \in Calls : CallMove(c)) \/ requests' = requests
<1>1. faults \in Nat /\ TypeOK
  BY DEF Inv, TypeOK
<1>2. ~Fault
  BY <1>1 DEF Fault
<1>3. ASSUME NEW c \in Calls, CallStep(c)
      PROVE  workers' = workers /\ jobRuns' = jobRuns /\ CallMove(c)
  <2>1. CallMove(c) /\ CallAlone(c)
    BY <1>1, <1>3, CallStepMoves
  <2>2. jobRuns' = jobRuns
    BY <2>1 DEF CallMove, Begins, Reads, Claims, Creates, Updates, Reviews, Audits,
                CreateIdempotency, CreateRequest, UpdateRequest, CreateReview,
                AppendAudit, storeVars
  <2> QED BY <2>1, <2>2 DEF CallAlone
<1>4. CASE Tick \/ UNCHANGED vars
  BY <1>4 DEF Tick, vars, storeVars
<1> QED BY <1>2, <1>3, <1>4 DEF Next, CallFault, WorkFault, Restart

LEMMA JobsKeep ==
  ASSUME Inv, Inv', ScheduleMatchesStatus, [Next]_vars, MaxFaults = 0, NobodyReports,
         NEW solo, Workers = {solo}, Counting, JobsInv(solo)
  PROVE  JobsInv(solo)'
<1>1. NoneReported' /\ Leaving'
  BY NoneReportedKeeps, LeavingKeeps DEF JobsInv
<1>2. CASE WorkStep(solo)
  <2>1. Current(solo)'
    BY <1>2, CurrentWorks DEF JobsInv
  <2>2. CASE Works(solo)
    <3>1. \A id \in Ids, type \in JobTypes : Owed(solo, id, type)' = Owed(solo, id, type)
      BY <2>2 DEF Works, Owed
    <3>2. \A id \in Ids : Exists(id) => Spared(id)
      BY <2>2, SameRowIsSpared DEF Works
    <3>3. jobRuns' = jobRuns
      BY <2>2 DEF Works
    <3> QED BY <1>1, <2>1, <3>1, <3>2, <3>3, JobsStay DEF JobsInv
  <2>3. CASE \E type \in JobTypes, p \in Row : Counts(solo, type, p)
    BY <1>1, <2>1, <2>3, JobsWhenCounted DEF JobsInv
  <2>4. CASE \E type \in JobTypes, status \in {"succeeded", "failed"} :
                 Records(solo, type, status)
    BY <1>1, <2>1, <2>4, JobsWhenRecorded DEF JobsInv
  <2> QED BY <1>2, <2>2, <2>3, <2>4, JobMoves DEF JobMove, JobsInv
<1>3. CASE /\ workers' = workers /\ jobRuns' = jobRuns
           /\ (\E c \in Calls : CallMove(c)) \/ requests' = requests
  <2>1. \A id \in Ids : Exists(id) => Spared(id)
    BY <1>3, CallsSpare, SameRowIsSpared DEF JobsInv
  <2>2. \A id \in Ids, type \in JobTypes : Owed(solo, id, type)' = Owed(solo, id, type)
    BY <1>3 DEF Owed, Pending
  <2>3. Current(solo)'
    BY <1>3, <2>1, CurrentStays DEF JobsInv
  <2> QED BY <1>1, <1>3, <2>1, <2>2, <2>3, JobsStay DEF JobsInv
<1> QED BY <1>2, <1>3, NoFaults

LEMMA JobsStart ==
  ASSUME Init, NEW solo, Workers = {solo}
  PROVE  JobsInv(solo)
<1>1. /\ workers[solo].pc = "wait" /\ jobRuns = {}
      /\ \A c \in Calls : calls[c].pc = "idle"
      /\ \A id \in Ids : ~Exists(id)
  BY DEF Init, StoreInit, WorkerInit, HandlersInit, IdleCall, IdleWorker, Exists
<1>2. IsFiniteSet({})
  BY FS_EmptySet
<1>3. NoneReported /\ Leaving
  BY <1>1 DEF NoneReported, Leaving, InFlight, StorePcs, At
<1>4. Current(solo)
  BY <1>1 DEF Current, WorkerAt, ExecutionPcs, DuePcs
<1> QED BY <1>1, <1>2, <1>3, <1>4 DEF JobsInv, RunsFit, Tallied, Outcomes

LEMMA OwedIs ==
  ASSUME NEW solo, Workers = {solo}, NEW id, NEW pcs
  PROVE  Cardinality({w \in Workers : workers[w].pc \in pcs /\ Pending(w).id = id}) =
            IF workers[solo].pc \in pcs /\ Pending(solo).id = id THEN 1 ELSE 0
<1> DEFINE S == {w \in Workers : workers[w].pc \in pcs /\ Pending(w).id = id}
<1>1. S = IF workers[solo].pc \in pcs /\ Pending(solo).id = id THEN {solo} ELSE {}
  OBVIOUS
<1>2. Cardinality({solo}) = 1 /\ Cardinality({}) = 0
  BY FS_Singleton, FS_EmptySet
<1> HIDE DEF S
<1>3. Cardinality(S) = IF workers[solo].pc \in pcs /\ Pending(solo).id = id THEN 1 ELSE 0
  BY <1>1, <1>2
<1> QED BY <1>3 DEF S

LEMMA JobsAgree ==
  ASSUME NEW solo, Workers = {solo}, JobsInv(solo)
  PROVE  JobRunsAgree
<1> SUFFICES ASSUME NEW id \in Ids, Exists(id)
             PROVE  LET runs(type) == {j \in jobRuns : j.request = id /\ j.job_type = type}
                        owed(pcs) == {w \in Workers : workers[w].pc \in pcs
                                                      /\ Pending(w).id = id}
                        r == requests[id]
                    IN  /\ Cardinality(runs("reminder"))
                             + Cardinality(owed({"remindAudit", "remindJob"})) = r.reminder_count
                        /\ Cardinality(runs("execution"))
                             + Cardinality(owed({"executeAudit", "executeJob"})) = r.execution_attempts
                        /\ \A j \in runs("execution") :
                              (j.status = "succeeded") <=>
                                  r.status = "executed" /\ j.attempt = r.execution_attempts
  BY DEF JobRunsAgree
<1> DEFINE owed(pcs) == {w \in Workers : workers[w].pc \in pcs /\ Pending(w).id = id}
<1>1. ASSUME NEW type \in JobTypes
      PROVE  /\ Cardinality(owed(DuePcs(type))) = Owed(solo, id, type)
             /\ Cardinality(RunsOf(id, type)) + Owed(solo, id, type)
                   = Tally(requests[id], type)
  <2>1. Cardinality(owed(DuePcs(type))) = Owed(solo, id, type)
    BY OwedIs DEF Owed
  <2>2. TalliedFor(solo, id, type)
    BY DEF JobsInv, Tallied
  <2> QED BY <2>1, <2>2 DEF TalliedFor
<1> HIDE DEF owed
<1>2. Cardinality(RunsOf(id, "reminder")) + Cardinality(owed({"remindAudit", "remindJob"}))
         = requests[id].reminder_count
  BY <1>1 DEF JobTypes, DuePcs, Tally
<1>3. Cardinality(RunsOf(id, "execution"))
         + Cardinality(owed({"executeAudit", "executeJob"})) = requests[id].execution_attempts
  BY <1>1 DEF JobTypes, DuePcs, Tally
<1>4. \A j \in RunsOf(id, "execution") :
         (j.status = "succeeded") <=>
            requests[id].status = "executed" /\ j.attempt = requests[id].execution_attempts
  BY DEF RunsOf, JobsInv, Outcomes
<1> QED BY <1>2, <1>3, <1>4 DEF RunsOf, owed

\* With one worker, no failures and nobody reporting results by hand, whatever a
\* row counts as an attempt or a reminder has its job run, written or on the way,
\* and the one run that tells of success is the last (ProcessDueReminders,
\* ProcessDueExecutions): no approval, submission or repeated call that comes
\* between the worker's statements makes one of its updates fail.
THEOREM JobRunsAgreeHolds ==
  ASSUME NEW CONSTANT solo, Workers = {solo}, MaxFaults = 0, NobodyReports
  PROVE  Spec => []JobRunsAgree
<1>1. Init => Counting /\ JobsInv(solo)
  BY CountingStarts, JobsStart
<1>2. /\ Inv /\ Inv' /\ ScheduleMatchesStatus
      /\ Counting /\ JobsInv(solo) /\ [Next]_vars
      => Counting' /\ JobsInv(solo)'
  BY CountingKeeps, JobsKeep
<1>3. JobsInv(solo) => JobRunsAgree
  BY JobsAgree
<1> QED BY <1>1, <1>2, <1>3, InvHolds, ScheduleMatchesStatusHolds, PTL DEF Spec

=============================================================================
