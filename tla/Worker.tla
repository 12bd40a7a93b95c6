------------------------------- MODULE Worker -------------------------------
(***************************************************************************)
(* The background worker (internal/jobs/worker.go) and the two passes it   *)
(* runs on every poll: ProcessDueReminders and ProcessDueExecutions of     *)
(* internal/application/service.go.  A pass reads the clock, lists a batch *)
(* of due requests and works the batch off from those listed rows.  "pc"   *)
(* names the store call that comes next, or "wait" between two polls.  The *)
(* poll interval is not modelled: the worker may run whenever it has come  *)
(* to the end of the last run.  Each server process has one worker; two    *)
(* processes on one database, as during a rolling restart, have two.       *)
(***************************************************************************)
EXTENDS Store

CONSTANTS
    Workers,
    BatchSize         \* config.WorkerBatchSize

ASSUME BatchAssumption == BatchSize \in Nat \ {0}

VARIABLES
    workers,          \* the state of every worker
    executions        \* how often each worker called Execute for a request:
                      \* the provisioning the outside world has seen

WorkerPcs == {"wait", "listReminders", "remind", "remindAudit", "remindJob",
              "listReady", "execute", "executeUpdate", "executeAudit",
              "executeJob"}

WorkerState == [pc    : WorkerPcs,
                batch : SUBSET Row,       \* listed rows not yet handled
                row   : Row \cup {Nil},   \* the row to write, or written
                pass  : Nat]              \* "now" of the pass, until it has listed
                                          \* the executions

IdleWorker == [pc |-> "wait", batch |-> {}, row |-> Nil, pass |-> 0]

WorkerInit ==
    /\ workers = [w \in Workers |-> IdleWorker]
    /\ executions = [w \in Workers |-> [id \in Ids |-> 0]]

WorkerAt(w, pc) == workers[w].pc = pc
Batch(w) == workers[w].batch
Pending(w) == workers[w].row

WorkerGoto(w, pc, batch, row) ==
    workers' = [workers EXCEPT ![w] = [pc |-> pc, batch |-> batch, row |-> row,
                                       pass |-> workers[w].pass]]

BeginPass(w, pc) ==
    workers' = [workers EXCEPT ![w] = [pc |-> pc, batch |-> {}, row |-> Nil, pass |-> now]]

EndRun(w) == workers' = [workers EXCEPT ![w] = IdleWorker]

\* The head of the for loop over the listed rows.  ProcessDueExecutions reads
\* the clock right after the last reminder.
NextReminder(w, batch) ==
    \/ batch # {} /\ WorkerGoto(w, "remind", batch, Nil)
    \/ batch = {} /\ BeginPass(w, "listReady")

NextExecution(w) ==
    \/ Batch(w) # {} /\ WorkerGoto(w, "execute", Batch(w), Nil)
    \/ Batch(w) = {} /\ EndRun(w)

-----------------------------------------------------------------------------
(* ProcessDueReminders *)

\* Worker.run, at its start or at a tick of the ticker
Poll(w) ==
    /\ WorkerAt(w, "wait")
    /\ UNCHANGED <<storeVars, executions>>
    /\ BeginPass(w, "listReminders")

ListReminders(w) ==
    /\ WorkerAt(w, "listReminders")
    /\ UNCHANGED <<storeVars, executions>>
    /\ \E batch \in ListRequestsNeedingReminder(workers[w].pass, BatchSize) :
           NextReminder(w, batch)

FaultyRemind(w) ==      \* no audit entry
    /\ WorkerAt(w, "remind")
    /\ UNCHANGED executions
    /\ \E r \in NextOf(Batch(w), "submitted_at") :
           LET row == RemindedRow(r, workers[w].pass)
           IN  \/ /\ UpdateRequest(row)
                  /\ WorkerGoto(w, "remindJob", Batch(w) \ {r}, row)
               \/ /\ ~UpdateMatches(row)
                  /\ UNCHANGED storeVars
                  /\ NextReminder(w, Batch(w) \ {r})

\* A failed update, a lost race included, skips the request.
Remind(w) ==
    /\ WorkerAt(w, "remind")
    /\ UNCHANGED executions
    /\ \E r \in NextOf(Batch(w), "submitted_at") :
           LET row == RemindedRow(r, workers[w].pass)
           IN  \/ /\ UpdateRequest(row)
                  /\ WorkerGoto(w, "remindAudit", Batch(w) \ {r}, row)
               \/ /\ ~UpdateMatches(row)
                  /\ UNCHANGED storeVars
                  /\ NextReminder(w, Batch(w) \ {r})

RemindAudit(w) ==
    /\ WorkerAt(w, "remindAudit")
    /\ UNCHANGED executions
    /\ AppendAudit(Pending(w), SystemActor, "reminder_sent", w)
    /\ WorkerGoto(w, "remindJob", Batch(w), Pending(w))

RemindJob(w) ==
    /\ WorkerAt(w, "remindJob")
    /\ UNCHANGED executions
    /\ AppendJobRun(Pending(w), "reminder", "succeeded", Pending(w).reminder_count, w)
    /\ NextReminder(w, Batch(w))

-----------------------------------------------------------------------------
(* ProcessDueExecutions *)

ListReady(w) ==
    /\ WorkerAt(w, "listReady")
    /\ UNCHANGED <<storeVars, executions>>
    /\ \E batch \in ListRequestsReadyForExecution(workers[w].pass, BatchSize) :
           \/ /\ batch # {}
              /\ workers' = [workers EXCEPT ![w] = [pc |-> "execute", batch |-> batch,
                                                    row |-> Nil, pass |-> 0]]
           \/ batch = {} /\ EndRun(w)

\* Execute, then applyExecutionResult up to its update, both on the listed
\* row; its status check holds of every listed row.
Execute(w) ==
    /\ WorkerAt(w, "execute")
    /\ UNCHANGED storeVars
    /\ \E r \in NextOf(Batch(w), "next_execution_at") :
           /\ executions' = [executions EXCEPT ![w][r.id] = @ + 1]
           /\ WorkerGoto(w, "executeUpdate", Batch(w) \ {r},
                         ExecutionRow(r, ExecutionSucceeds(r), now))

FaultyExecuteUpdate(w) ==      \* the conflict is not looked at
    /\ WorkerAt(w, "executeUpdate")
    /\ UNCHANGED executions
    /\ \/ UpdateRequest(Pending(w))
       \/ ~UpdateMatches(Pending(w)) /\ UNCHANGED storeVars
    /\ WorkerGoto(w, "executeAudit", Batch(w), Pending(w))

\* An error of applyExecutionResult is dropped; the job run is written anyway.
ExecuteUpdate(w) ==
    /\ WorkerAt(w, "executeUpdate")
    /\ UNCHANGED executions
    /\ \/ /\ UpdateRequest(Pending(w))
          /\ WorkerGoto(w, "executeAudit", Batch(w), Pending(w))
       \/ /\ ~UpdateMatches(Pending(w))
          /\ UNCHANGED storeVars
          /\ WorkerGoto(w, "executeJob", Batch(w), Pending(w))

ExecuteAudit(w) ==
    /\ WorkerAt(w, "executeAudit")
    /\ UNCHANGED executions
    /\ AppendAudit(Pending(w), SystemActor,
                   IF ExecutionSucceeds(Pending(w)) THEN "execution_succeeded"
                                                    ELSE "execution_failed", w)
    /\ WorkerGoto(w, "executeJob", Batch(w), Pending(w))

FaultyRunStatus(row) == "succeeded"      \* the initial value is kept

RunStatus(row) == IF ExecutionSucceeds(row) THEN "succeeded" ELSE "failed"

ExecuteJob(w) ==
    /\ WorkerAt(w, "executeJob")
    /\ UNCHANGED executions
    /\ AppendJobRun(Pending(w), "execution", RunStatus(Pending(w)),
                    Pending(w).execution_attempts, w)
    /\ NextExecution(w)

-----------------------------------------------------------------------------
(* Failures: every store error is logged or dropped and the worker goes on *)
(* with what comes next; an update may have taken effect all the same.     *)

WorkerStoreError(w) ==
    /\ UNCHANGED <<storeVars, executions>>
    /\ \/ WorkerAt(w, "listReminders") /\ BeginPass(w, "listReady")
       \/ /\ WorkerAt(w, "remind")
          /\ \E r \in NextOf(Batch(w), "submitted_at") : NextReminder(w, Batch(w) \ {r})
       \/ WorkerAt(w, "remindAudit") /\ WorkerGoto(w, "remindJob", Batch(w), Pending(w))
       \/ WorkerAt(w, "remindJob") /\ NextReminder(w, Batch(w))
       \/ WorkerAt(w, "listReady") /\ EndRun(w)
       \/ /\ WorkerAt(w, "executeUpdate") \/ WorkerAt(w, "executeAudit")
          /\ WorkerGoto(w, "executeJob", Batch(w), Pending(w))
       \/ WorkerAt(w, "executeJob") /\ NextExecution(w)

WorkerReplyLost(w) ==
    /\ UNCHANGED executions
    /\ \/ /\ WorkerAt(w, "remind")
          /\ \E r \in NextOf(Batch(w), "submitted_at") :
                 /\ UpdateRequest(RemindedRow(r, workers[w].pass))
                 /\ NextReminder(w, Batch(w) \ {r})
       \/ /\ WorkerAt(w, "executeUpdate")
          /\ UpdateRequest(Pending(w))
          /\ WorkerGoto(w, "executeJob", Batch(w), Pending(w))

WorkerStep(w) ==
    \/ Poll(w)
    \/ ListReminders(w)
    \/ Remind(w)
    \/ RemindAudit(w)
    \/ RemindJob(w)
    \/ ListReady(w)
    \/ Execute(w)
    \/ ExecuteUpdate(w)
    \/ ExecuteAudit(w)
    \/ ExecuteJob(w)

=============================================================================
