-------------------------- MODULE RefinementProofs --------------------------
(***************************************************************************)
(* The service implements the atomic lifecycle of a request, for every set *)
(* of requests, users, calls and workers and any number of failures: each  *)
(* step of module System changes nothing the lifecycle knows of, or is one *)
(* of its steps on one request.  What holds of every lifecycle step is     *)
(* then proved once and holds of the system.  The second part shows that   *)
(* the calls it makes of its store are those of module StoreContract.      *)
(***************************************************************************)
EXTENDS SystemProofs, StoreCalls

-----------------------------------------------------------------------------
(* Steps of the system as steps of the lifecycle. *)

\* Both modules take the workflow rules from module Transitions.
LEMMA SameRules ==
  /\ \A r, t : L!SubmittedRow(r, t) = SubmittedRow(r, t)
  /\ \A r, d, t : L!ReviewedRow(r, d, t) = ReviewedRow(r, d, t)
  /\ \A r, t : L!RemindedRow(r, t) = RemindedRow(r, t)
  /\ \A r, s, t : L!ExecutionRow(r, s, t) = ExecutionRow(r, s, t)
  /\ \A id, a, t : L!DraftRow(id, a, t) = DraftRow(id, a, t)
  /\ \A r, t : L!NeedsReminder(r, t) <=> NeedsReminder(r, t)
  /\ \A r : L!AwaitsExecution(r) <=> AwaitsExecution(r)
  /\ L!Actors = Actors
BY DEF L!SubmittedRow, SubmittedRow, L!ReviewedRow, ReviewedRow, L!RemindedRow,
       RemindedRow, L!ExecutionRow, ExecutionRow, L!DraftRow, DraftRow,
       L!NeedsReminder, NeedsReminder, L!AwaitsExecution, AwaitsExecution,
       L!Actors, Actors, L!Roles, Roles, L!AttemptsAfter, AttemptsAfter,
       L!Schedule, Schedule, L!Outcome, Outcome, L!NoReviewer, NoReviewer

\* A safe row that the version check lets through is a lifecycle step.
LEMMA WriteIsAStep ==
  ASSUME Inv, NEW row \in Row, IsSafeWrite(row, requests, now), UpdateRequest(row),
         now' = now
  PROVE  L!Next
<1> DEFINE id == row.id
           old == requests[id]
<1>1. id \in Ids
  BY DEF Row
<1>2. /\ old # Nil /\ old.version = row.version - 1
      /\ requests' = [requests EXCEPT ![id] = row]
  BY DEF UpdateRequest, UpdateMatches, Exists
<1>3. IsTransition(old, row, now)
  BY <1>2 DEF IsSafeWrite
<1>4. requests' = [requests EXCEPT ![id] = row] /\ now' = now
  BY <1>2
<1> HIDE DEF id
<1>5. CASE old.status = "draft" /\ \E t \in 0..now : row = SubmittedRow(old, t)
  <2>1. L!Submit(id)
    BY <1>2, <1>4, <1>5, SameRules DEF L!Submit, L!Change
  <2> QED BY <1>1, <2>1 DEF L!Next
<1>6. CASE /\ old.status = "pending_review"
           /\ \E t \in 0..now, decision \in Decisions : row = ReviewedRow(old, decision, t)
  <2>1. L!Review(id)
    BY <1>2, <1>4, <1>6, SameRules DEF L!Review, L!Change, Decisions
  <2> QED BY <1>1, <2>1 DEF L!Next
<1>7. CASE \E t \in 0..now : NeedsReminder(old, t) /\ row = RemindedRow(old, t)
  <2>1. L!Remind(id)
    BY <1>2, <1>4, <1>7, SameRules DEF L!Remind, L!Change
  <2> QED BY <1>1, <2>1 DEF L!Next
<1>8. CASE /\ AwaitsExecution(old)
           /\ \E t \in 0..now, success \in BOOLEAN : row = ExecutionRow(old, success, t)
  <2>1. L!RecordExecution(id)
    BY <1>2, <1>4, <1>8, SameRules DEF L!RecordExecution, L!Change
  <2> QED BY <1>1, <2>1 DEF L!Next
<1> QED BY <1>3, <1>5, <1>6, <1>7, <1>8 DEF IsTransition

\* A draft that has its identifier to itself is created there.
LEMMA CreateIsAStep ==
  ASSUME Inv, NEW c \in Calls, At(c, "create"), CreateRequest(RowOf(c)), now' = now
  PROVE  L!Next
<1> DEFINE id == calls[c].id
<1>1. At(c, "create") /\ IsNewDraft(c) /\ id \in Ids
  <2>1. InFlight(c) /\ At(c, "create")
    BY DEF At, InFlight, StorePcs
  <2> QED BY <2>1, CallFacts DEF Inv, NoLostUpdate
<1>2. PICK actor \in Actors, target \in Targets : RowOf(c) = DraftRow(id, actor, target)
  BY <1>1 DEF IsNewDraft
<1>3. RowOf(c).id = id
  BY <1>1, <1>2, DraftRowType
<1>4. requests[id] = Nil /\ requests' = [requests EXCEPT ![id] = RowOf(c)]
  BY <1>1, <1>3 DEF IsNewDraft, Exists, CreateRequest
<1>5. L!Create(id)
  BY <1>2, <1>4, SameRules DEF L!Create, L!Change
<1> QED BY <1>1, <1>5 DEF L!Next

\* The update of a call.
LEMMA CallWrites ==
  ASSUME Inv, NEW c \in Calls, At(c, "update"), UpdateRequest(RowOf(c)), now' = now
  PROVE  L!Next
<1>1. RowOf(c) \in Row /\ IsSafeWrite(RowOf(c), requests, now)
  <2>1. InFlight(c)
    BY DEF At, InFlight, StorePcs
  <2> QED BY <2>1, CallFacts DEF At, CallIsSafe, IsSafeWrite, RowOf
<1> QED BY <1>1, WriteIsAStep

\* The update of a reminder: the listed row met the condition at a time that
\* has passed since.
LEMMA ReminderWrites ==
  ASSUME Inv, NEW w \in Workers, WorkerAt(w, "remind"), NEW r \in Batch(w),
         UpdateRequest(RemindedRow(r, workers[w].pass)), now' = now
  PROVE  L!Next
<1> DEFINE t == workers[w].pass
           row == RemindedRow(r, t)
<1>1. /\ r \in Row /\ IsVersionOf(r, requests) /\ NeedsReminder(r, t)
      /\ t \in Nat /\ t <= now /\ now \in Nat
  BY WorkerFacts DEF WorkerIsSafe, WorkerAt, Batch, ReminderPcs
<1>2. Follows(row, r)
  BY <1>1, RemindedRowFollows
<1>3. IsTransition(r, row, now)
  BY <1>1 DEF IsTransition
<1> HIDE DEF row
<1>4. row \in Row /\ IsSafeWrite(row, requests, now)
  BY <1>1, <1>2, <1>3, NextWriteIsSafe DEF Follows
<1> QED BY <1>4, WriteIsAStep DEF row

\* The update after an execution.
LEMMA ExecutionWrites ==
  ASSUME Inv, NEW w \in Workers, WorkerAt(w, "executeUpdate"), UpdateRequest(Pending(w)),
         now' = now
  PROVE  L!Next
<1>1. Pending(w) \in Row /\ IsSafeWrite(Pending(w), requests, now)
  BY WorkerFacts DEF WorkerAt, WorkerIsSafe, IsSafeWrite, Pending
<1> QED BY <1>1, WriteIsAStep

\* Steps that leave the table and the clock alone.
Idle == requests' = requests /\ now' = now

LEMMA CallStepRefines ==
  ASSUME Inv, NEW c \in Calls, CallStep(c) \/ CallFault(c)
  PROVE  L!Next \/ Idle
<1>1. now' = now
  BY DEF CallStep, CallFault
<1>2. CASE At(c, "update") /\ UpdateRequest(RowOf(c))
  BY <1>1, <1>2, CallWrites
<1>3. CASE At(c, "create") /\ CreateRequest(RowOf(c))
  BY <1>1, <1>3, CreateIsAStep
<1>4. CASE requests' = requests
  BY <1>1, <1>4 DEF Idle
<1>5. CASE CallStep(c)
  <2>1. CASE Start(c) \/ Load(c) \/ Lookup(c) \/ Recheck(c) \/ Reload(c) \/ ReplayLookup(c)
    <3>1. requests' = requests
      BY <2>1 DEF Start, StartCreate, StartChange, Refuse, Begin, Load, Lookup, Recheck,
                  Reload, ReplayLookup, storeVars
    <3> QED BY <3>1, <1>4
  <2>2. CASE Claim(c) \/ ReplayClaim(c)
    <3>1. requests' = requests
      BY <2>2 DEF Claim, ReplayClaim, CreateIdempotency, Fail, storeVars
    <3> QED BY <3>1, <1>4
  <2>3. CASE Update(c)
    BY <1>2, <1>4, <2>3 DEF Update, Fail, storeVars
  <2>4. CASE Review(c) \/ Audit(c) \/ AuditAssigned(c)
    <3>1. requests' = requests
      BY <2>4 DEF Review, CreateReview, Audit, AuditAssigned, AppendAudit
    <3> QED BY <3>1, <1>4
  <2> QED BY <1>3, <1>5, <2>1, <2>2, <2>3, <2>4 DEF CallStep, HandlerStep, Create
<1>6. CASE CallFault(c)
  <2>1. CASE StoreError(c)
    BY <1>4, <2>1 DEF StoreError, Fail, storeVars
  <2>2. CASE ReplyLost(c)
    BY <1>2, <1>3, <1>4, <2>2 DEF ReplyLost, Write, CreateIdempotency, CreateReview,
                                 AppendAudit
  <2> QED BY <1>6, <2>1, <2>2 DEF CallFault
<1> QED BY <1>5, <1>6

LEMMA WorkStepRefines ==
  ASSUME Inv, NEW w \in Workers, WorkStep(w) \/ WorkFault(w)
  PROVE  L!Next \/ Idle
<1>1. now' = now
  BY DEF WorkStep, WorkFault
<1>2. CASE WorkerAt(w, "remind") /\ \E r \in Batch(w) :
               UpdateRequest(RemindedRow(r, workers[w].pass))
  BY <1>1, <1>2, ReminderWrites
<1>3. CASE WorkerAt(w, "executeUpdate") /\ UpdateRequest(Pending(w))
  BY <1>1, <1>3, ExecutionWrites
<1>4. CASE requests' = requests
  BY <1>1, <1>4 DEF Idle
<1>5. CASE WorkStep(w)
  <2>1. CASE Poll(w) \/ ListReminders(w) \/ ListReady(w) \/ Execute(w)
    BY <1>4, <2>1 DEF Poll, ListReminders, ListReady, Execute, storeVars
  <2>2. CASE RemindAudit(w) \/ ExecuteAudit(w)
    BY <1>4, <2>2 DEF RemindAudit, ExecuteAudit, AppendAudit
  <2>3. CASE RemindJob(w) \/ ExecuteJob(w)
    BY <1>4, <2>3 DEF RemindJob, ExecuteJob, AppendJobRun
  <2>4. CASE Remind(w)
    BY <1>2, <1>4, <2>4 DEF Remind, NextOf, storeVars
  <2>5. CASE ExecuteUpdate(w)
    BY <1>3, <1>4, <2>5 DEF ExecuteUpdate, storeVars
  <2> QED BY <1>5, <2>1, <2>2, <2>3, <2>4, <2>5 DEF WorkStep, WorkerStep
<1>6. CASE WorkFault(w)
  <2>1. CASE WorkerStoreError(w)
    BY <1>4, <2>1 DEF WorkerStoreError, storeVars
  <2>2. CASE WorkerReplyLost(w)
    BY <1>2, <1>3, <2>2 DEF WorkerReplyLost, NextOf
  <2> QED BY <1>6, <2>1, <2>2 DEF WorkFault
<1> QED BY <1>5, <1>6

LEMMA StepRefines == Inv /\ [Next]_vars => [L!Next]_(L!vars)
<1> SUFFICES ASSUME Inv, [Next]_vars PROVE L!Next \/ Idle
  BY DEF Idle, L!vars
<1>1. ASSUME NEW c \in Calls, CallStep(c) \/ CallFault(c) PROVE L!Next \/ Idle
  BY <1>1, CallStepRefines
<1>2. ASSUME NEW w \in Workers, WorkStep(w) \/ WorkFault(w) PROVE L!Next \/ Idle
  BY <1>2, WorkStepRefines
<1>3. CASE Tick
  BY <1>3 DEF Tick, L!Next, L!Tick, storeVars
<1>4. CASE Restart
  BY <1>4 DEF Restart, Idle, storeVars
<1>5. CASE UNCHANGED vars
  BY <1>5 DEF vars, Idle, storeVars
<1> QED BY <1>1, <1>2, <1>3, <1>4, <1>5 DEF Next

\* The service implements the atomic lifecycle of a request: the store calls
\* that make up an operation, in any interleaving with those of other calls and
\* workers and with any failures, change the table like one step on the row as
\* it is at that moment.
THEOREM LifecycleRefined == Spec => RefinesLifecycle
<1>1. Init => L!Init
  BY DEF Init, StoreInit, L!Init
<1> QED BY <1>1, InvHolds, StepRefines, PTL DEF Spec, RefinesLifecycle, L!Spec

-----------------------------------------------------------------------------
(* What holds of every step of the lifecycle. *)

\* A step of the lifecycle changes one request by one transition.
LEMMA LifecycleChanges ==
  ASSUME Inv, [L!Next]_(L!vars), NEW id \in Ids, Exists(id),
         requests'[id] # requests[id]
  PROVE  IsTransition(requests[id], requests'[id], now)
<1>1. requests \in Tables
  BY DEF Inv, TypeOK, Tables
<1>2. PICK i \in Ids : L!Create(i) \/ L!Submit(i) \/ L!Review(i) \/ L!Remind(i)
                       \/ L!RecordExecution(i)
  BY DEF L!Next, L!vars, L!Tick
<1>3. \E row : requests' = [requests EXCEPT ![i] = row]
  BY <1>2 DEF L!Create, L!Submit, L!Review, L!Remind, L!RecordExecution, L!Change
<1>4. i = id
  BY <1>1, <1>3 DEF Tables
<1>5. CASE L!Create(i)
  BY <1>4, <1>5 DEF L!Create, Exists
<1>6. CASE L!Submit(i)
  BY <1>1, <1>4, <1>6, SameRules DEF L!Submit, L!Change, IsTransition, Tables
<1>7. CASE L!Review(i)
  BY <1>1, <1>4, <1>7, SameRules DEF L!Review, L!Change, IsTransition, Tables, Decisions
<1>8. CASE L!Remind(i)
  BY <1>1, <1>4, <1>8, SameRules DEF L!Remind, L!Change, IsTransition, Tables
<1>9. CASE L!RecordExecution(i)
  BY <1>1, <1>4, <1>9, SameRules DEF L!RecordExecution, L!Change, IsTransition, Tables
<1> QED BY <1>2, <1>5, <1>6, <1>7, <1>8, <1>9

\* No transition leaves a final status, skips a version or touches who asked
\* for what.
LEMMA TransitionKeepsHistory ==
  ASSUME NEW old \in Row, NEW new, NEW time \in Nat, IsTransition(old, new, time)
  PROVE  /\ old.status \notin {"rejected", "executed"}
         /\ new.version = old.version + 1
         /\ new.requester_id = old.requester_id
         /\ new.target_resource = old.target_resource
<1>1. CASE old.status = "draft" /\ \E t \in 0..time : new = SubmittedRow(old, t)
  BY <1>1 DEF SubmittedRow, Row
<1>2. CASE /\ old.status = "pending_review"
           /\ \E t \in 0..time, decision \in Decisions : new = ReviewedRow(old, decision, t)
  BY <1>2 DEF ReviewedRow, Row
<1>3. CASE \E t \in 0..time : NeedsReminder(old, t) /\ new = RemindedRow(old, t)
  BY <1>3 DEF RemindedRow, NeedsReminder, Row
<1>4. CASE /\ AwaitsExecution(old)
           /\ \E t \in 0..time, success \in BOOLEAN : new = ExecutionRow(old, success, t)
  BY <1>4 DEF ExecutionRow, AwaitsExecution, Row
<1> QED BY <1>1, <1>2, <1>3, <1>4 DEF IsTransition

\* The reminder count grows by a reminder alone.
LEMMA TransitionSpacesReminders ==
  ASSUME NEW old \in Row, NEW new, NEW time \in Nat, IsTransition(old, new, time),
         new.reminder_count > old.reminder_count
  PROVE  /\ old.status = "pending_review"
         /\ old.submitted_at <= new.last_reminded_at - ReminderAfter
         /\ old.last_reminded_at # Nil =>
               old.last_reminded_at <= new.last_reminded_at - ReminderAfter
<1>1. old.reminder_count \in Nat
  BY DEF Row
<1>2. ASSUME new.reminder_count = old.reminder_count PROVE FALSE
  BY <1>1, <1>2
<1>3. CASE \E t \in 0..time : new = SubmittedRow(old, t)
  BY <1>2, <1>3 DEF SubmittedRow, Row
<1>4. CASE \E t \in 0..time, decision \in Decisions : new = ReviewedRow(old, decision, t)
  BY <1>2, <1>4 DEF ReviewedRow, Row
<1>5. CASE \E t \in 0..time : NeedsReminder(old, t) /\ new = RemindedRow(old, t)
  <2>1. PICK t \in 0..time : NeedsReminder(old, t) /\ new = RemindedRow(old, t)
    BY <1>5
  <2>2. new.last_reminded_at = t
    BY <2>1 DEF RemindedRow, Row
  <2> QED BY <2>1, <2>2 DEF NeedsReminder
<1>6. CASE \E t \in 0..time, success \in BOOLEAN : new = ExecutionRow(old, success, t)
  BY <1>2, <1>6 DEF ExecutionRow, Row
<1> QED BY <1>3, <1>4, <1>5, <1>6 DEF IsTransition

\* Every transition schedules the row as its new status asks.
LEMMA TransitionKeepsSchedule ==
  ASSUME NEW old \in Row, NEW new, NEW time \in Nat, IsTransition(old, new, time),
         ScheduledRight(old)
  PROVE  ScheduledRight(new)
<1>1. CASE old.status = "draft" /\ \E t \in 0..time : new = SubmittedRow(old, t)
  BY <1>1 DEF SubmittedRow, Row, ScheduledRight
<1>2. CASE /\ old.status = "pending_review"
           /\ \E t \in 0..time, decision \in Decisions : new = ReviewedRow(old, decision, t)
  BY <1>2, NilAssumption DEF ReviewedRow, Row, ScheduledRight, Decisions
<1>3. CASE \E t \in 0..time : NeedsReminder(old, t) /\ new = RemindedRow(old, t)
  BY <1>3 DEF RemindedRow, Row, ScheduledRight
<1>4. CASE /\ AwaitsExecution(old)
           /\ \E t \in 0..time, success \in BOOLEAN : new = ExecutionRow(old, success, t)
  <2>1. PICK t \in 0..time, success \in BOOLEAN : new = ExecutionRow(old, success, t)
    BY <1>4
  <2>2. /\ new.status = Outcome(success)
        /\ new.execution_attempts = AttemptsAfter(old)
        /\ new.next_execution_at = Schedule(success, AttemptsAfter(old), t)
    BY <2>1 DEF ExecutionRow, Row
  <2>3. AttemptsAfter(old) \in Nat /\ t + AttemptsAfter(old) * RetryBase # Nil
    <3>1. AttemptsAfter(old) \in Nat
      BY DEF AttemptsAfter, Row
    <3>2. AttemptsAfter(old) * RetryBase \in Int
      BY <3>1, ConfigAssumption
    <3> QED BY <3>1, <3>2, NilAssumption
  <2>4. CASE success
    BY <2>2, <2>4 DEF Outcome, Schedule, ScheduledRight
  <2>5. CASE ~success
    BY <2>2, <2>3, <2>5, ConfigAssumption DEF Outcome, Schedule, ScheduledRight
  <2> QED BY <2>4, <2>5
<1> QED BY <1>1, <1>2, <1>3, <1>4 DEF IsTransition

\* A request is new with the row CreateDraft makes.
LEMMA NewRowsAreDrafts ==
  ASSUME Inv, [L!Next]_(L!vars), NEW id \in Ids, ~Exists(id), Exists(id)'
  PROVE  \E actor \in Actors, target \in Targets :
             requests'[id] = DraftRow(id, actor, target)
<1>1. requests \in Tables /\ requests[id] = Nil /\ requests'[id] # Nil
  BY DEF Inv, TypeOK, Tables, Exists
<1>2. PICK i \in Ids : L!Create(i) \/ L!Submit(i) \/ L!Review(i) \/ L!Remind(i)
                       \/ L!RecordExecution(i)
  BY <1>1 DEF L!Next, L!vars, L!Tick
<1>3. \E row : requests' = [requests EXCEPT ![i] = row]
  BY <1>2 DEF L!Create, L!Submit, L!Review, L!Remind, L!RecordExecution, L!Change
<1>4. i = id
  BY <1>1, <1>3 DEF Tables
<1>5. L!Create(id)
  BY <1>1, <1>2, <1>4 DEF L!Submit, L!Review, L!Remind, L!RecordExecution
<1>6. PICK actor \in Actors, target \in Targets :
          requests' = [requests EXCEPT ![id] = DraftRow(id, actor, target)]
  BY <1>5, SameRules DEF L!Create, L!Change
<1>7. requests'[id] = DraftRow(id, actor, target)
  BY <1>1, <1>6 DEF Tables
<1> QED BY <1>7

LEMMA NewRowsAreUnscheduled ==
  ASSUME Inv, [L!Next]_(L!vars), NEW id \in Ids, ~Exists(id), Exists(id)'
  PROVE  ScheduledRight(requests'[id])
<1>1. PICK actor \in Actors, target \in Targets :
          requests'[id] = DraftRow(id, actor, target)
  BY NewRowsAreDrafts
<1> QED BY <1>1 DEF DraftRow, ScheduledRight

-----------------------------------------------------------------------------
(* The properties that follow. *)

\* A rejected or executed request is final, no version is skipped, and nobody
\* rewrites who asked for what.
THEOREM HistoryIsKeptHolds == Spec => HistoryIsKept
<1>1. Inv /\ [Next]_vars => [KeepsHistory]_vars
  <2> SUFFICES ASSUME Inv, [Next]_vars PROVE KeepsHistory
    OBVIOUS
  <2> SUFFICES ASSUME NEW id \in Ids, Exists(id), requests'[id] # requests[id]
               PROVE  /\ requests[id].status \notin {"rejected", "executed"}
                      /\ requests'[id].version = requests[id].version + 1
                      /\ requests'[id].requester_id = requests[id].requester_id
                      /\ requests'[id].target_resource = requests[id].target_resource
    BY DEF KeepsHistory
  <2>1. requests[id] \in Row /\ now \in Nat
    BY StoredRow DEF Inv, TypeOK
  <2>2. IsTransition(requests[id], requests'[id], now)
    BY StepRefines, LifecycleChanges
  <2> QED BY <2>1, <2>2, TransitionKeepsHistory
<1> QED BY <1>1, InvHolds, PTL DEF Spec, HistoryIsKept

\* No worker, however many there are and however long its listing is past,
\* reminds a reviewer again before ReminderAfter has gone by.
THEOREM RemindersAreSpacedHolds == Spec => RemindersAreSpaced
<1>1. Inv /\ [Next]_vars => [SpacesReminders]_vars
  <2> SUFFICES ASSUME Inv, [Next]_vars, NEW id \in Ids, Exists(id),
                      requests'[id].reminder_count > requests[id].reminder_count
               PROVE  /\ requests[id].status = "pending_review"
                      /\ requests[id].submitted_at <=
                            requests'[id].last_reminded_at - ReminderAfter
                      /\ requests[id].last_reminded_at # Nil =>
                            requests[id].last_reminded_at <=
                               requests'[id].last_reminded_at - ReminderAfter
    BY DEF SpacesReminders
  <2>1. requests[id] \in Row /\ now \in Nat
    BY StoredRow DEF Inv, TypeOK
  <2>2. requests'[id] # requests[id]
    <3>1. requests[id].reminder_count \in Nat
      BY <2>1 DEF Row
    <3> QED BY <3>1
  <2>3. IsTransition(requests[id], requests'[id], now)
    BY <2>2, StepRefines, LifecycleChanges
  <2> QED BY <2>1, <2>3, TransitionSpacesReminders
<1> QED BY <1>1, InvHolds, PTL DEF Spec, RemindersAreSpaced

\* A request is on the worker's schedule exactly while it should be: approved,
\* or failed with attempts left.
THEOREM ScheduleMatchesStatusHolds == Spec => []ScheduleMatchesStatus
<1>1. Init => ScheduleMatchesStatus
  BY DEF Init, StoreInit, ScheduleMatchesStatus, Exists
<1>2. Inv /\ ScheduleMatchesStatus /\ [Next]_vars => ScheduleMatchesStatus'
  <2> SUFFICES ASSUME Inv, ScheduleMatchesStatus, [Next]_vars,
                      NEW id \in Ids, Exists(id)'
               PROVE  ScheduledRight(requests'[id])
    BY DEF ScheduleMatchesStatus, ScheduledRight
  <2>1. [L!Next]_(L!vars)
    BY StepRefines
  <2>2. CASE ~Exists(id)
    BY <2>1, <2>2, NewRowsAreUnscheduled
  <2>3. CASE Exists(id) /\ requests'[id] = requests[id]
    BY <2>3 DEF ScheduleMatchesStatus
  <2>4. CASE Exists(id) /\ requests'[id] # requests[id]
    <3>1. requests[id] \in Row /\ now \in Nat /\ ScheduledRight(requests[id])
      BY <2>4, StoredRow DEF Inv, TypeOK, ScheduleMatchesStatus
    <3>2. IsTransition(requests[id], requests'[id], now)
      BY <2>1, <2>4, LifecycleChanges
    <3> QED BY <3>1, <3>2, TransitionKeepsSchedule
  <2> QED BY <2>2, <2>3, <2>4
<1> QED BY <1>1, <1>2, InvHolds, PTL DEF Spec

-----------------------------------------------------------------------------
(* The service keeps to the contract with its store.  A row in somebody's  *)
(* hands was stored, or computed from one that was, at some time: neither  *)
(* is undone by what happens in between.                                   *)

SeenRows == Rows \subseteq seen /\ seen \subseteq Row

WorkerHolds(worker, stored, results) ==
  /\ worker.batch \subseteq stored
  /\ worker.pc \in {"remindAudit", "remindJob", "executeAudit"} => worker.row \in stored
  /\ worker.pc \in {"executeUpdate", "executeAudit", "executeJob"} => worker.row \in results

Held ==
  /\ \A c \in Calls : CallExpected(calls[c], seen, Contract!Computed)
  /\ \A w \in Workers : WorkerHolds(workers[w], seen, Contract!Results)

\* What an operation makes of a row that was stored.
LEMMA ChangesAreComputed ==
  ASSUME NEW r \in seen, r \in Row, NEW t \in 0..now
  PROVE  /\ r.status = "draft" => SubmittedRow(r, t) \in Contract!Computed
         /\ r.status = "pending_review" =>
               /\ RemindedRow(r, t) \in Contract!Computed
               /\ \A d \in Decisions : ReviewedRow(r, d, t) \in Contract!Computed
         /\ AwaitsExecution(r) =>
               \A success \in BOOLEAN : ExecutionRow(r, success, t) \in Contract!Results
<1>1. \A row \in Contract!Changes(r, t) : row \in Contract!Computed
  BY DEF Contract!Computed
<1>2. ASSUME r.status = "draft"
      PROVE  SubmittedRow(r, t) \in Contract!Changes(r, t)
  BY <1>2 DEF Contract!Changes, Contract!SubmittedRow, SubmittedRow,
       Contract!AwaitsExecution
<1>3. ASSUME r.status = "pending_review"
      PROVE  /\ RemindedRow(r, t) \in Contract!Changes(r, t)
             /\ \A d \in Decisions : ReviewedRow(r, d, t) \in Contract!Changes(r, t)
  BY <1>3 DEF Contract!Changes, Contract!RemindedRow, RemindedRow, Contract!ReviewedRow,
       ReviewedRow, Contract!Decisions, Decisions, Contract!AwaitsExecution
<1>4. ASSUME AwaitsExecution(r), NEW success \in BOOLEAN
      PROVE  /\ ExecutionRow(r, success, t) \in Contract!Changes(r, t)
             /\ ExecutionRow(r, success, t).status \in {"executed", "execution_failed"}
  <2>1. ExecutionRow(r, success, t) = Contract!ExecutionRow(r, success, t)
    BY DEF Contract!ExecutionRow, ExecutionRow, Contract!Outcome, Outcome,
       Contract!Schedule, Schedule, Contract!AttemptsAfter, AttemptsAfter
  <2>2. ExecutionRow(r, success, t) \in Contract!Changes(r, t)
    BY <1>4, <2>1 DEF Contract!Changes, Contract!AwaitsExecution, AwaitsExecution
  <2>3. ExecutionRow(r, success, t).status = Outcome(success)
    BY DEF ExecutionRow, Row
  <2> QED BY <2>2, <2>3 DEF Outcome
<1> QED BY <1>1, <1>2, <1>3, <1>4 DEF Contract!Results

\* Nothing is taken back.
LEMMA ExpectationsGrow ==
  ASSUME seen \subseteq seen', now \in Nat, now' \in Nat, now <= now'
  PROVE  /\ Contract!Computed \subseteq Contract!Computed'
         /\ Contract!Results \subseteq Contract!Results'
<1>1. \A r, t : Contract!Changes(r, t)' = Contract!Changes(r, t)
  BY DEF Contract!Changes
<1>2. 0..now \subseteq 0..now'
  OBVIOUS
<1>3. ASSUME NEW row \in Contract!Computed PROVE row \in Contract!Computed'
  <2>1. PICK r \in seen, t \in 0..now : row \in Contract!Changes(r, t)
    BY DEF Contract!Computed
  <2> QED BY <1>1, <1>2, <2>1 DEF Contract!Computed
<1> QED BY <1>3 DEF Contract!Results

\* What others hold is as it was.
LEMMA OthersHold ==
  ASSUME Inv, Held, Record, now' \in Nat, now <= now'
  PROVE  /\ seen \subseteq seen' /\ Rows' \subseteq seen'
         /\ \A c \in Calls : CallExpected(calls[c], seen', Contract!Computed')
         /\ \A w \in Workers : WorkerHolds(workers[w], seen', Contract!Results')
<1>1. seen \subseteq seen' /\ Rows' \subseteq seen' /\ now \in Nat
  BY DEF Record, Inv, TypeOK
<1>2. /\ Contract!Computed \subseteq Contract!Computed'
      /\ Contract!Results \subseteq Contract!Results'
  BY <1>1, ExpectationsGrow
<1>3. ASSUME NEW c \in Calls
      PROVE  CallExpected(calls[c], seen', Contract!Computed')
  BY <1>1, <1>2 DEF Held, CallExpected
<1>4. ASSUME NEW w \in Workers
      PROVE  WorkerHolds(workers[w], seen', Contract!Results')
  BY <1>1, <1>2 DEF Held, WorkerHolds
<1> QED BY <1>1, <1>3, <1>4

\* What is written is stored.
LEMMA WrittenIsSeen ==
  ASSUME Inv, Record, NEW row \in Row, UpdateRequest(row) \/ CreateRequest(row)
  PROVE  row \in seen'
<1>1. row.id \in Ids /\ row # Nil
  BY NilAssumption DEF Row
<1>2. requests' = [requests EXCEPT ![row.id] = row] /\ requests \in Tables
  BY DEF UpdateRequest, CreateRequest, Inv, TypeOK, Tables
<1>3. requests'[row.id] = row
  BY <1>1, <1>2 DEF Tables
<1>4. row \in Rows'
  BY <1>1, <1>3 DEF Rows, Exists
<1> QED BY <1>4 DEF Record

StoredPcs == {"lookup", "claim", "recheck", "reload", "replayLookup", "replayClaim",
              "review", "audit", "auditAssigned"}

\* A call goes on with a row that is expected there, or ends.
Carries(c) ==
  /\ \/ calls'[c].pc \notin StoredPcs \cup {"update"}
     \/ calls'[c].pc \in StoredPcs /\ RowOf(c)' \in seen'
     \/ calls'[c].pc = "update" /\ RowOf(c)' \in Contract!Computed'
  /\ \A d \in Calls \ {c} : calls'[d] = calls[d]

LEMMA CarriedIsExpected ==
  ASSUME NEW c \in Calls, Carries(c)
  PROVE  CallExpected(calls'[c], seen', Contract!Computed')
BY DEF Carries, CallExpected, StoredPcs, RowOf

LEMMA GotoCarries ==
  ASSUME Inv, NEW c \in Calls, NEW pc, NEW row, Goto(c, pc, row),
         \/ pc \in StoredPcs /\ row \in seen'
         \/ pc = "update" /\ row \in Contract!Computed'
  PROVE  Carries(c)
<1>1. /\ calls'[c].pc = pc /\ RowOf(c)' = row
      /\ \A d \in Calls \ {c} : calls'[d] = calls[d]
  BY DEF Goto, Inv, TypeOK, CallAt, RowOf
<1> QED BY <1>1 DEF Carries

LEMMA FinishCarries ==
  ASSUME Inv, NEW c \in Calls, NEW result, NEW row, Finish(c, result, row)
  PROVE  Carries(c)
<1>1. calls'[c].pc = "done" /\ \A d \in Calls \ {c} : calls'[d] = calls[d]
  BY DEF Finish, Inv, TypeOK, CallAt
<1> QED BY <1>1 DEF Carries, StoredPcs

LEMMA StartCarries ==
  ASSUME Inv, NEW c \in Calls, Start(c)
  PROVE  Carries(c)
<1>1. PICK m \in Traffic, id \in Ids : StartCreate(c, m, id) \/ StartChange(c, m, id)
  BY DEF Start
<1>2. ASSUME NEW pc \in {"create", "load"}, NEW row, Begin(c, m, id, pc, row)
      PROVE  calls'[c].pc = pc /\ \A d \in Calls \ {c} : calls'[d] = calls[d]
  BY <1>2 DEF Begin, Inv, TypeOK
<1>3. ASSUME NEW result, Refuse(c, m, id, result)
      PROVE  calls'[c].pc = "done" /\ \A d \in Calls \ {c} : calls'[d] = calls[d]
  BY <1>3 DEF Refuse, Inv, TypeOK
<1>4. /\ calls'[c].pc \in {"create", "load", "done"}
      /\ \A d \in Calls \ {c} : calls'[d] = calls[d]
  BY <1>1, <1>2, <1>3 DEF StartCreate, StartChange
<1> QED BY <1>4 DEF Carries, StoredPcs

\* The row a call reads is stored.
LEMMA LoadCarries ==
  ASSUME Inv, Held, SeenRows, Record, NEW c \in Calls, Load(c), now' = now
  PROVE  Carries(c)
<1> DEFINE id == calls[c].id
           row == requests[id]
<1>1. id \in Ids /\ now \in 0..now
  <2>1. InFlight(c) /\ now \in Nat
    BY DEF Load, At, InFlight, StorePcs, Inv, TypeOK
  <2> QED BY <2>1, CallFacts
<1>2. CASE \E result : Finish(c, result, Nil)
  BY <1>2, FinishCarries
<1>3. CASE Exists(id)
  <2>1. row \in seen /\ row \in Row /\ row \in seen'
    BY <1>1, <1>3 DEF SeenRows, Rows, Record
  <2> HIDE DEF row
  <2>2. CASE Op(c) = "submit" /\ LoadForSubmit(c, row)
    BY <1>2, <2>1, <2>2, GotoCarries DEF LoadForSubmit, RequireKey, StoredPcs
  <2>3. CASE Op(c) \in Decisions /\ LoadForReview(c, row)
    BY <1>2, <2>1, <2>3, GotoCarries DEF LoadForReview, RequireKey, StoredPcs
  <2>4. CASE LoadForExecution(c, row)
    <3>1. CASE Finish(c, "conflict", Nil)
      BY <1>2, <3>1
    <3>2. CASE AwaitsExecution(row) /\ Goto(c, "update", ExecutionRow(row, Success(c), now))
      <4>1. ExecutionRow(row, Success(c), now) \in Contract!Results
        BY <1>1, <2>1, <3>2, ChangesAreComputed DEF Success
      <4>2. ExecutionRow(row, Success(c), now) \in Contract!Computed'
        <5>1. seen \subseteq seen' /\ now \in Nat /\ now' \in Nat /\ now <= now'
          BY DEF Record, Inv, TypeOK
        <5> QED BY <4>1, <5>1, ExpectationsGrow DEF Contract!Results
      <4> QED BY <3>2, <4>2, GotoCarries
    <3> QED BY <2>4, <3>1, <3>2 DEF LoadForExecution
  <2> QED BY <1>2, <1>3, <2>2, <2>3, <2>4 DEF Load, row
<1> QED BY <1>2, <1>3 DEF Load

LEMMA ClaimCarries ==
  ASSUME Inv, Held, SeenRows, Record, NEW c \in Calls, Claim(c), now' = now
  PROVE  Carries(c)
<1> DEFINE row == RowOf(c)
<1>1. /\ InFlight(c) /\ calls[c].pc = "claim" /\ now \in 0..now
      /\ seen \subseteq seen' /\ now \in Nat /\ now' \in Nat /\ now <= now'
  BY DEF Claim, At, InFlight, StorePcs, Record, Inv, TypeOK
<1>2. row \in seen /\ row \in Row
  BY <1>1 DEF Held, CallExpected, SeenRows, RowOf
<1>3. \/ Op(c) = "submit"
      \/ Op(c) \in Decisions /\ row.status = "pending_review"
  BY <1>1, CallFacts DEF CallIsSafe, Op, RowOf
<1> HIDE DEF row
<1>4. ASSUME NEW new \in Contract!Computed, Goto(c, "update", new)
      PROVE  Carries(c)
  <2>1. new \in Contract!Computed'
    BY <1>1, ExpectationsGrow
  <2> QED BY <1>4, <2>1, GotoCarries
<1>5. CASE Op(c) = "submit" /\ SubmitClaimed(c, row)
  <2>1. CASE Finish(c, "conflict", Nil)
    BY <2>1, FinishCarries
  <2>2. CASE row.status = "draft" /\ Goto(c, "update", SubmittedRow(row, now))
    BY <1>1, <1>2, <1>4, <2>2, ChangesAreComputed
  <2> QED BY <1>5, <2>1, <2>2 DEF SubmitClaimed
<1>6. CASE Op(c) # "submit" /\ ReviewClaimed(c, row)
  <2>1. ReviewedRow(row, Op(c), now) \in Contract!Computed
    BY <1>1, <1>2, <1>3, <1>6, ChangesAreComputed
  <2> QED BY <1>4, <1>6, <2>1 DEF ReviewClaimed
<1>7. CASE Fail(c, "conflict")
  BY <1>7, FinishCarries DEF Fail
<1>8. CASE Goto(c, "recheck", row)
  BY <1>1, <1>2, <1>8, GotoCarries DEF StoredPcs
<1> QED BY <1>5, <1>6, <1>7, <1>8 DEF Claim, row

\* The other steps go on with the row they have.
LEMMA KeptRowCarries ==
  ASSUME Inv, Held, Record, NEW c \in Calls,
         \/ Lookup(c) \/ Recheck(c) \/ Reload(c) \/ ReplayLookup(c) \/ ReplayClaim(c)
         \/ Review(c) \/ Audit(c) \/ AuditAssigned(c)
  PROVE  Carries(c)
<1>1. RowOf(c) \in seen'
  BY DEF Lookup, Recheck, Reload, ReplayLookup, ReplayClaim, Review, Audit, AuditAssigned,
         At, Held, CallExpected, RowOf, Record
<1>2. ASSUME NEW pc \in StoredPcs, Goto(c, pc, RowOf(c))
      PROVE  Carries(c)
  BY <1>1, <1>2, GotoCarries
<1>3. ASSUME NEW result, NEW row, Finish(c, result, row)
      PROVE  Carries(c)
  BY <1>3, FinishCarries
<1>4. "claim" \in StoredPcs /\ "reload" \in StoredPcs /\ "replayClaim" \in StoredPcs
      /\ "audit" \in StoredPcs /\ "auditAssigned" \in StoredPcs
  BY DEF StoredPcs
<1> QED
  BY <1>2, <1>3, <1>4 DEF Lookup, Recheck, Reload, ReplayLookup, ReplayClaim, Fail, Review,
     Audit, AuditAssigned

LEMMA WriteCarries ==
  ASSUME Inv, Record, NEW c \in Calls, Create(c) \/ Update(c)
  PROVE  Carries(c)
<1> DEFINE next == IF Op(c) \in Decisions THEN "review" ELSE "audit"
<1>1. InFlight(c) /\ (At(c, "create") \/ At(c, "update"))
  BY DEF Create, Update, At, InFlight, StorePcs
<1>2. RowOf(c) \in Row
  <2>1. CASE At(c, "create")
    <3>1. IsNewDraft(c) /\ calls[c].id \in Ids
      BY <1>1, <2>1, CallFacts DEF Inv, NoLostUpdate
    <3> QED BY <3>1, DraftRowType DEF IsNewDraft
  <2>2. CASE At(c, "update")
    BY <1>1, <2>2, CallFacts DEF At, CallIsSafe, IsSafeWrite, RowOf
  <2> QED BY <1>1, <2>1, <2>2
<1>3. next \in StoredPcs /\ "audit" \in StoredPcs
  BY DEF StoredPcs
<1>4. ASSUME NEW pc \in StoredPcs, UpdateRequest(RowOf(c)) \/ CreateRequest(RowOf(c)),
             Goto(c, pc, RowOf(c))
      PROVE  Carries(c)
  BY <1>2, <1>4, WrittenIsSeen, GotoCarries
<1>5. CASE Fail(c, "conflict")
  BY <1>5, FinishCarries DEF Fail
<1> QED BY <1>3, <1>4, <1>5 DEF Create, Update

LEMMA CallCarries ==
  ASSUME Inv, Held, SeenRows, Record, NEW c \in Calls, CallStep(c) \/ CallFault(c)
  PROVE  Carries(c) /\ now' = now /\ workers' = workers
<1>1. now' = now /\ workers' = workers
  BY DEF CallStep, CallFault
<1>2. CASE CallStep(c)
  BY <1>1, <1>2, StartCarries, LoadCarries, ClaimCarries, KeptRowCarries, WriteCarries
     DEF CallStep, HandlerStep
<1>3. CASE CallFault(c)
  BY <1>3, FinishCarries DEF CallFault, StoreError, Fail, ReplyLost
<1> QED BY <1>1, <1>2, <1>3

\* A worker goes on with rows that are expected there, or ends its pass.
Bears(w) ==
  /\ Batch(w)' \subseteq seen'
  /\ workers'[w].pc \in {"remindAudit", "remindJob", "executeAudit"} => Pending(w)' \in seen'
  /\ workers'[w].pc \in {"executeUpdate", "executeAudit", "executeJob"} =>
        Pending(w)' \in Contract!Results'
  /\ \A v \in Workers \ {w} : workers'[v] = workers[v]

LEMMA WorkerGotoBears ==
  ASSUME Inv, NEW w \in Workers, NEW pc, NEW batch, NEW row, WorkerGoto(w, pc, batch, row),
         batch \subseteq seen',
         pc \in {"remindAudit", "remindJob", "executeAudit"} => row \in seen',
         pc \in {"executeUpdate", "executeAudit", "executeJob"} => row \in Contract!Results'
  PROVE  Bears(w)
<1>1. /\ workers'[w].pc = pc /\ Batch(w)' = batch /\ Pending(w)' = row
      /\ \A v \in Workers \ {w} : workers'[v] = workers[v]
  BY DEF WorkerGoto, Inv, TypeOK, Batch, Pending
<1> QED BY <1>1 DEF Bears

LEMMA EmptyHandedBears ==
  ASSUME Inv, NEW w \in Workers,
         \/ \E pc \in {"listReminders", "listReady"} : BeginPass(w, pc)
         \/ EndRun(w)
  PROVE  Bears(w)
<1>1. /\ workers'[w].pc \in {"wait", "listReminders", "listReady"} /\ Batch(w)' = {}
      /\ \A v \in Workers \ {w} : workers'[v] = workers[v]
  BY DEF BeginPass, EndRun, IdleWorker, Inv, TypeOK, Batch
<1> QED BY <1>1 DEF Bears

LEMMA NextBears ==
  ASSUME Inv, NEW w \in Workers, NEW batch, Batch(w) \subseteq seen', batch \subseteq seen',
         NextReminder(w, batch) \/ NextExecution(w)
  PROVE  Bears(w)
<1>1. CASE WorkerGoto(w, "remind", batch, Nil) \/ WorkerGoto(w, "execute", Batch(w), Nil)
  BY <1>1, WorkerGotoBears
<1>2. CASE BeginPass(w, "listReady") \/ EndRun(w)
  BY <1>2, EmptyHandedBears
<1> QED BY <1>1, <1>2 DEF NextReminder, NextExecution

\* A listing is of stored rows.
LEMMA ListingBears ==
  ASSUME Inv, Held, SeenRows, Record, NEW w \in Workers,
         Poll(w) \/ ListReminders(w) \/ ListReady(w)
  PROVE  Bears(w)
<1> DEFINE pass == workers[w].pass
<1>1. /\ \A batch \in ListRequestsNeedingReminder(pass, BatchSize) : batch \subseteq seen'
      /\ \A batch \in ListRequestsReadyForExecution(pass, BatchSize) : batch \subseteq seen'
      /\ Batch(w) \subseteq seen'
  BY DEF ListRequestsNeedingReminder, ListRequestsReadyForExecution, Batches, SeenRows,
         Record, Held, WorkerHolds, Batch
<1>2. CASE Poll(w)
  BY <1>2, EmptyHandedBears DEF Poll
<1>3. CASE ListReminders(w)
  BY <1>1, <1>3, NextBears DEF ListReminders
<1>4. CASE ListReady(w)
  <2>1. PICK batch \in ListRequestsReadyForExecution(pass, BatchSize) :
            \/ workers' = [workers EXCEPT ![w] = [pc |-> "execute", batch |-> batch,
                                                  row |-> Nil, pass |-> 0]]
            \/ EndRun(w)
    BY <1>4 DEF ListReady
  <2>2. CASE EndRun(w)
    BY <2>2, EmptyHandedBears
  <2>3. CASE workers' = [workers EXCEPT ![w] = [pc |-> "execute", batch |-> batch,
                                                row |-> Nil, pass |-> 0]]
    <3>1. /\ workers'[w].pc = "execute" /\ Batch(w)' = batch
          /\ \A v \in Workers \ {w} : workers'[v] = workers[v]
      BY <2>3 DEF Inv, TypeOK, Batch
    <3> QED BY <1>1, <2>1, <3>1 DEF Bears
  <2> QED BY <2>1, <2>2, <2>3
<1> QED BY <1>2, <1>3, <1>4

LEMMA RemindBears ==
  ASSUME Inv, Held, SeenRows, Record, NEW w \in Workers, Remind(w)
  PROVE  Bears(w)
<1>1. PICK r \in Batch(w) :
          LET row == RemindedRow(r, workers[w].pass)
          IN  \/ UpdateRequest(row) /\ WorkerGoto(w, "remindAudit", Batch(w) \ {r}, row)
              \/ NextReminder(w, Batch(w) \ {r})
  BY DEF Remind, NextOf
<1> DEFINE row == RemindedRow(r, workers[w].pass)
<1>2. Batch(w) \subseteq seen'
  BY DEF Held, WorkerHolds, Batch, Record
<1>3. row \in Row
  <2>1. r \in Row /\ workers[w].pass \in Int
    BY WorkerFacts
  <2> QED BY <2>1, RemindedRowFollows DEF Follows
<1>4. \/ UpdateRequest(row) /\ WorkerGoto(w, "remindAudit", Batch(w) \ {r}, row)
      \/ NextReminder(w, Batch(w) \ {r})
  BY <1>1
<1> HIDE DEF row
<1>5. CASE UpdateRequest(row) /\ WorkerGoto(w, "remindAudit", Batch(w) \ {r}, row)
  BY <1>2, <1>3, <1>5, WrittenIsSeen, WorkerGotoBears
<1>6. CASE NextReminder(w, Batch(w) \ {r})
  BY <1>2, <1>6, NextBears
<1> QED BY <1>4, <1>5, <1>6

\* The result of an execution is computed from the row that was listed.
LEMMA ExecuteBears ==
  ASSUME Inv, Held, SeenRows, Record, NEW w \in Workers, Execute(w), now' = now
  PROVE  Bears(w)
<1>1. PICK r \in Batch(w) : WorkerGoto(w, "executeUpdate", Batch(w) \ {r},
                                       ExecutionRow(r, ExecutionSucceeds(r), now))
  BY DEF Execute, NextOf
<1>2. /\ Batch(w) \subseteq seen /\ seen \subseteq seen' /\ seen \subseteq Row
      /\ now \in 0..now /\ now \in Nat /\ now' \in Nat /\ now <= now'
  BY DEF Held, WorkerHolds, Batch, Record, SeenRows, Inv, TypeOK
<1>3. AwaitsExecution(r)
  <2>1. WorkerIsSafe(workers[w], requests, now) /\ workers[w].pc \in ExecutionPcs
    BY WorkerFacts DEF Execute, WorkerAt, ExecutionPcs
  <2> QED BY <2>1 DEF WorkerIsSafe, Batch
<1>4. ExecutionSucceeds(r) \in BOOLEAN
  BY DEF ExecutionSucceeds
<1>5. ExecutionRow(r, ExecutionSucceeds(r), now) \in Contract!Results'
  BY <1>2, <1>3, <1>4, ChangesAreComputed, ExpectationsGrow
<1> QED BY <1>1, <1>2, <1>5, WorkerGotoBears

\* The other steps of a pass go on with the rows it has.
LEMMA PassBears ==
  ASSUME Inv, Held, Record, now' = now, NEW w \in Workers,
         \/ RemindAudit(w) \/ RemindJob(w) \/ ExecuteUpdate(w) \/ ExecuteAudit(w)
         \/ ExecuteJob(w)
  PROVE  Bears(w)
<1>1. /\ Batch(w) \subseteq seen'
      /\ workers[w].pc \in {"remindAudit", "remindJob", "executeAudit"} => Pending(w) \in seen'
      /\ workers[w].pc \in {"executeUpdate", "executeAudit", "executeJob"} =>
            Pending(w) \in Contract!Results'
  BY OthersHold DEF WorkerHolds, Batch, Pending, Inv, TypeOK
<1>2. CASE RemindAudit(w)
  BY <1>1, <1>2, WorkerGotoBears DEF RemindAudit, WorkerAt
<1>3. CASE RemindJob(w) \/ ExecuteJob(w)
  BY <1>1, <1>3, NextBears DEF RemindJob, ExecuteJob
<1>4. CASE ExecuteUpdate(w)
  <2>1. workers[w].pc = "executeUpdate" /\ Pending(w) \in Row
    BY <1>4, WorkerFacts DEF ExecuteUpdate, WorkerAt, WorkerIsSafe, IsSafeWrite, Pending
  <2>2. CASE UpdateRequest(Pending(w)) /\ WorkerGoto(w, "executeAudit", Batch(w), Pending(w))
    BY <1>1, <2>1, <2>2, WrittenIsSeen, WorkerGotoBears
  <2>3. CASE WorkerGoto(w, "executeJob", Batch(w), Pending(w))
    BY <1>1, <2>1, <2>3, WorkerGotoBears
  <2> QED BY <1>4, <2>2, <2>3 DEF ExecuteUpdate
<1>5. CASE ExecuteAudit(w)
  BY <1>1, <1>5, WorkerGotoBears DEF ExecuteAudit, WorkerAt
<1> QED BY <1>2, <1>3, <1>4, <1>5

LEMMA FailureBears ==
  ASSUME Inv, Held, Record, now' = now, NEW w \in Workers,
         WorkerStoreError(w) \/ WorkerReplyLost(w)
  PROVE  Bears(w)
<1>1. /\ Batch(w) \subseteq seen'
      /\ workers[w].pc \in {"remindAudit", "remindJob", "executeAudit"} => Pending(w) \in seen'
      /\ workers[w].pc \in {"executeUpdate", "executeAudit", "executeJob"} =>
            Pending(w) \in Contract!Results'
  BY OthersHold DEF WorkerHolds, Batch, Pending, Inv, TypeOK
<1>2. CASE BeginPass(w, "listReady") \/ EndRun(w)
  BY <1>2, EmptyHandedBears
<1>3. CASE NextExecution(w) \/ \E r : NextReminder(w, Batch(w) \ {r})
  BY <1>1, <1>3, NextBears
<1>4. CASE NextReminder(w, Batch(w))
  BY <1>1, <1>4, NextBears
<1>5. CASE WorkerAt(w, "remindAudit") /\ WorkerGoto(w, "remindJob", Batch(w), Pending(w))
  BY <1>1, <1>5, WorkerGotoBears DEF WorkerAt
<1>6. CASE /\ WorkerAt(w, "executeUpdate") \/ WorkerAt(w, "executeAudit")
           /\ WorkerGoto(w, "executeJob", Batch(w), Pending(w))
  BY <1>1, <1>6, WorkerGotoBears DEF WorkerAt
<1> QED
  BY <1>2, <1>3, <1>4, <1>5, <1>6 DEF WorkerStoreError, WorkerReplyLost

LEMMA WorkerBears ==
  ASSUME Inv, Held, SeenRows, Record, NEW w \in Workers, WorkStep(w) \/ WorkFault(w)
  PROVE  Bears(w) /\ now' = now /\ calls' = calls
<1>1. now' = now /\ calls' = calls
  BY DEF WorkStep, WorkFault
<1>2. Bears(w)
  BY <1>1, ListingBears, RemindBears, PassBears, ExecuteBears, FailureBears
     DEF WorkStep, WorkerStep, WorkFault
<1> QED BY <1>1, <1>2

\* The step of one call, of one worker, or of none, and what all hold after it.
LEMMA CallsKeepHeld ==
  ASSUME Inv, Held, Record, NEW c \in Calls, Carries(c), now' = now, workers' = workers
  PROVE  Held'
<1>1. now' \in Nat /\ now <= now'
  BY DEF Inv, TypeOK
<1>2. ASSUME NEW d \in Calls
      PROVE  CallExpected(calls'[d], seen', Contract!Computed')
  <2>1. CASE d = c
    BY <2>1, CarriedIsExpected
  <2>2. CASE d # c
    BY <1>1, <2>2, OthersHold DEF Carries
  <2> QED BY <2>1, <2>2
<1>3. ASSUME NEW w \in Workers
      PROVE  WorkerHolds(workers'[w], seen', Contract!Results')
  BY <1>1, OthersHold
<1> QED BY <1>2, <1>3 DEF Held

LEMMA WorkersKeepHeld ==
  ASSUME Inv, Held, Record, NEW w \in Workers, Bears(w), now' = now, calls' = calls
  PROVE  Held'
<1>1. now' \in Nat /\ now <= now'
  BY DEF Inv, TypeOK
<1>2. ASSUME NEW c \in Calls
      PROVE  CallExpected(calls'[c], seen', Contract!Computed')
  BY <1>1, OthersHold
<1>3. ASSUME NEW v \in Workers
      PROVE  WorkerHolds(workers'[v], seen', Contract!Results')
  <2>1. CASE v = w
    BY <2>1 DEF Bears, WorkerHolds, Batch, Pending
  <2>2. CASE v # w
    BY <1>1, <2>2, OthersHold DEF Bears
  <2> QED BY <2>1, <2>2
<1> QED BY <1>2, <1>3 DEF Held

LEMMA HeldKeeps ==
  ASSUME Inv, Held, SeenRows, [Next /\ Record]_<<vars, seen, writes>>
  PROVE  Held' /\ SeenRows'
<1>1. CASE UNCHANGED <<vars, seen, writes>>
  <2>1. /\ calls' = calls /\ workers' = workers /\ now' = now /\ seen' = seen
        /\ requests' = requests
    BY <1>1 DEF vars, storeVars
  <2>2. Contract!Computed' = Contract!Computed /\ Contract!Results' = Contract!Results
    BY <2>1 DEF Contract!Computed, Contract!Results, Contract!Changes
  <2> QED BY <2>1, <2>2 DEF Held, SeenRows, Rows, Exists
<1>2. ASSUME Next, Record PROVE Held'
  <2>1. CASE \E c \in Calls : CallStep(c) \/ CallFault(c)
    BY <1>2, <2>1, CallCarries, CallsKeepHeld
  <2>2. CASE \E w \in Workers : WorkStep(w) \/ WorkFault(w)
    BY <1>2, <2>2, WorkerBears, WorkersKeepHeld
  <2>3. CASE Tick
    <3>1. now' \in Nat /\ now <= now' /\ calls' = calls /\ workers' = workers
      BY <2>3 DEF Tick, Inv, TypeOK
    <3> QED BY <1>2, <3>1, OthersHold DEF Held
  <2>4. CASE Restart
    <3>1. now' \in Nat /\ now <= now'
      BY <2>4 DEF Restart, Inv, TypeOK
    <3>2. PICK gone \in SUBSET Workers, cut \in SUBSET {c \in Calls : InFlight(c)} :
              /\ calls' = [c \in Calls |-> IF c \in cut THEN Dropped(c) ELSE calls[c]]
              /\ workers' = [w \in Workers |-> IF w \in gone THEN IdleWorker ELSE workers[w]]
      BY <2>4 DEF Restart
    <3>3. ASSUME NEW c \in Calls
          PROVE  CallExpected(calls'[c], seen', Contract!Computed')
      <4>1. CASE c \in cut
        <5>1. calls'[c].pc = "done"
          BY <3>2, <4>1 DEF Dropped, CallAt
        <5> QED BY <5>1 DEF CallExpected
      <4>2. CASE c \notin cut
        <5>1. calls'[c] = calls[c]
          BY <3>2, <4>2
        <5> QED BY <1>2, <3>1, <5>1, OthersHold
      <4> QED BY <4>1, <4>2
    <3>4. ASSUME NEW w \in Workers
          PROVE  WorkerHolds(workers'[w], seen', Contract!Results')
      <4>1. CASE w \in gone
        BY <3>2, <4>1 DEF IdleWorker, WorkerHolds
      <4>2. CASE w \notin gone
        <5>1. workers'[w] = workers[w]
          BY <3>2, <4>2
        <5> QED BY <1>2, <3>1, <5>1, OthersHold
      <4> QED BY <4>1, <4>2
    <3> QED BY <3>3, <3>4 DEF Held
  <2> QED BY <1>2, <2>1, <2>2, <2>3, <2>4 DEF Next
<1>3. ASSUME Next, Record PROVE SeenRows'
  <2>1. Inv'
    BY <1>3, NextKeeps
  <2>2. Rows' \subseteq Row
    BY <2>1 DEF Inv, TypeOK, Rows, Exists
  <2> QED BY <1>3, <2>2 DEF SeenRows, Record
<1> QED BY <1>1, <1>2, <1>3

\* A reminder is computed when its turn comes.
LEMMA HeldIsExpected ==
  ASSUME Inv, Held, SeenRows
  PROVE  StoreCallsExpected
<1>1. ASSUME NEW w \in Workers
      PROVE  WorkerExpected(workers[w], seen, Contract!Computed, Contract!Results)
  <2>1. WorkerHolds(workers[w], seen, Contract!Results)
    BY DEF Held
  <2>2. ASSUME workers[w].pc = "remind", NEW r \in workers[w].batch
        PROVE  RemindedRow(r, workers[w].pass) \in Contract!Computed
    <3>1. /\ r \in seen /\ r \in Row
          /\ NeedsReminder(r, workers[w].pass) /\ workers[w].pass \in 0..now
      BY <2>1, <2>2, WorkerFacts DEF WorkerHolds, SeenRows, WorkerIsSafe, ReminderPcs
    <3> QED BY <3>1, ChangesAreComputed DEF NeedsReminder
  <2> QED BY <2>1, <2>2 DEF WorkerHolds, WorkerExpected
<1> QED BY <1>1 DEF Held, StoreCallsExpected

\* The contract covers the service: whatever a call or a worker hands to the
\* store, MemoryStoreImplements lets the in-memory store expect it.
THEOREM StoreCallsExpectedHolds == RecordedSpec => []StoreCallsExpected
<1>1. Init /\ seen = Rows => Inv /\ Held /\ SeenRows
  <2> SUFFICES ASSUME Init, seen = Rows PROVE Held /\ SeenRows
    BY InitKeeps
  <2>1. Rows = {}
    BY DEF Init, StoreInit, Rows, Exists
  <2>2. Held
    BY DEF Init, HandlersInit, WorkerInit, IdleCall, IdleWorker, Held, CallExpected,
           WorkerHolds
  <2> QED BY <2>1, <2>2 DEF SeenRows
<1>2. Inv /\ Held /\ SeenRows /\ [Next /\ Record]_<<vars, seen, writes>> =>
          Inv' /\ Held' /\ SeenRows'
  <2>1. [Next /\ Record]_<<vars, seen, writes>> => [Next]_vars
    OBVIOUS
  <2> QED BY <2>1, NextKeeps, HeldKeeps
<1>3. Inv /\ Held /\ SeenRows => StoreCallsExpected
  BY HeldIsExpected
<1> QED BY <1>1, <1>2, <1>3, PTL DEF RecordedSpec

=============================================================================
