----------------------------- MODULE Transitions ----------------------------
(***************************************************************************)
(* The workflow rules of internal/application/service.go as functions of a *)
(* row: what each operation writes back and who may ask for it.  Every     *)
(* operation computes its new row from the row it read earlier, raises the *)
(* version by one and hands both to UpdateRequest.                         *)
(*                                                                         *)
(* A definition called "Faulty..." is a plausible slip in the one after    *)
(* it.  Nothing uses it; the project checks that its properties tell the   *)
(* two apart.                                                              *)
(***************************************************************************)
EXTENDS Domain

CONSTANTS
    DefaultReviewer,  \* config.DefaultReviewerID after NewService's TrimSpace
    ReminderAfter,    \* config.ReminderAfter
    RetryBase,        \* config.ExecutionRetryBase
    MaxAttempts       \* config.ExecutionMaxAttempts, checked positive by Load

ASSUME ConfigAssumption ==
    /\ DefaultReviewer \in Users \cup {NoReviewer}
    /\ ReminderAfter \in Int
    /\ RetryBase \in Int
    /\ MaxAttempts \in Nat \ {0}

\* CreateDraft
DraftRow(id, actor, target) ==
    [id                   |-> id,
     requester_id         |-> actor.id,
     target_resource      |-> target,
     assigned_reviewer_id |-> NoReviewer,
     status               |-> "draft",
     version              |-> 1,
     reminder_count       |-> 0,
     execution_attempts   |-> 0,
     submitted_at         |-> Nil,
     last_reminded_at     |-> Nil,
     next_execution_at    |-> Nil]

\* SubmitRequest
FaultyStatusSubmittedRow(r, t) ==      \* the declared, never assigned status
    [r EXCEPT !.status = "submitted", !.assigned_reviewer_id = DefaultReviewer,
              !.submitted_at = t, !.version = r.version + 1]

SubmittedRow(r, t) ==
    [r EXCEPT !.status               = "pending_review",
              !.assigned_reviewer_id = DefaultReviewer,
              !.submitted_at         = t,
              !.version              = r.version + 1]

\* reviewRequest: an approved request is due for execution at once.
ReviewedRow(r, decision, t) ==
    [r EXCEPT !.status            = decision,
              !.next_execution_at = IF decision = "approved" THEN t ELSE Nil,
              !.version           = r.version + 1]

\* ProcessDueReminders
RemindedRow(r, t) ==
    [r EXCEPT !.reminder_count   = r.reminder_count + 1,
              !.last_reminded_at = t,
              !.version          = r.version + 1]

\* applyExecutionResult: linear backoff until the attempts are used up.
Outcome(success) == IF success THEN "executed" ELSE "execution_failed"

FaultyBudgetSchedule(success, attempts, t) ==
    IF success \/ attempts > MaxAttempts THEN Nil ELSE t + attempts * RetryBase

Schedule(success, attempts, t) ==
    IF success \/ attempts >= MaxAttempts THEN Nil ELSE t + attempts * RetryBase

FaultyAttempts(r) == r.execution_attempts

AttemptsAfter(r) == r.execution_attempts + 1

ExecutionRow(r, success, t) ==
    [r EXCEPT !.status             = Outcome(success),
              !.execution_attempts = AttemptsAfter(r),
              !.next_execution_at  = Schedule(success, AttemptsAfter(r), t),
              !.version            = r.version + 1]

AwaitsExecution(r) == r.status \in {"approved", "execution_failed"}

\* requireOwnedOrAdmin
OwnsOrAdmin(actor, r) == actor.role = "admin" \/ r.requester_id = actor.id

CanReview(actor, r) ==
    \/ actor.role = "admin"
    \/ actor.role = "reviewer" /\ r.assigned_reviewer_id = actor.id

FaultyMayDecide(actor, r) == CanReview(actor, r)

\* canReview and the test that follows it in reviewRequest
MayDecide(actor, r) == CanReview(actor, r) /\ actor.id # r.requester_id

\* the role test of RecordExecutionResult
MayRecordExecution(actor) == actor.role \in {"admin", "reviewer"}

\* SimulatedExecutor.Execute: the outcome depends on the target alone.
ExecutionSucceeds(r) == r.target_resource \notin FailingTargets

\* The selections of ListRequestsNeedingReminder and
\* ListRequestsReadyForExecution (repository/postgres).
NeedsReminder(r, t) ==
    /\ r.status = "pending_review"
    /\ r.submitted_at # Nil
    /\ r.submitted_at <= t - ReminderAfter
    /\ r.last_reminded_at # Nil => r.last_reminded_at <= t - ReminderAfter

ReadyForExecution(r, t) ==
    /\ AwaitsExecution(r)
    /\ r.next_execution_at # Nil
    /\ r.next_execution_at <= t

=============================================================================
