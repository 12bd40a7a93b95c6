----------------------------- MODULE Properties -----------------------------
(***************************************************************************)
(* What makes the service correct, stated over module System.              *)
(***************************************************************************)
EXTENDS System

L == INSTANCE Lifecycle

Writers == Calls \cup Workers

AuditActions == {"draft_created", "submitted", "review_assigned", "approved",
                 "rejected", "reminder_sent", "execution_succeeded",
                 "execution_failed"}

AuditEntries == [request : Ids, version : Nat, action : AuditActions,
                 actor : Actors \cup {SystemActor}, writer : Writers]

ReviewActions == [request : Ids, version : Nat, decision : Decisions,
                  actor_id : Users, writer : Calls]

IdempotencyRecords == [scope : Ops \X Ids, key : STRING, fingerprint : STRING]

JobRuns == [request : Ids, version : Nat, job_type : {"reminder", "execution"},
            status : {"succeeded", "failed"}, attempt : Nat, writer : Workers]

\* Every variable keeps its type: the shapes of models.go and of the tables,
\* and what the calls and workers hold between two store calls.
TypeOK ==
    /\ requests \in [Ids -> Row \cup {Nil}]
    /\ audit \subseteq AuditEntries
    /\ reviews \subseteq ReviewActions
    /\ idempotency \subseteq IdempotencyRecords
    /\ jobRuns \subseteq JobRuns
    /\ now \in Nat
    /\ calls \in [Calls -> Call]
    /\ workers \in [Workers -> WorkerState]
    /\ executions \in [Workers -> [Ids -> Nat]]
    /\ faults \in Nat

-----------------------------------------------------------------------------
(* Rows in the hands of calls and workers, and the table. *)

\* A row read from or written to the table earlier: the table has it still,
\* or has a later version.
IsVersionOf(row, table) ==
    /\ row # Nil
    /\ table[row.id] # Nil
    /\ row.version <= table[row.id].version
    /\ row.version = table[row.id].version => row = table[row.id]

\* What one operation may make of a row by a given time.
IsTransition(old, new, time) ==
    \/ old.status = "draft" /\ \E t \in 0..time : new = SubmittedRow(old, t)
    \/ /\ old.status = "pending_review"
       /\ \E t \in 0..time, decision \in Decisions : new = ReviewedRow(old, decision, t)
    \/ \E t \in 0..time : NeedsReminder(old, t) /\ new = RemindedRow(old, t)
    \/ /\ AwaitsExecution(old)
       /\ \E t \in 0..time, success \in BOOLEAN : new = ExecutionRow(old, success, t)

\* A row about to be written: if the version check lets it through, it is a
\* transition of the very row it replaces.
IsSafeWrite(row, table, time) ==
    /\ row # Nil
    /\ table[row.id] # Nil
    /\ row.version - 1 <= table[row.id].version
    /\ row.version - 1 = table[row.id].version => IsTransition(table[row.id], row, time)

\* A draft about to be inserted has its identifier to itself.
IsNewDraft(c) ==
    /\ \E actor \in Actors, target \in Targets :
           RowOf(c) = DraftRow(calls[c].id, actor, target)
    /\ ~Exists(calls[c].id)
    /\ \A d \in Calls \ {c} : At(d, "create") => calls[d].id # calls[c].id

CallIsSafe(call, table, time) ==
    /\ call.pc \in StorePcs => call.msg \in Traffic /\ call.id \in Ids
    /\ call.pc \in {"lookup", "claim", "recheck", "reload", "replayLookup",
                    "replayClaim", "review", "audit", "auditAssigned"}
          => IsVersionOf(call.row, table)
    /\ call.pc \in {"lookup", "claim"} =>
          \/ call.msg.op = "submit"
          \/ call.msg.op \in Decisions /\ call.row.status = "pending_review"
    /\ call.pc = "review" => call.msg.op \in Decisions
    /\ call.pc = "update" => IsSafeWrite(call.row, table, time)

ReminderPcs == {"remind", "remindAudit", "remindJob"}
ExecutionPcs == {"execute", "executeUpdate", "executeAudit", "executeJob"}

WorkerIsSafe(worker, table, time) ==
    /\ worker.batch # {} => worker.pc \in ReminderPcs \cup ExecutionPcs
    /\ \A r \in worker.batch : IsVersionOf(r, table)
    /\ worker.pass <= time
    /\ worker.pc \in ReminderPcs => \A r \in worker.batch : NeedsReminder(r, worker.pass)
    /\ worker.pc \in ExecutionPcs => \A r \in worker.batch : AwaitsExecution(r)
    /\ worker.pc \in {"remindAudit", "remindJob", "executeAudit"} =>
          IsVersionOf(worker.row, table)
    /\ worker.pc = "executeUpdate" => IsSafeWrite(worker.row, table, time)
    /\ worker.pc = "executeJob" => worker.row # Nil

\* No lost update: every row a call or a worker carries across a store call
\* is a version of the stored row, and what it is about to write is, whenever
\* the WHERE clause of UpdateRequest lets it through, a legal transition of
\* the row stored at that moment, whoever changed the request in between.
NoLostUpdate ==
    /\ \A id \in Ids : Exists(id) => requests[id].id = id
    /\ \A c \in Calls : CallIsSafe(calls[c], requests, now)
    /\ \A c \in Calls : At(c, "create") => IsNewDraft(c)
    /\ \A w \in Workers : WorkerIsSafe(workers[w], requests, now)

\* The service implements the atomic lifecycle of a request: every change of
\* the table is one whole transition computed from the current row.
RefinesLifecycle == L!Spec

\* A rejected or executed request is final, and no change skips a version or
\* touches who asked for what.
KeepsHistory ==
    \A id \in Ids : Exists(id) /\ requests'[id] # requests[id] =>
        /\ requests[id].status \notin {"rejected", "executed"}
        /\ requests'[id].version = requests[id].version + 1
        /\ requests'[id].requester_id = requests[id].requester_id
        /\ requests'[id].target_resource = requests[id].target_resource

HistoryIsKept == [][KeepsHistory]_vars

-----------------------------------------------------------------------------
(* Decisions and idempotency keys. *)

\* "If two reviewers race on the same request, only one update should win"
\* (docs/failure-scenarios.md): a request has at most one review, the one its
\* status tells of, although the review is inserted after the update and the
\* process may stop in between.
OneDecision ==
    \A v \in reviews :
        /\ \A u \in reviews : u.request = v.request => u = v
        /\ requests[v.request].status \in
               IF v.decision = "rejected" THEN {"rejected"}
               ELSE {"approved", "executed", "execution_failed"}

\* Nobody decides on a request of their own, and only an admin or the
\* assigned reviewer decides: the permission checked on an old snapshot still
\* holds of the row the decision ended up in.
DecidedByReviewer ==
    \A e \in audit : e.action \in Decisions =>
        LET r == requests[e.request]
        IN  /\ e.actor.id # r.requester_id
            /\ \/ e.actor.role = "admin"
               \/ e.actor.role = "reviewer" /\ e.actor.id = r.assigned_reviewer_id

\* Past the insert of ensureIdempotency a call holds its key.
HoldsKey(c) ==
    /\ Op(c) \in Decisions \cup {"submit"}
    /\ calls[c].pc \in {"update", "review", "audit", "auditAssigned"}

\* Two calls with the same key for the same operation on the same request are
\* never both on their way to change it, however their lookups and inserts
\* interleave.
KeyHeldOnce ==
    \A c, d \in Calls :
        /\ c # d
        /\ InFlight(c) /\ InFlight(d)
        /\ HoldsKey(c) /\ HoldsKey(d)
        => <<Scope(c), Key(c)>> # <<Scope(d), Key(d)>>

\* What a call asked for has happened, or another call with its key is still
\* at it.
Before(op) == IF op = "submit" THEN {"draft"} ELSE {"draft", "pending_review"}

ChangeHappened(c) ==
    \/ requests[calls[c].id].status \notin Before(Op(c))
    \/ \E d \in Calls \ {c} :
          /\ InFlight(d) /\ HoldsKey(d)
          /\ <<Scope(d), Key(d)>> = <<Scope(c), Key(c)>>

\* README: "Idempotent submit, approve, and reject actions": a submission or a
\* decision that was answered with success has happened; the UI tells its user
\* "Request approved" after a 2xx answer.
AcknowledgedChangeHappens ==
    \A c \in Calls :
        calls[c].result = "ok" /\ Op(c) \in Decisions \cup {"submit"} => ChangeHappened(c)

\* A successful answer carries a request.
SuccessCarriesRequest == \A c \in Calls : calls[c].result # "empty"

\* docs/failure-scenarios.md: "A replay of the same action returns the current
\* request state": once a decision was acknowledged, the same call that reaches
\* the request again is not refused.
ReplayIsAnswered ==
    [][\A c, d \in Calls :
          /\ calls[c].result = "ok" /\ Op(c) \in Decisions
          /\ At(d, "load") /\ calls[d].msg = calls[c].msg /\ calls[d].id = calls[c].id
          => calls'[d].result # "conflict"]_vars

-----------------------------------------------------------------------------
(* The audit log. *)

\* Who still owes the audit entry of the current or an earlier version.
OwesAudit(id, version) ==
    \/ \E c \in Calls :
          /\ calls[c].pc \in {"review", "audit"}
          /\ RowOf(c).id = id /\ RowOf(c).version = version
    \/ \E w \in Workers :
          /\ workers[w].pc \in {"remindAudit", "executeAudit"}
          /\ Pending(w).id = id /\ Pending(w).version = version

Audited(id, version) == \E e \in audit : e.request = id /\ e.version = version

\* Every version a request went through has its entry, or somebody is on the
\* way to write it.
EveryTransitionAudited ==
    \A id \in Ids : Exists(id) =>
        \A v \in 1..requests[id].version : Audited(id, v) \/ OwesAudit(id, v)

\* No version of a request goes without its audit entry as long as no store call
\* fails and no process stops, whatever calls and workers interleave.
AuditComplete == faults = 0 => EveryTransitionAudited

\* README: "Audit trail for every transition" and "every transition is
\* persisted and appended to the audit log": when an approval or a rejection
\* was answered with success and the request has that status, the log tells of
\* it, or the call that made the change is about to write the entry.
AcknowledgedIsAudited ==
    \A c \in Calls :
        LET r == requests[calls[c].id]
        IN  calls[c].result = "ok" /\ Op(c) \in Decisions /\ r.status = Op(c)
               => \/ \E e \in audit : e.request = r.id /\ e.action = Op(c)
                  \/ OwesAudit(r.id, r.version)

\* The log never tells of a change that did not happen, and never attributes
\* one change to two writers: each version was made by one call or worker.
AuditIsTruthful ==
    \A e \in audit :
        /\ Exists(e.request)
        /\ e.version <= requests[e.request].version
        /\ \A f \in audit : f.request = e.request /\ f.version = e.version =>
              /\ f.writer = e.writer
              /\ {e.action, f.action} \in
                     {{e.action}, {"submitted", "review_assigned"}}

-----------------------------------------------------------------------------
(* The worker. *)

\* A request is scheduled exactly while it is approved or failed with budget
\* left: whatever interleaves, no request that should be retried drops out of
\* the worker's query and none comes back to it.
ScheduledRight(r) ==
    (r.next_execution_at # Nil) <=>
        \/ r.status = "approved"
        \/ r.status = "execution_failed" /\ r.execution_attempts < MaxAttempts

ScheduleMatchesStatus == \A id \in Ids : Exists(id) => ScheduledRight(requests[id])

\* Two reminders of one request, and its submission and the first, are at
\* least ReminderAfter apart, however many workers list it at once.
SpacesReminders ==
    \A id \in Ids :
        Exists(id) /\ requests'[id].reminder_count > requests[id].reminder_count =>
            LET t == requests'[id].last_reminded_at - ReminderAfter
            IN  /\ requests[id].status = "pending_review"
                /\ requests[id].submitted_at <= t
                /\ requests[id].last_reminded_at # Nil =>
                      requests[id].last_reminded_at <= t

RemindersAreSpaced == [][SpacesReminders]_vars

\* Each worker calls the executor at most once for each attempt the row counts,
\* and once more for every failure and for the result it is about to write,
\* however old the row is it has listed and whoever reports results in its
\* place: nobody provisions behind the row's back.
Attempts(id) == IF Exists(id) THEN requests[id].execution_attempts ELSE 0

HoldsResult(w, id) == WorkerAt(w, "executeUpdate") /\ Pending(w).id = id

ExecutionsAreCounted ==
    \A w \in Workers, id \in Ids :
        executions[w][id] <=
            Attempts(id) + faults + (IF HoldsResult(w, id) THEN 1 ELSE 0)

\* README: "execution failures are retried with bounded attempts": each worker
\* calls the executor at most MaxAttempts times for a request, and once more
\* for every failure that kept a result from being written.
ExecutionsAreBounded ==
    \A w \in Workers, id \in Ids : executions[w][id] <= MaxAttempts + faults

\* With one worker, no failures and nobody reporting results by hand, every
\* execution attempt of the row, and every reminder, has its job run, written
\* or on the way, and the run that is said to have succeeded is the last one.
JobRunsAgree ==
    \A id \in Ids : Exists(id) =>
        LET runs(type) == {j \in jobRuns : j.request = id /\ j.job_type = type}
            owed(pcs) == {w \in Workers : workers[w].pc \in pcs /\ Pending(w).id = id}
            r == requests[id]
        IN  /\ Cardinality(runs("reminder"))
                 + Cardinality(owed({"remindAudit", "remindJob"})) = r.reminder_count
            /\ Cardinality(runs("execution"))
                 + Cardinality(owed({"executeAudit", "executeJob"})) = r.execution_attempts
            /\ \A j \in runs("execution") :
                  (j.status = "succeeded") <=>
                      r.status = "executed" /\ j.attempt = r.execution_attempts

\* A due request does not stay due: the worker gets to it whatever the other
\* requests, callers and finitely many failures do.  Others can only come before
\* it a bounded number of times, as each has bounded attempts.
DueForExecution(id) == Exists(id) /\ ReadyForExecution(requests[id], now)

DueExecutionsHappen == \A id \in Ids : DueForExecution(id) ~> ~DueForExecution(id)

\* The same of reminders, as long as the others come due again no more than
\* finitely often before the worker gets to a request (the clock has a bound):
\* a refused, failed or crowded-out reminder is made up for.  A worker that is
\* outrun for ever, by more due requests than a batch holds in every interval,
\* reminds of the oldest submissions only.
DueForReminder(id) == Exists(id) /\ NeedsReminder(requests[id], now)

DueRemindersHappen == \A id \in Ids : DueForReminder(id) ~> ~DueForReminder(id)

=============================================================================
