-------------------------------- MODULE Store -------------------------------
(***************************************************************************)
(* The Postgres store (internal/repository/postgres/store.go over          *)
(* db/migrations/000001_init.sql).  Each method is one SQL statement and   *)
(* so one atomic step; nothing spans two of them.  The tables that only    *)
(* grow are sets of records.  Two fields are history the tables do not     *)
(* have: "writer" is the call or worker that inserted the record (the      *)
(* tables have a random id there), and "version" the version of the row    *)
(* the insert was made for.  Two records are one here only if a worker     *)
(* records the same attempt twice, because an update failed in between.    *)
(***************************************************************************)
EXTENDS Transitions, FiniteSets

VARIABLES
    requests,         \* requests: id -> row, Nil when there is none
    audit,            \* request_audit_logs
    reviews,          \* request_reviews
    idempotency,      \* idempotency_keys, primary key (scope, key)
    jobRuns,          \* job_runs
    now               \* the wall clock every process reads (Service.now)

storeVars == <<requests, audit, reviews, idempotency, jobRuns>>

StoreInit ==
    /\ requests = [id \in Ids |-> Nil]
    /\ audit = {}
    /\ reviews = {}
    /\ idempotency = {}
    /\ jobRuns = {}
    /\ now = 0

Exists(id) == requests[id] # Nil

CreateRequest(row) ==
    /\ requests' = [requests EXCEPT ![row.id] = row]
    /\ UNCHANGED <<audit, reviews, idempotency, jobRuns>>

\* WHERE id = $1 AND version = $19.  The expected version every caller
\* passes is that of the row it read, one less than that of the row it
\* writes.
FaultyUpdateMatches(row) == Exists(row.id)      \* no version in the WHERE

UpdateMatches(row) ==
    /\ Exists(row.id)
    /\ requests[row.id].version = row.version - 1

UpdateRequest(row) ==
    /\ UpdateMatches(row)
    /\ requests' = [requests EXCEPT ![row.id] = row]
    /\ UNCHANGED <<audit, reviews, idempotency, jobRuns>>

\* auditFor and AppendAudit.  The entry is stamped right before its insert, so
\* that ListAudit, which sorts by created_at, shows the entries in the order of
\* these steps.
AppendAudit(row, actor, action, writer) ==
    /\ audit' = audit \cup {[request |-> row.id, version |-> row.version,
                             action |-> action, actor |-> actor,
                             writer |-> writer]}
    /\ UNCHANGED <<requests, reviews, idempotency, jobRuns>>

CreateReview(row, actor, decision, writer) ==
    /\ reviews' = reviews \cup {[request |-> row.id, version |-> row.version,
                                 decision |-> decision, actor_id |-> actor.id,
                                 writer |-> writer]}
    /\ UNCHANGED <<requests, audit, idempotency, jobRuns>>

\* GetIdempotency: the records of a scope and key, at most one.
GetIdempotency(scope, key) ==
    {rec \in idempotency : rec.scope = scope /\ rec.key = key}

FaultyCreateIdempotency(scope, key, fingerprint) ==      \* an upsert
    /\ idempotency' = (idempotency \ GetIdempotency(scope, key)) \cup
          {[scope |-> scope, key |-> key, fingerprint |-> fingerprint]}
    /\ UNCHANGED <<requests, audit, reviews, jobRuns>>

\* ON CONFLICT DO NOTHING: the caller sees ErrConflict when there was one.
CreateIdempotency(scope, key, fingerprint) ==
    /\ GetIdempotency(scope, key) = {}
    /\ idempotency' = idempotency \cup {[scope |-> scope, key |-> key,
                                         fingerprint |-> fingerprint]}
    /\ UNCHANGED <<requests, audit, reviews, jobRuns>>

AppendJobRun(row, jobType, status, attempt, writer) ==
    /\ jobRuns' = jobRuns \cup {[request |-> row.id, version |-> row.version,
                                 job_type |-> jobType, status |-> status,
                                 attempt |-> attempt, writer |-> writer]}
    /\ UNCHANGED <<requests, audit, reviews, idempotency>>

Rows == {requests[id] : id \in {i \in Ids : Exists(i)}}

\* ORDER BY the column, LIMIT: the sets of rows the database may return.  A
\* batch is worked off in that order; rows of equal times in any order.
Batches(due, column, limit) ==
    {batch \in SUBSET due :
        /\ Cardinality(batch) = IF Cardinality(due) < limit
                                THEN Cardinality(due) ELSE limit
        /\ \A r \in batch, q \in due \ batch : r[column] <= q[column]}

NextOf(batch, column) == {r \in batch : \A q \in batch : r[column] <= q[column]}

FaultyAgeReminders(t, limit) ==      \* "now" in place of the cut-off
    Batches({r \in Rows : NeedsReminder(r, t + ReminderAfter)}, "submitted_at", limit)

FaultyFirstReminders(t, limit) ==      \* the limit comes before the filter
    {{r \in batch : NeedsReminder(r, t)} :
        batch \in Batches({r \in Rows : r.status = "pending_review"}, "submitted_at", limit)}

ListRequestsNeedingReminder(t, limit) ==
    Batches({r \in Rows : NeedsReminder(r, t)}, "submitted_at", limit)

FaultyFirstReady(t, limit) ==      \* rows without a time count, and come first
    LET spent == Cardinality({r \in Rows : /\ r.status = "execution_failed"
                                           /\ r.next_execution_at = Nil})
    IN  Batches({r \in Rows : ReadyForExecution(r, t)}, "next_execution_at",
                IF spent < limit THEN limit - spent ELSE 0)

ListRequestsReadyForExecution(t, limit) ==
    Batches({r \in Rows : ReadyForExecution(r, t)}, "next_execution_at", limit)

=============================================================================
