----------------------------- MODULE MemoryStore ----------------------------
(***************************************************************************)
(* The in-memory store of the tests (internal/repository/memory/store.go): *)
(* maps and slices behind one mutex, so that every method is one atomic    *)
(* step.  It is driven by the same calls as module StoreContract, which it *)
(* is shown to implement; where its listings differ from those of Postgres *)
(* is stated exactly.                                                      *)
(***************************************************************************)
EXTENDS Transitions, Sequences, FiniteSets

CONSTANTS
    Keys,             \* idempotency keys
    MaxVersion,       \* bound on the versions of a row
    MaxEntries,       \* bound on the entries and records together
    MaxTime           \* bound on the clock

VARIABLES
    requests,         \* map[string]domain.Request: a function on some ids
    audit,            \* map[string][]..., a missing slice being empty
    reviews,
    jobRuns,
    idempotency,      \* map by scope and key
    now, seen, answer \* the clock, and the history of StoreContract

ASSUME MemoryAssumption == MaxVersion \in Nat /\ MaxEntries \in Nat /\ MaxTime \in Nat

maps == <<requests, audit, reviews, jobRuns, idempotency>>
vars == <<maps, now, seen, answer>>

V == INSTANCE Visibility

\* NewStore
Init ==
    /\ requests = [id \in {} |-> Nil]
    /\ audit = [id \in Ids |-> <<>>]
    /\ reviews = [id \in Ids |-> <<>>]
    /\ jobRuns = [id \in Ids |-> <<>>]
    /\ idempotency = [claim \in {} |-> Nil]
    /\ now = 0
    /\ seen = {}
    /\ answer = "ok"

With(map, key, value) ==
    [k \in DOMAIN map \cup {key} |-> IF k = key THEN value ELSE map[k]]

Answers(reply) == answer' = reply /\ UNCHANGED now

Stores(row) == seen' = seen \cup {row}

-----------------------------------------------------------------------------
(* The methods that write. *)

\* Overwrites what is there; the service creates under fresh identifiers.
CreateRequest(row) ==
    /\ requests' = With(requests, row.id, row)
    /\ Stores(row)
    /\ Answers("ok")
    /\ UNCHANGED <<audit, reviews, jobRuns, idempotency>>

FaultyUpdateAnswer(row) ==      \* an older version is accepted as well
    CASE row.id \notin DOMAIN requests -> "not_found"
      [] row.id \in DOMAIN requests /\ requests[row.id].version < row.version - 1 -> "conflict"
      [] OTHER -> "ok"

UpdateAnswer(row) ==
    CASE row.id \notin DOMAIN requests -> "not_found"
      [] row.id \in DOMAIN requests /\ requests[row.id].version # row.version - 1 -> "conflict"
      [] OTHER -> "ok"

UpdateRequest(row) ==
    /\ Answers(UpdateAnswer(row))
    /\ UNCHANGED <<audit, reviews, jobRuns, idempotency>>
    /\ \/ /\ UpdateAnswer(row) = "ok"
          /\ requests' = With(requests, row.id, row)
          /\ Stores(row)
       \/ UpdateAnswer(row) # "ok" /\ UNCHANGED <<requests, seen>>

AppendTo(log, row, entry) == [log EXCEPT ![row.id] = Append(@, entry)]

AppendAudit(row) ==
    /\ audit' = AppendTo(audit, row,
          [version |-> row.version, action |-> row.status, actor |-> SystemActor])
    /\ Answers("ok")
    /\ UNCHANGED <<requests, reviews, jobRuns, idempotency, seen>>

CreateReview(row) ==
    /\ reviews' = AppendTo(reviews, row,
          [version |-> row.version, decision |-> row.status, actor_id |-> SystemActor.id])
    /\ Answers("ok")
    /\ UNCHANGED <<requests, audit, jobRuns, idempotency, seen>>

AppendJobRun(row) ==
    /\ jobRuns' = AppendTo(jobRuns, row,
          [version |-> row.version, job_type |-> "execution", status |-> row.status,
           attempt |-> row.execution_attempts])
    /\ Answers("ok")
    /\ UNCHANGED <<requests, audit, reviews, idempotency, seen>>

\* The key of the map is scope, "|" and key; no scope has a "|" in it.
CreateIdempotency(scope, key, fingerprint) ==
    /\ UNCHANGED <<requests, audit, reviews, jobRuns, seen>>
    /\ \/ /\ <<scope, key>> \notin DOMAIN idempotency
          /\ idempotency' = With(idempotency, <<scope, key>>, fingerprint)
          /\ Answers("ok")
       \/ /\ <<scope, key>> \in DOMAIN idempotency
          /\ UNCHANGED idempotency
          /\ Answers("conflict")

-----------------------------------------------------------------------------
(* The methods that list, over a map whose order of iteration is random. *)

Rows == {requests[id] : id \in DOMAIN requests}

FaultyListRequests(filter) ==      \* one of the conditions is enough
    {r \in Rows : \/ filter.requester_id = r.requester_id
                  \/ filter.reviewer_id = r.assigned_reviewer_id
                  \/ filter.status = r.status}

ListRequests(filter) ==
    {r \in Rows :
        /\ filter.requester_id # V!NoFilter => r.requester_id = filter.requester_id
        /\ filter.reviewer_id # V!NoFilter => r.assigned_reviewer_id = filter.reviewer_id
        /\ filter.status # V!NoFilter => r.status = filter.status}

\* The loop stops at the limit; a limit that is not positive is none.
FaultyTaken(due, limit) ==      \* ">" for ">=" in that test
    {batch \in SUBSET due :
        Cardinality(batch) = IF limit <= 0 \/ Cardinality(due) <= limit
                             THEN Cardinality(due) ELSE limit + 1}

Taken(due, limit) ==
    {batch \in SUBSET due :
        Cardinality(batch) = IF limit <= 0 \/ Cardinality(due) < limit
                             THEN Cardinality(due) ELSE limit}

FaultyNeedingReminder(before) ==      \* submitted long ago is enough
    {r \in Rows : /\ r.status = "pending_review"
                  /\ r.submitted_at # Nil
                  /\ r.submitted_at <= before}

\* !LastRemindedAt.Before(before) is skipped.
NeedingReminder(before) ==
    {r \in Rows : /\ r.status = "pending_review"
                  /\ r.submitted_at # Nil
                  /\ r.submitted_at <= before
                  /\ r.last_reminded_at # Nil => r.last_reminded_at < before}

ListRequestsNeedingReminder(before, limit) == Taken(NeedingReminder(before), limit)

Ready(before) ==
    {r \in Rows : /\ r.status \in {"approved", "execution_failed"}
                  /\ r.next_execution_at # Nil
                  /\ r.next_execution_at <= before}

ListRequestsReadyForExecution(before, limit) == Taken(Ready(before), limit)

-----------------------------------------------------------------------------
(* The store under the calls of the service, and the tables it stands for. *)

Numbered(log, Record(_, _, _)) ==
    UNION {{Record(id, n, log[id][n]) : n \in DOMAIN log[id]} : id \in Ids}

AuditTable == Numbered(audit, LAMBDA id, n, e :
    [request |-> id, version |-> e.version, action |-> e.action, actor |-> e.actor,
     writer |-> n])

ReviewTable == Numbered(reviews, LAMBDA id, n, e :
    [request |-> id, version |-> e.version, decision |-> e.decision,
     actor_id |-> e.actor_id, writer |-> n])

JobRunTable == Numbered(jobRuns, LAMBDA id, n, e :
    [request |-> id, version |-> e.version, job_type |-> e.job_type,
     status |-> e.status, attempt |-> e.attempt, writer |-> n])

KeyTable ==
    {[scope |-> claim[1], key |-> claim[2], fingerprint |-> idempotency[claim]]
     : claim \in DOMAIN idempotency}

Pg == INSTANCE StoreContract WITH
    requests <- [id \in Ids |-> IF id \in DOMAIN requests THEN requests[id] ELSE Nil],
    audit <- AuditTable,
    reviews <- ReviewTable,
    jobRuns <- JobRunTable,
    idempotency <- KeyTable

Entries == Cardinality(AuditTable) + Cardinality(ReviewTable) +
           Cardinality(JobRunTable) + Cardinality(KeyTable)

Tick == now < MaxTime /\ now' = now + 1 /\ UNCHANGED <<maps, seen, answer>>

Next ==
    \/ \E id \in Ids \ DOMAIN requests, actor \in Actors, target \in Targets :
           CreateRequest(DraftRow(id, actor, target))
    \/ \E row \in Pg!Computed : row.version <= MaxVersion /\ UpdateRequest(row)
    \/ /\ Entries < MaxEntries
       /\ \/ \E row \in seen : AppendAudit(row) \/ CreateReview(row)
          \/ \E row \in seen \cup Pg!Results : AppendJobRun(row)
          \/ \E id \in Ids, key \in Keys, fingerprint \in Users :
                 CreateIdempotency(id, key, fingerprint)
    \/ Tick

Spec == Init /\ [][Next]_vars

-----------------------------------------------------------------------------
(* Properties. *)

\* Whatever the service writes, the two stores change alike and answer alike:
\* a stale update is refused, a key is claimed once, nothing appended is lost.
\* This is what the tests of the service rely on when they run on this store.
MemoryImplementsPostgres == Pg!Spec

\* Every filter selects the same requests from both stores (ListRequests).
ListingsAgree ==
    \A filter \in V!RequestFilters :
        ListRequests(filter) = {r \in Rows : V!Selects(filter, r)}

\* The worker is handed due executions of the same requests at every time
\* (ListRequestsReadyForExecution); but this store takes any of them when there
\* are more than the limit, Postgres those that have been due for longest.
ExecutionsListedAlike ==
    \A t \in 0..MaxTime, limit \in 1..Cardinality(Ids) :
        LET here == ListRequestsReadyForExecution(t, limit)
            there == Pg!ListRequestsReadyForExecution(t, limit)
        IN  there \subseteq here /\ (Cardinality(Ready(t)) <= limit => here = there)

\* Due reminders differ at one moment: a request reminded exactly ReminderAfter
\* ago is due in Postgres ("<=") and not yet here (!Before), and every other one
\* is listed by both or by neither (ListRequestsNeedingReminder).
RemindersListedAlike ==
    \A t \in 0..MaxTime :
        NeedingReminder(t - ReminderAfter) =
            {r \in Rows : NeedsReminder(r, t) /\ r.last_reminded_at # t - ReminderAfter}

=============================================================================
