---------------------------- MODULE StoreContract ---------------------------
(***************************************************************************)
(* What the service expects of a repository (the Store interface of        *)
(* internal/application/service.go), as the Postgres store keeps it: the   *)
(* calls the service makes, in the order the store gets them from any      *)
(* number of goroutines, with what they change and answer.  A row the      *)
(* service writes is a change of a row it read at some earlier time.       *)
(***************************************************************************)
EXTENDS Store

CONSTANT Keys         \* idempotency keys

VARIABLES
    seen,             \* history: every row that was ever stored
    answer            \* the answer to the last call

contractVars == <<storeVars, now, seen, answer>>

Init ==
    /\ StoreInit
    /\ seen = {}
    /\ answer = "ok"

\* The changes an operation computes from a row it read.
Changes(r, t) ==
    CASE r.status = "draft" -> {SubmittedRow(r, t)}
      [] r.status = "pending_review" -> {RemindedRow(r, t)} \cup
                                        {ReviewedRow(r, d, t) : d \in Decisions}
      [] AwaitsExecution(r) -> {ExecutionRow(r, success, t) : success \in BOOLEAN}
      [] OTHER -> {}

\* Every row that an operation may have computed by now, stored or not.
Computed == UNION {Changes(r, t) : r \in seen, t \in 0..now}

Results == {row \in Computed : row.status \in {"executed", "execution_failed"}}

Answers(reply) == answer' = reply /\ UNCHANGED now

Stores(row) == seen' = seen \cup {row}

Create(row) == ~Exists(row.id) /\ CreateRequest(row) /\ Stores(row) /\ Answers("ok")

Update(row) ==
    \/ UpdateRequest(row) /\ Stores(row) /\ Answers("ok")
    \/ ~UpdateMatches(row) /\ UNCHANGED <<storeVars, seen>> /\ Answers("conflict")

\* The records about one row and of one kind are numbered as they come.
Numbered(records, row) == Cardinality({e \in records : e.request = row.id}) + 1

Append(row) ==
    /\ UNCHANGED seen
    /\ Answers("ok")
    /\ \/ AppendAudit(row, SystemActor, row.status, Numbered(audit, row))
       \/ CreateReview(row, SystemActor, row.status, Numbered(reviews, row))

\* ProcessDueReminders records what it stored, ProcessDueExecutions what the
\* executor said, whether or not the result was stored.
AppendRun(row) ==
    /\ UNCHANGED seen
    /\ Answers("ok")
    /\ AppendJobRun(row, "execution", row.status, row.execution_attempts,
                    Numbered(jobRuns, row))

Claim(id, key, fingerprint) ==
    /\ UNCHANGED seen
    /\ \/ CreateIdempotency(id, key, fingerprint) /\ Answers("ok")
       \/ GetIdempotency(id, key) # {} /\ UNCHANGED storeVars /\ Answers("conflict")

Tick == now' = now + 1 /\ UNCHANGED <<storeVars, seen, answer>>

Next ==
    \/ \E id \in Ids, actor \in Actors, target \in Targets : Create(DraftRow(id, actor, target))
    \/ \E row \in Computed : Update(row)
    \/ \E row \in seen : Append(row)
    \/ \E row \in seen \cup Results : AppendRun(row)
    \/ \E id \in Ids, key \in Keys, fingerprint \in Users : Claim(id, key, fingerprint)
    \/ Tick

Spec == Init /\ [][Next]_contractVars

=============================================================================
