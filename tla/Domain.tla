------------------------------- MODULE Domain -------------------------------
(***************************************************************************)
(* The data of the review workflow: roles, statuses, actors and the row of *)
(* the "requests" table (internal/domain/models.go).  A row keeps the      *)
(* columns some guard or some later update reads; the columns that are     *)
(* only written and shown (type, justification, created_at, updated_at,    *)
(* approved_at, reviewed_at, executed_at, last_execution_error) are left   *)
(* out.  Field names are those of the table and of the JSON encoding.      *)
(***************************************************************************)
EXTENDS Integers

CONSTANTS
    Ids,              \* request identifiers (domain.NewID: never drawn twice)
    Users,            \* user identifiers, non-blank strings
    Targets,          \* non-blank target resources
    FailingTargets,   \* the targets whose provisioning fails
    Nil               \* a nil *time.Time, an absent row, an empty response

NoReviewer == ""      \* assigned_reviewer_id before submit

Roles == {"employee", "reviewer", "admin"}

Statuses == {"draft", "pending_review", "approved", "rejected", "executed",
             "execution_failed"}

Decisions == {"approved", "rejected"}

\* The actors that pass domain.ValidateActor: the others are refused by
\* actorFromRequest before any handler runs.
Actors == [id : Users, role : Roles]

SystemActor == [id |-> "system", role |-> "admin"]

Times == Int \cup {Nil}

Row == [id                   : Ids,
        requester_id         : Users,
        target_resource      : Targets,
        assigned_reviewer_id : Users \cup {NoReviewer},
        status               : Statuses,
        version              : Nat,
        reminder_count       : Nat,
        execution_attempts   : Nat,
        submitted_at         : Times,
        last_reminded_at     : Times,
        next_execution_at    : Times]

ASSUME NilAssumption == Nil \notin Int /\ Nil \notin Row

ASSUME UsersAssumption == Users \subseteq STRING \ {""}

ASSUME TargetsAssumption ==
    /\ Targets \subseteq STRING \ {""}
    /\ FailingTargets \subseteq Targets

=============================================================================
