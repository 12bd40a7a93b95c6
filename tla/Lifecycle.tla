------------------------------ MODULE Lifecycle -----------------------------
(***************************************************************************)
(* What the workflow promises about a request, with every operation one    *)
(* atomic step on the table of requests: the state machine of the README   *)
(* ("draft -> pending_review -> approved | rejected -> executed |          *)
(* execution_failed"), every change computed from the row as it is at that *)
(* moment and stamped with a time the clock has shown.  There are no       *)
(* calls, no snapshots, no workers and no failures here: module System     *)
(* shows that the service implements this in spite of them.                *)
(***************************************************************************)
EXTENDS Transitions

VARIABLES
    requests,         \* the table: a row or Nil for every id
    now               \* the wall clock

Init ==
    /\ requests = [id \in Ids |-> Nil]
    /\ now = 0

Change(id, row) == requests' = [requests EXCEPT ![id] = row] /\ UNCHANGED now

Create(id) ==
    /\ requests[id] = Nil
    /\ \E actor \in Actors, target \in Targets :
           Change(id, DraftRow(id, actor, target))

Submit(id) ==
    /\ requests[id] # Nil
    /\ requests[id].status = "draft"
    /\ \E t \in 0..now : Change(id, SubmittedRow(requests[id], t))

Review(id) ==
    /\ requests[id] # Nil
    /\ requests[id].status = "pending_review"
    /\ \E t \in 0..now, decision \in {"approved", "rejected"} :
           Change(id, ReviewedRow(requests[id], decision, t))

Remind(id) ==
    /\ requests[id] # Nil
    /\ \E t \in 0..now :
           /\ NeedsReminder(requests[id], t)
           /\ Change(id, RemindedRow(requests[id], t))

RecordExecution(id) ==
    /\ requests[id] # Nil
    /\ AwaitsExecution(requests[id])
    /\ \E t \in 0..now, success \in BOOLEAN :
           Change(id, ExecutionRow(requests[id], success, t))

Tick == now' = now + 1 /\ UNCHANGED requests

Next ==
    \/ \E id \in Ids : \/ Create(id)
                       \/ Submit(id)
                       \/ Review(id)
                       \/ Remind(id)
                       \/ RecordExecution(id)
    \/ Tick

vars == <<requests, now>>

Spec == Init /\ [][Next]_vars

=============================================================================
