------------------------------ MODULE Handlers ------------------------------
(***************************************************************************)
(* The HTTP calls that change state (internal/transport/http/server.go)    *)
(* and the service methods behind them (internal/application/service.go).  *)
(* A call is a goroutine that alternates between one store call and local  *)
(* code; a step is one store call with the local code up to the next, and  *)
(* "pc" names the store call that comes next.  Any number of calls are     *)
(* under way at once.  The time an operation writes into its row is read   *)
(* when the store call before the update returns, and is as old as the     *)
(* update is late.                                                         *)
(***************************************************************************)
EXTENDS Store

CONSTANTS
    Calls,            \* the HTTP calls the clients make, retries included
    Traffic           \* the messages they may carry

Ops == {"create", "submit", "execution"} \cup Decisions

\* The actor from the headers, the trimmed Idempotency-Key and what the body
\* says: the target of a draft, the comment of a review, the outcome of an
\* execution.
Messages == [op : Ops, actor : Actors, key : STRING, payload : STRING]

ASSUME TrafficAssumption ==
    /\ Traffic \subseteq Messages
    /\ \A m \in Traffic :
          /\ m.op = "create" => m.payload \in Targets \cup {""}
          /\ m.op = "execution" => m.payload \in {"success", "failure"}

VARIABLE calls        \* the state of every call

\* The store calls, in the order a call may reach them.
StorePcs == {"create", "load", "lookup", "claim", "recheck", "reload",
             "replayLookup", "replayClaim", "update", "review", "audit",
             "auditAssigned"}

\* "ok" is a 2xx answer with a request, "empty" a 2xx answer with a zero
\* request, "lost" the end of a call whose process went down.
Results == {"none", "ok", "empty", "invalid_input", "forbidden", "not_found",
            "conflict", "key_used", "error", "lost"}

Call == [pc     : StorePcs \cup {"idle", "done"},
         msg    : Traffic \cup {Nil},
         id     : Ids \cup {Nil},
         row    : Row \cup {Nil},    \* the request in the Go variable "req"
         result : Results]

IdleCall == [pc |-> "idle", msg |-> Nil, id |-> Nil, row |-> Nil,
             result |-> "none"]

HandlersInit == calls = [c \in Calls |-> IdleCall]

At(c, pc) == calls[c].pc = pc
InFlight(c) == calls[c].pc \in StorePcs
Op(c) == calls[c].msg.op
ActorOf(c) == calls[c].msg.actor
Key(c) == calls[c].msg.key
RowOf(c) == calls[c].row

CallAt(c, pc, row, result) == [pc |-> pc, msg |-> calls[c].msg, id |-> calls[c].id,
                               row |-> row, result |-> result]

Goto(c, pc, row) == calls' = [calls EXCEPT ![c] = CallAt(c, pc, row, "none")]

Finish(c, result, row) == calls' = [calls EXCEPT ![c] = CallAt(c, "done", row, result)]

Fail(c, result) == UNCHANGED storeVars /\ Finish(c, result, Nil)

-----------------------------------------------------------------------------
(* Arrival of a call, with the checks made before the first store call. *)

Begin(c, m, id, pc, row) ==
    /\ At(c, "idle")
    /\ UNCHANGED storeVars
    /\ calls' = [calls EXCEPT ![c] = [pc |-> pc, msg |-> m, id |-> id,
                                      row |-> row, result |-> "none"]]

Refuse(c, m, id, result) ==
    /\ At(c, "idle")
    /\ UNCHANGED storeVars
    /\ calls' = [calls EXCEPT ![c] = [pc |-> "done", msg |-> m, id |-> id,
                                      row |-> Nil, result |-> result]]

\* domain.NewID draws 64 random bits.
FreshId(id) ==
    /\ ~Exists(id)
    /\ \A d \in Calls : InFlight(d) => calls[d].id # id

StartCreate(c, m, id) ==
    /\ m.op = "create"
    /\ FreshId(id)
    /\ \/ m.payload = "" /\ Refuse(c, m, id, "invalid_input")
       \/ m.payload # "" /\ Begin(c, m, id, "create",
                                  DraftRow(id, m.actor, m.payload))

StartChange(c, m, id) ==
    /\ m.op # "create"
    /\ LET refused == m.op = "execution" /\ ~MayRecordExecution(m.actor)
       IN  \/ refused /\ Refuse(c, m, id, "forbidden")
           \/ ~refused /\ Begin(c, m, id, "load", Nil)

Start(c) ==
    \E m \in Traffic, id \in Ids : StartCreate(c, m, id) \/ StartChange(c, m, id)

-----------------------------------------------------------------------------
(* CreateDraft *)

Create(c) ==
    /\ At(c, "create")
    /\ CreateRequest(RowOf(c))
    /\ Goto(c, "audit", RowOf(c))

-----------------------------------------------------------------------------
(* GetRequest at the head of the other methods, and the checks on the row. *)

Success(c) == calls[c].msg.payload = "success"

\* ensureIdempotency refuses a blank key before it looks at the store.
RequireKey(c, pc, row, refusal) ==
    \/ Key(c) = "" /\ Finish(c, refusal, Nil)
    \/ Key(c) # "" /\ Goto(c, pc, row)

LoadForSubmit(c, row) ==
    \/ ~OwnsOrAdmin(ActorOf(c), row) /\ Finish(c, "forbidden", Nil)
    \/ OwnsOrAdmin(ActorOf(c), row) /\ RequireKey(c, "lookup", row, "invalid_input")

FaultyLoadForReview(c, row) ==      \* no test for pending_review
    \/ row.status = Op(c) /\ RequireKey(c, "replayLookup", row, "empty")
    \/ row.status # Op(c) /\ RequireKey(c, "lookup", row, "invalid_input")

\* A request that already has this decision: the error of ensureIdempotency
\* is a variable of the if statement, and the return after it names the
\* outer one, which is nil.
LoadForReview(c, row) ==
    \/ row.status = Op(c) /\ RequireKey(c, "replayLookup", row, "empty")
    \/ row.status \notin {Op(c), "pending_review"} /\ Finish(c, "conflict", Nil)
    \/ /\ row.status = "pending_review"
       /\ \/ ~MayDecide(ActorOf(c), row) /\ Finish(c, "forbidden", Nil)
          \/ /\ MayDecide(ActorOf(c), row)
             /\ RequireKey(c, "lookup", row, "invalid_input")

FaultyLoadForExecution(c, row) ==      \* no status check
    Goto(c, "update", ExecutionRow(row, Success(c), now))

LoadForExecution(c, row) ==
    \/ ~AwaitsExecution(row) /\ Finish(c, "conflict", Nil)
    \/ AwaitsExecution(row) /\ Goto(c, "update", ExecutionRow(row, Success(c), now))

Load(c) ==
    /\ At(c, "load")
    /\ UNCHANGED storeVars
    /\ LET id == calls[c].id
       IN  \/ ~Exists(id) /\ Finish(c, "not_found", Nil)
           \/ /\ Exists(id)
              /\ \/ Op(c) = "submit" /\ LoadForSubmit(c, requests[id])
                 \/ Op(c) \in Decisions /\ LoadForReview(c, requests[id])
                 \/ Op(c) = "execution" /\ LoadForExecution(c, requests[id])

-----------------------------------------------------------------------------
(* ensureIdempotency: a lookup, then an insert that may lose a race. *)

Scope(c) == <<Op(c), calls[c].id>>

Fingerprint(c) ==
    IF Op(c) = "submit" THEN ActorOf(c).id ELSE calls[c].msg.payload

Recorded(c) == GetIdempotency(Scope(c), Key(c))
SameFingerprint(c) == \A rec \in Recorded(c) : rec.fingerprint = Fingerprint(c)

FaultySubmitClaimed(c, row) == Goto(c, "update", SubmittedRow(row, now))

\* What the method does once the key is claimed: the row it will write.
SubmitClaimed(c, row) ==
    \/ row.status # "draft" /\ Finish(c, "conflict", Nil)
    \/ row.status = "draft" /\ Goto(c, "update", SubmittedRow(row, now))

ReviewClaimed(c, row) == Goto(c, "update", ReviewedRow(row, Op(c), now))

Lookup(c) ==
    /\ At(c, "lookup")
    /\ UNCHANGED storeVars
    /\ \/ Recorded(c) = {} /\ Goto(c, "claim", RowOf(c))
       \/ Recorded(c) # {} /\ ~SameFingerprint(c) /\ Finish(c, "key_used", Nil)
       \/ Recorded(c) # {} /\ SameFingerprint(c) /\ Goto(c, "reload", RowOf(c))

Claim(c) ==
    /\ At(c, "claim")
    /\ \/ /\ CreateIdempotency(Scope(c), Key(c), Fingerprint(c))
          /\ \/ Op(c) = "submit" /\ SubmitClaimed(c, RowOf(c))
             \/ Op(c) # "submit" /\ ReviewClaimed(c, RowOf(c))
       \/ /\ Recorded(c) # {}
          /\ \/ Op(c) # "submit" /\ Fail(c, "conflict")
             \/ Op(c) = "submit" /\ UNCHANGED storeVars /\ Goto(c, "recheck", RowOf(c))

\* SubmitRequest reads the record that won the race.
Recheck(c) ==
    /\ At(c, "recheck")
    /\ UNCHANGED storeVars
    /\ \/ ~SameFingerprint(c) /\ Finish(c, "key_used", Nil)
       \/ SameFingerprint(c) /\ Goto(c, "reload", RowOf(c))

\* A replay answers with the request as it is now.
Reload(c) ==
    /\ At(c, "reload")
    /\ UNCHANGED storeVars
    /\ Finish(c, "ok", requests[calls[c].id])

ReplayLookup(c) ==
    /\ At(c, "replayLookup")
    /\ UNCHANGED storeVars
    /\ \/ Recorded(c) = {} /\ Goto(c, "replayClaim", RowOf(c))
       \/ Recorded(c) # {} /\ SameFingerprint(c) /\ Finish(c, "ok", RowOf(c))
       \/ Recorded(c) # {} /\ ~SameFingerprint(c) /\ Finish(c, "empty", Nil)

ReplayClaim(c) ==
    /\ At(c, "replayClaim")
    /\ \/ /\ CreateIdempotency(Scope(c), Key(c), Fingerprint(c))
          /\ Finish(c, "ok", RowOf(c))
       \/ Recorded(c) # {} /\ Fail(c, "empty")

-----------------------------------------------------------------------------
(* The update and the inserts that follow it. *)

FaultyUpdate(c) ==      \* the conflict is not looked at
    /\ At(c, "update")
    /\ \/ UpdateRequest(RowOf(c))
       \/ ~UpdateMatches(RowOf(c)) /\ UNCHANGED storeVars
    /\ Goto(c, IF Op(c) \in Decisions THEN "review" ELSE "audit", RowOf(c))

Update(c) ==
    /\ At(c, "update")
    /\ \/ /\ UpdateRequest(RowOf(c))
          /\ Goto(c, IF Op(c) \in Decisions THEN "review" ELSE "audit", RowOf(c))
       \/ ~UpdateMatches(RowOf(c)) /\ Fail(c, "conflict")

FaultyReview(c) ==      \* returns before the audit entry
    /\ At(c, "review")
    /\ CreateReview(RowOf(c), ActorOf(c), Op(c), c)
    /\ Finish(c, "ok", RowOf(c))

Review(c) ==
    /\ At(c, "review")
    /\ CreateReview(RowOf(c), ActorOf(c), Op(c), c)
    /\ Goto(c, "audit", RowOf(c))

AuditAction(c) ==
    CASE Op(c) = "create"    -> "draft_created"
      [] Op(c) = "submit"    -> "submitted"
      [] Op(c) = "execution" -> IF Success(c) THEN "execution_succeeded"
                                              ELSE "execution_failed"
      [] OTHER               -> Op(c)

Audit(c) ==
    /\ At(c, "audit")
    /\ AppendAudit(RowOf(c), ActorOf(c), AuditAction(c), c)
    /\ \/ Op(c) = "submit" /\ Goto(c, "auditAssigned", RowOf(c))
       \/ Op(c) # "submit" /\ Finish(c, "ok", RowOf(c))

AuditAssigned(c) ==
    /\ At(c, "auditAssigned")
    /\ AppendAudit(RowOf(c), SystemActor, "review_assigned", c)
    /\ Finish(c, "ok", RowOf(c))

-----------------------------------------------------------------------------
(* Failures: a store call that errs, because of the database or because    *)
(* the client went away and its context was cancelled; a write that took   *)
(* effect although its answer was lost.                                    *)

FaultyErrorResult(pc) == "conflict"      \* every error is ErrConflict

ErrorResult(pc) ==
    CASE pc \in {"replayLookup", "replayClaim"} -> "empty"
      [] pc = "recheck"                         -> "conflict"
      [] OTHER                                  -> "error"

StoreError(c) == InFlight(c) /\ Fail(c, ErrorResult(calls[c].pc))

Write(c) ==
    \/ At(c, "create") /\ CreateRequest(RowOf(c))
    \/ /\ At(c, "claim") \/ At(c, "replayClaim")
       /\ CreateIdempotency(Scope(c), Key(c), Fingerprint(c))
    \/ At(c, "update") /\ UpdateRequest(RowOf(c))
    \/ At(c, "review") /\ CreateReview(RowOf(c), ActorOf(c), Op(c), c)
    \/ At(c, "audit") /\ AppendAudit(RowOf(c), ActorOf(c), AuditAction(c), c)
    \/ /\ At(c, "auditAssigned")
       /\ AppendAudit(RowOf(c), SystemActor, "review_assigned", c)

ReplyLost(c) == Write(c) /\ Finish(c, ErrorResult(calls[c].pc), Nil)

\* What is left of a call when its process stops.
Dropped(c) == IF InFlight(c) THEN CallAt(c, "done", Nil, "lost") ELSE calls[c]

HandlerStep(c) ==
    \/ Start(c)
    \/ Create(c)
    \/ Load(c)
    \/ Lookup(c)
    \/ Claim(c)
    \/ Recheck(c)
    \/ Reload(c)
    \/ ReplayLookup(c)
    \/ ReplayClaim(c)
    \/ Update(c)
    \/ Review(c)
    \/ Audit(c)
    \/ AuditAssigned(c)

=============================================================================
