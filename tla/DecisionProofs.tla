---------------------------- MODULE DecisionProofs ---------------------------
(***************************************************************************)
(* Proofs about what the service records: idempotency keys, reviews and    *)
(* the audit log.  The tables are written by different steps of one call,  *)
(* and nothing but the version check ties them together; the invariants    *)
(* here say what a call or a worker between two of its writes still owes,  *)
(* and that nobody else can come in between.                               *)
(***************************************************************************)
EXTENDS RefinementProofs

-----------------------------------------------------------------------------
(* The steps of a call by what they do to the tables.  A step that fails   *)
(* raises the count of faults.                                             *)

Answered(c) == At(c, "done")'

KeepsMessage(c) == calls'[c].msg = calls[c].msg /\ calls'[c].id = calls[c].id

KeepsRow(c) == RowOf(c)' = RowOf(c)

Fails == faults' # faults

\* The call arrives.
Begins(c) ==
    /\ At(c, "idle")
    /\ UNCHANGED storeVars
    /\ \/ At(c, "create")' /\ Op(c)' = "create"
       \/ At(c, "load")' /\ (Op(c)' = "execution" => MayRecordExecution(ActorOf(c)'))
       \/ Answered(c)

\* It reads, or ends: a refusal, a replay, a failure.
Reads(c) ==
    /\ InFlight(c)
    /\ UNCHANGED storeVars
    /\ KeepsMessage(c)
    /\ \/ Answered(c)
       \/ /\ At(c, "load") /\ At(c, "lookup")'
          /\ Op(c) \in Decisions => MayDecide(ActorOf(c), RowOf(c)')
       \/ At(c, "lookup") /\ At(c, "claim")' /\ KeepsRow(c)
       \/ At(c, "load") /\ At(c, "update")' /\ Op(c) = "execution"
       \/ calls'[c].pc \in {"recheck", "reload", "replayLookup", "replayClaim"}
    /\ calls[c].pc \in {"create", "review", "audit", "auditAssigned"} =>
          Fails /\ Answered(c) /\ calls'[c].result = "error"

ClaimedRow(c) == IF Op(c) = "submit" THEN SubmittedRow(RowOf(c), now)
                                     ELSE ReviewedRow(RowOf(c), Op(c), now)

\* It takes its key.
Claims(c) ==
    /\ InFlight(c)
    /\ CreateIdempotency(Scope(c), Key(c), Fingerprint(c))
    /\ KeepsMessage(c)
    /\ \/ Answered(c)
       \/ /\ At(c, "claim") /\ At(c, "update")'
          /\ RowOf(c)' = ClaimedRow(c)
    /\ calls[c].pc \in {"claim", "replayClaim"}

\* It inserts its draft.
Creates(c) ==
    /\ At(c, "create")
    /\ CreateRequest(RowOf(c))
    /\ KeepsMessage(c)
    /\ \/ At(c, "audit")' /\ KeepsRow(c) /\ calls'[c].result = "none"
       \/ Answered(c) /\ Fails /\ calls'[c].result = "error"

\* It updates its request.
Updates(c) ==
    /\ At(c, "update")
    /\ UpdateRequest(RowOf(c))
    /\ KeepsMessage(c)
    /\ \/ /\ calls'[c].pc = IF Op(c) \in Decisions THEN "review" ELSE "audit"
          /\ KeepsRow(c) /\ calls'[c].result = "none"
       \/ Answered(c) /\ Fails /\ calls'[c].result = "error"

\* It inserts its review.
Reviews(c) ==
    /\ At(c, "review")
    /\ CreateReview(RowOf(c), ActorOf(c), Op(c), c)
    /\ KeepsMessage(c)
    /\ \/ At(c, "audit")' /\ KeepsRow(c) /\ calls'[c].result = "none"
       \/ Answered(c) /\ Fails /\ calls'[c].result = "error"

\* It appends an audit entry.
Audits(c) ==
    /\ KeepsMessage(c)
    /\ \/ /\ At(c, "audit")
          /\ AppendAudit(RowOf(c), ActorOf(c), AuditAction(c), c)
       \/ /\ At(c, "auditAssigned")
          /\ AppendAudit(RowOf(c), SystemActor, "review_assigned", c)
    /\ \/ /\ At(c, "audit") /\ Op(c) = "submit"
          /\ At(c, "auditAssigned")' /\ KeepsRow(c) /\ calls'[c].result = "none"
       \/ Answered(c) /\ calls'[c].result \in {"ok", "error"}

CallMove(c) ==
    \/ Begins(c) \/ Reads(c) \/ Claims(c) \/ Creates(c) \/ Updates(c)
    \/ Reviews(c) \/ Audits(c)

\* Everybody else stands still.
CallAlone(c) ==
    /\ \A d \in Calls \ {c} : calls'[d] = calls[d]
    /\ UNCHANGED <<now, workers, executions>>

LEMMA GotoMeans ==
  ASSUME TypeOK, NEW c \in Calls, NEW pc, NEW row, Goto(c, pc, row)
  PROVE  /\ calls'[c].pc = pc /\ RowOf(c)' = row /\ KeepsMessage(c)
         /\ calls'[c].result = "none"
         /\ \A d \in Calls \ {c} : calls'[d] = calls[d]
BY DEF TypeOK, Goto, CallAt, At, RowOf, KeepsMessage

LEMMA FinishMeans ==
  ASSUME TypeOK, NEW c \in Calls, NEW result, NEW row, Finish(c, result, row)
  PROVE  /\ Answered(c) /\ RowOf(c)' = row /\ KeepsMessage(c)
         /\ calls'[c].result = result
         /\ \A d \in Calls \ {c} : calls'[d] = calls[d]
BY DEF TypeOK, Finish, CallAt, At, RowOf, KeepsMessage, Answered

LEMMA StartMoves ==
  ASSUME TypeOK, NEW c \in Calls, Start(c)
  PROVE  Begins(c) /\ \A d \in Calls \ {c} : calls'[d] = calls[d]
<1>1. PICK m \in Traffic, id \in Ids : StartCreate(c, m, id) \/ StartChange(c, m, id)
  BY DEF Start
<1>2. At(c, "idle") /\ UNCHANGED storeVars
  BY <1>1 DEF StartCreate, StartChange, Begin, Refuse
<1>3. CASE \/ m.op = "create" /\ \E row : Begin(c, m, id, "create", row)
           \/ /\ m.op = "execution" => MayRecordExecution(m.actor)
              /\ Begin(c, m, id, "load", Nil)
  BY <1>2, <1>3 DEF Begin, TypeOK, Begins, At, Op, ActorOf
<1>4. CASE \E result : Refuse(c, m, id, result)
  BY <1>2, <1>4 DEF Refuse, TypeOK, Begins, Answered, At
<1> QED BY <1>1, <1>3, <1>4 DEF StartCreate, StartChange

LEMMA LoadMoves ==
  ASSUME TypeOK, NEW c \in Calls, Load(c)
  PROVE  Reads(c) /\ \A d \in Calls \ {c} : calls'[d] = calls[d]
<1> DEFINE row == requests[calls[c].id]
<1>1. At(c, "load") /\ InFlight(c) /\ UNCHANGED storeVars
  BY DEF Load, At, InFlight, StorePcs
<1>2. ASSUME NEW result, NEW r, Finish(c, result, r)
      PROVE  Reads(c) /\ \A d \in Calls \ {c} : calls'[d] = calls[d]
  BY <1>1, <1>2, FinishMeans DEF Reads, At
<1>3. ASSUME Goto(c, "lookup", row), Op(c) \in Decisions => MayDecide(ActorOf(c), row)
      PROVE  Reads(c) /\ \A d \in Calls \ {c} : calls'[d] = calls[d]
  BY <1>1, <1>3, GotoMeans DEF Reads, At
<1>4. ASSUME Goto(c, "replayLookup", row)
      PROVE  Reads(c) /\ \A d \in Calls \ {c} : calls'[d] = calls[d]
  BY <1>1, <1>4, GotoMeans DEF Reads, At
<1>5. ASSUME NEW r, Goto(c, "update", r), Op(c) = "execution"
      PROVE  Reads(c) /\ \A d \in Calls \ {c} : calls'[d] = calls[d]
  BY <1>1, <1>5, GotoMeans DEF Reads, At
<1> HIDE DEF row
<1>6. \/ \E result : Finish(c, result, Nil)
      \/ Op(c) = "submit" /\ LoadForSubmit(c, row)
      \/ Op(c) \in Decisions /\ LoadForReview(c, row)
      \/ Op(c) = "execution" /\ LoadForExecution(c, row)
  BY DEF Load, row
<1>7. CASE Op(c) = "submit" /\ LoadForSubmit(c, row)
  BY <1>2, <1>3, <1>7 DEF LoadForSubmit, RequireKey, Decisions
<1>8. CASE Op(c) \in Decisions /\ LoadForReview(c, row)
  BY <1>2, <1>3, <1>4, <1>8 DEF LoadForReview, RequireKey
<1>9. CASE Op(c) = "execution" /\ LoadForExecution(c, row)
  BY <1>2, <1>5, <1>9 DEF LoadForExecution
<1> QED BY <1>2, <1>6, <1>7, <1>8, <1>9

LEMMA ReplaysMove ==
  ASSUME TypeOK, NEW c \in Calls,
         Lookup(c) \/ Recheck(c) \/ Reload(c) \/ ReplayLookup(c)
  PROVE  Reads(c) /\ \A d \in Calls \ {c} : calls'[d] = calls[d]
<1>1. /\ InFlight(c) /\ UNCHANGED storeVars
      /\ calls[c].pc \in {"lookup", "recheck", "reload", "replayLookup"}
  BY DEF Lookup, Recheck, Reload, ReplayLookup, At, InFlight, StorePcs
<1>2. ASSUME NEW result, NEW r, Finish(c, result, r)
      PROVE  Reads(c) /\ \A d \in Calls \ {c} : calls'[d] = calls[d]
  BY <1>1, <1>2, FinishMeans DEF Reads
<1>3. ASSUME NEW pc \in {"reload", "replayClaim"}, Goto(c, pc, RowOf(c))
      PROVE  Reads(c) /\ \A d \in Calls \ {c} : calls'[d] = calls[d]
  BY <1>1, <1>3, GotoMeans DEF Reads, At
<1>4. ASSUME At(c, "lookup"), Goto(c, "claim", RowOf(c))
      PROVE  Reads(c) /\ \A d \in Calls \ {c} : calls'[d] = calls[d]
  BY <1>1, <1>4, GotoMeans DEF Reads, At, KeepsRow
<1> QED BY <1>2, <1>3, <1>4 DEF Lookup, Recheck, Reload, ReplayLookup

LEMMA ClaimsMove ==
  ASSUME TypeOK, NEW c \in Calls, Claim(c) \/ ReplayClaim(c)
  PROVE  /\ Reads(c) \/ Claims(c)
         /\ \A d \in Calls \ {c} : calls'[d] = calls[d]
<1> DEFINE record == CreateIdempotency(Scope(c), Key(c), Fingerprint(c))
<1>1. InFlight(c) /\ calls[c].pc \in {"claim", "replayClaim"}
  BY DEF Claim, ReplayClaim, At, InFlight, StorePcs
<1>2. ASSUME NEW result, Fail(c, result)
      PROVE  Reads(c) /\ \A d \in Calls \ {c} : calls'[d] = calls[d]
  BY <1>1, <1>2, FinishMeans DEF Reads, Fail
<1>3. ASSUME UNCHANGED storeVars, Goto(c, "recheck", RowOf(c))
      PROVE  Reads(c) /\ \A d \in Calls \ {c} : calls'[d] = calls[d]
  BY <1>1, <1>3, GotoMeans DEF Reads, At
<1>4. ASSUME record, NEW result, NEW r, Finish(c, result, r)
      PROVE  Claims(c) /\ \A d \in Calls \ {c} : calls'[d] = calls[d]
  BY <1>1, <1>4, FinishMeans DEF Claims
<1>5. ASSUME record, NEW r, At(c, "claim"), Goto(c, "update", r),
             r = ClaimedRow(c)
      PROVE  Claims(c) /\ \A d \in Calls \ {c} : calls'[d] = calls[d]
  <2>1. /\ At(c, "update")' /\ RowOf(c)' = r /\ KeepsMessage(c)
        /\ \A d \in Calls \ {c} : calls'[d] = calls[d]
    BY <1>5, GotoMeans DEF At
  <2> HIDE DEF record
  <2>2. record => CreateIdempotency(Scope(c), Key(c), Fingerprint(c))
    BY DEF record
  <2> QED BY <1>1, <1>5, <2>1, <2>2 DEF Claims
<1>6. CASE Claim(c)
  BY <1>2, <1>3, <1>4, <1>5, <1>6 DEF Claim, SubmitClaimed, ReviewClaimed, ClaimedRow
<1>7. CASE ReplayClaim(c)
  BY <1>2, <1>4, <1>7 DEF ReplayClaim
<1> QED BY <1>6, <1>7

LEMMA WritesMove ==
  ASSUME TypeOK, NEW c \in Calls,
         Create(c) \/ Update(c) \/ Review(c) \/ Audit(c) \/ AuditAssigned(c)
  PROVE  /\ Reads(c) \/ Creates(c) \/ Updates(c) \/ Reviews(c) \/ Audits(c)
         /\ \A d \in Calls \ {c} : calls'[d] = calls[d]
<1>1. CASE Create(c)
  BY <1>1, GotoMeans DEF Create, Creates, KeepsRow, At
<1>2. CASE Update(c)
  <2> DEFINE next == IF Op(c) \in Decisions THEN "review" ELSE "audit"
  <2>1. CASE UpdateRequest(RowOf(c)) /\ Goto(c, next, RowOf(c))
    <3>1. /\ calls'[c].pc = next /\ KeepsRow(c) /\ KeepsMessage(c)
          /\ calls'[c].result = "none"
          /\ \A d \in Calls \ {c} : calls'[d] = calls[d]
      BY <2>1, GotoMeans DEF KeepsRow
    <3>2. At(c, "update")
      BY <1>2 DEF Update
    <3> QED BY <2>1, <3>1, <3>2 DEF Updates
  <2>2. CASE Fail(c, "conflict")
    BY <1>2, <2>2, FinishMeans DEF Update, Fail, Reads, InFlight, At, StorePcs
  <2> QED BY <1>2, <2>1, <2>2 DEF Update
<1>3. CASE Review(c)
  BY <1>3, GotoMeans DEF Review, Reviews, KeepsRow, At
<1>4. CASE Audit(c)
  <2>1. CASE Op(c) = "submit" /\ Goto(c, "auditAssigned", RowOf(c))
    BY <1>4, <2>1, GotoMeans DEF Audit, Audits, KeepsRow, At
  <2>2. CASE Finish(c, "ok", RowOf(c))
    BY <1>4, <2>2, FinishMeans DEF Audit, Audits
  <2> QED BY <1>4, <2>1, <2>2 DEF Audit
<1>5. CASE AuditAssigned(c)
  BY <1>5, FinishMeans DEF AuditAssigned, Audits
<1> QED BY <1>1, <1>2, <1>3, <1>4, <1>5

LEMMA CallStepMoves ==
  ASSUME TypeOK, NEW c \in Calls, CallStep(c)
  PROVE  CallMove(c) /\ CallAlone(c)
BY StartMoves, LoadMoves, ReplaysMove, ClaimsMove, WritesMove
   DEF CallStep, HandlerStep, CallMove, CallAlone

LEMMA CallFaultMoves ==
  ASSUME TypeOK, NEW c \in Calls, CallFault(c)
  PROVE  CallMove(c) /\ CallAlone(c) /\ Fails
<1> DEFINE result == ErrorResult(calls[c].pc)
<1>1. Fails /\ UNCHANGED <<now, workers, executions>>
  BY DEF CallFault, Fault, Fails, TypeOK
<1>2. /\ Answered(c) /\ KeepsMessage(c) /\ calls'[c].result = result
      /\ \A d \in Calls \ {c} : calls'[d] = calls[d]
  BY FinishMeans DEF CallFault, StoreError, Fail, ReplyLost
<1>3. calls[c].pc \in {"create", "update", "review", "audit", "auditAssigned"} =>
          result = "error"
  BY DEF ErrorResult
<1> HIDE DEF result
<1>4. CASE StoreError(c)
  BY <1>1, <1>2, <1>3, <1>4 DEF StoreError, Fail, Reads, CallMove, CallAlone
<1>5. CASE ReplyLost(c)
  <2>1. CASE At(c, "create") /\ CreateRequest(RowOf(c))
    BY <1>1, <1>2, <1>3, <2>1 DEF Creates, CallMove, CallAlone, At
  <2>2. CASE /\ At(c, "claim") \/ At(c, "replayClaim")
             /\ CreateIdempotency(Scope(c), Key(c), Fingerprint(c))
    BY <1>1, <1>2, <2>2 DEF Claims, CallMove, CallAlone, At, InFlight, StorePcs
  <2>3. CASE At(c, "update") /\ UpdateRequest(RowOf(c))
    BY <1>1, <1>2, <1>3, <2>3 DEF Updates, CallMove, CallAlone, At
  <2>4. CASE At(c, "review") /\ CreateReview(RowOf(c), ActorOf(c), Op(c), c)
    BY <1>1, <1>2, <1>3, <2>4 DEF Reviews, CallMove, CallAlone, At
  <2>5. CASE At(c, "audit") /\ AppendAudit(RowOf(c), ActorOf(c), AuditAction(c), c)
    BY <1>1, <1>2, <1>3, <2>5 DEF Audits, CallMove, CallAlone, At
  <2>6. CASE /\ At(c, "auditAssigned")
             /\ AppendAudit(RowOf(c), SystemActor, "review_assigned", c)
    BY <1>1, <1>2, <1>3, <2>6 DEF Audits, CallMove, CallAlone, At
  <2> QED BY <1>5, <2>1, <2>2, <2>3, <2>4, <2>5, <2>6 DEF ReplyLost, Write
<1> QED BY <1>1, <1>4, <1>5 DEF CallFault

-----------------------------------------------------------------------------
(* The steps of a worker, in the same way.  What it lists and the job runs *)
(* it appends do not matter here.                                          *)

AuditPcs == {"remindAudit", "executeAudit"}

WorkerActions == {"reminder_sent", "execution_succeeded", "execution_failed"}

\* It leaves the requests and the logs of this module alone.
Rests(w) ==
    /\ UNCHANGED <<requests, audit, reviews, idempotency>>
    /\ workers'[w].pc \notin AuditPcs
    /\ workers[w].pc \in AuditPcs => Fails

\* It updates a request.
Rewrites(w) ==
    /\ workers[w].pc \notin AuditPcs
    /\ \E row \in Row :
          /\ UpdateRequest(row)
          /\ \/ workers'[w].pc \in AuditPcs /\ Pending(w)' = row
             \/ workers'[w].pc \notin AuditPcs /\ Fails

\* It appends an audit entry.
Notes(w) ==
    /\ workers[w].pc \in AuditPcs
    /\ workers'[w].pc \notin AuditPcs
    /\ \E action \in WorkerActions : AppendAudit(Pending(w), SystemActor, action, w)

WorkerMove(w) == Rests(w) \/ Rewrites(w) \/ Notes(w)

WorkerAlone(w) ==
    /\ \A v \in Workers \ {w} : workers'[v] = workers[v]
    /\ UNCHANGED <<now, calls>>

LEMMA WorkerGotoMeans ==
  ASSUME TypeOK, NEW w \in Workers, NEW pc, NEW batch, NEW row,
         WorkerGoto(w, pc, batch, row)
  PROVE  /\ workers'[w].pc = pc /\ Batch(w)' = batch /\ Pending(w)' = row
         /\ \A v \in Workers \ {w} : workers'[v] = workers[v]
BY DEF TypeOK, WorkerGoto, Batch, Pending

LEMMA EmptyHandedMeans ==
  ASSUME TypeOK, NEW w \in Workers,
         \/ \E pc \in {"listReminders", "listReady"} : BeginPass(w, pc)
         \/ EndRun(w)
  PROVE  /\ workers'[w].pc \in {"wait", "listReminders", "listReady"}
         /\ \A v \in Workers \ {w} : workers'[v] = workers[v]
BY DEF TypeOK, BeginPass, EndRun, IdleWorker

\* A pass goes on or ends.
LEMMA PassesMove ==
  ASSUME TypeOK, NEW w \in Workers, NEW batch,
         NextReminder(w, batch) \/ NextExecution(w)
  PROVE  /\ workers'[w].pc \notin AuditPcs
         /\ \A v \in Workers \ {w} : workers'[v] = workers[v]
BY WorkerGotoMeans, EmptyHandedMeans DEF NextReminder, NextExecution, AuditPcs

LEMMA ReminderRow ==
  ASSUME Inv, NEW w \in Workers, NEW r \in Batch(w)
  PROVE  RemindedRow(r, workers[w].pass) \in Row
<1>1. r \in Row /\ workers[w].pass \in Int
  BY WorkerFacts
<1> QED BY <1>1, RemindedRowFollows DEF Follows

LEMMA PendingRow ==
  ASSUME Inv, NEW w \in Workers,
         workers[w].pc \in {"remindAudit", "executeUpdate", "executeAudit"}
  PROVE  /\ Pending(w) \in Row
         /\ workers[w].pc \in AuditPcs => IsVersionOf(Pending(w), requests)
BY WorkerFacts DEF WorkerIsSafe, IsVersionOf, IsSafeWrite, Pending, AuditPcs

LEMMA WorkStepMoves ==
  ASSUME Inv, NEW w \in Workers, WorkStep(w)
  PROVE  WorkerMove(w) /\ WorkerAlone(w)
<1>1. TypeOK /\ UNCHANGED <<now, calls>>
  BY DEF Inv, WorkStep
<1>2. CASE Poll(w) \/ ListReminders(w)
  BY <1>1, <1>2, EmptyHandedMeans, PassesMove
     DEF Poll, ListReminders, WorkerMove, WorkerAlone, Rests, WorkerAt, AuditPcs, storeVars
<1>3. CASE Remind(w)
  <2>1. PICK r \in Batch(w) :
            LET row == RemindedRow(r, workers[w].pass)
            IN  \/ UpdateRequest(row) /\ WorkerGoto(w, "remindAudit", Batch(w) \ {r}, row)
                \/ UNCHANGED storeVars /\ NextReminder(w, Batch(w) \ {r})
    BY <1>3 DEF Remind, NextOf
  <2>2. workers[w].pc \notin AuditPcs
    BY <1>3 DEF Remind, WorkerAt, AuditPcs
  <2>3. CASE UNCHANGED storeVars /\ NextReminder(w, Batch(w) \ {r})
    BY <1>1, <2>2, <2>3, PassesMove DEF WorkerMove, WorkerAlone, Rests, storeVars
  <2> DEFINE row == RemindedRow(r, workers[w].pass)
  <2>4. row \in Row
    BY ReminderRow
  <2> HIDE DEF row
  <2>5. CASE UpdateRequest(row) /\ WorkerGoto(w, "remindAudit", Batch(w) \ {r}, row)
    BY <1>1, <2>2, <2>4, <2>5, WorkerGotoMeans
       DEF WorkerMove, WorkerAlone, Rewrites, AuditPcs
  <2> QED BY <2>1, <2>3, <2>5 DEF row
<1>4. CASE RemindAudit(w) \/ ExecuteAudit(w)
  BY <1>1, <1>4, WorkerGotoMeans
     DEF RemindAudit, ExecuteAudit, WorkerMove, WorkerAlone, Notes, WorkerAt,
         WorkerActions, AuditPcs
<1>5. CASE RemindJob(w) \/ ExecuteJob(w)
  BY <1>1, <1>5, PassesMove
     DEF RemindJob, ExecuteJob, AppendJobRun, WorkerMove, WorkerAlone, Rests, WorkerAt,
         AuditPcs
<1>6. CASE ListReady(w)
  <2>1. /\ workers[w].pc \notin AuditPcs
        /\ UNCHANGED <<requests, audit, reviews, idempotency>>
    BY <1>6 DEF ListReady, WorkerAt, AuditPcs, storeVars
  <2>2. /\ workers'[w].pc \notin AuditPcs
        /\ \A v \in Workers \ {w} : workers'[v] = workers[v]
    BY <1>1, <1>6, EmptyHandedMeans DEF ListReady, TypeOK, AuditPcs
  <2> QED BY <1>1, <2>1, <2>2 DEF WorkerMove, WorkerAlone, Rests
<1>7. CASE Execute(w)
  BY <1>1, <1>7, WorkerGotoMeans
     DEF Execute, WorkerMove, WorkerAlone, Rests, WorkerAt, AuditPcs, storeVars
<1>8. CASE ExecuteUpdate(w)
  <2>1. workers[w].pc = "executeUpdate" /\ Pending(w) \in Row
    BY <1>8, PendingRow DEF ExecuteUpdate, WorkerAt
  <2>2. CASE UpdateRequest(Pending(w)) /\ WorkerGoto(w, "executeAudit", Batch(w), Pending(w))
    BY <1>1, <2>1, <2>2, WorkerGotoMeans DEF WorkerMove, WorkerAlone, Rewrites, AuditPcs
  <2>3. CASE UNCHANGED storeVars /\ WorkerGoto(w, "executeJob", Batch(w), Pending(w))
    BY <1>1, <2>1, <2>3, WorkerGotoMeans
       DEF WorkerMove, WorkerAlone, Rests, AuditPcs, storeVars
  <2> QED BY <1>8, <2>2, <2>3 DEF ExecuteUpdate
<1> QED
  BY <1>2, <1>3, <1>4, <1>5, <1>6, <1>7, <1>8 DEF WorkStep, WorkerStep

LEMMA WorkFaultMoves ==
  ASSUME Inv, NEW w \in Workers, WorkFault(w)
  PROVE  WorkerMove(w) /\ WorkerAlone(w) /\ Fails
<1>1. TypeOK /\ UNCHANGED <<now, calls>> /\ Fails
  BY DEF Inv, WorkFault, Fault, Fails, TypeOK
<1>2. CASE WorkerStoreError(w)
  <2>1. UNCHANGED <<requests, audit, reviews, idempotency>>
    BY <1>2 DEF WorkerStoreError, storeVars
  <2>2. /\ workers'[w].pc \notin AuditPcs
        /\ \A v \in Workers \ {w} : workers'[v] = workers[v]
    <3>1. CASE BeginPass(w, "listReady") \/ EndRun(w)
      BY <1>1, <3>1, EmptyHandedMeans DEF AuditPcs
    <3>2. CASE \E batch : NextReminder(w, batch) \/ NextExecution(w)
      BY <1>1, <3>2, PassesMove
    <3>3. CASE \E pc \in {"remindJob", "executeJob"} :
                   WorkerGoto(w, pc, Batch(w), Pending(w))
      BY <1>1, <3>3, WorkerGotoMeans DEF AuditPcs
    <3> QED BY <1>2, <3>1, <3>2, <3>3 DEF WorkerStoreError
  <2> QED BY <1>1, <2>1, <2>2 DEF WorkerMove, WorkerAlone, Rests
<1>3. CASE WorkerReplyLost(w)
  <2>1. CASE WorkerAt(w, "remind") /\ \E r \in Batch(w) :
                 /\ UpdateRequest(RemindedRow(r, workers[w].pass))
                 /\ NextReminder(w, Batch(w) \ {r})
    BY <1>1, <2>1, ReminderRow, PassesMove
       DEF WorkerMove, WorkerAlone, Rewrites, WorkerAt, AuditPcs
  <2>2. CASE /\ WorkerAt(w, "executeUpdate") /\ UpdateRequest(Pending(w))
             /\ WorkerGoto(w, "executeJob", Batch(w), Pending(w))
    BY <1>1, <2>2, PendingRow, WorkerGotoMeans
       DEF WorkerMove, WorkerAlone, Rewrites, WorkerAt, AuditPcs
  <2> QED BY <1>3, <2>1, <2>2 DEF WorkerReplyLost, NextOf
<1> QED BY <1>2, <1>3 DEF WorkFault

\* Every step of the system: a call or a worker moves, a process restarts, or
\* nothing happens that this module is about.
Crashes ==
    /\ UNCHANGED storeVars
    /\ Fails
    /\ \A c \in Calls : calls'[c] \in {calls[c], Dropped(c)}
    /\ \A w \in Workers : workers'[w] \in {workers[w], IdleWorker}

Waits == UNCHANGED storeVars /\ UNCHANGED <<calls, workers, faults>>

LEMMA CrashEndsCalls ==
  ASSUME Crashes, NEW c \in Calls
  PROVE  \/ calls'[c] = calls[c]
         \/ InFlight(c) /\ Answered(c) /\ calls'[c].result = "lost"
<1>1. calls'[c] \in {calls[c], Dropped(c)}
  BY DEF Crashes
<1>2. CASE InFlight(c) /\ calls'[c] = Dropped(c)
  <2>1. calls'[c].pc = "done" /\ calls'[c].result = "lost"
    BY <1>2 DEF Dropped, CallAt
  <2> QED BY <1>2, <2>1 DEF Answered, At
<1>3. CASE ~InFlight(c) \/ calls'[c] = calls[c]
  BY <1>1, <1>3 DEF Dropped
<1> QED BY <1>1, <1>2, <1>3

LEMMA Moves ==
  ASSUME Inv, [Next]_vars
  PROVE  \/ \E c \in Calls : CallMove(c) /\ CallAlone(c)
         \/ \E w \in Workers : WorkerMove(w) /\ WorkerAlone(w)
         \/ Crashes
         \/ Waits
<1>1. TypeOK
  BY DEF Inv
<1>2. CASE \E c \in Calls : CallStep(c) \/ CallFault(c)
  BY <1>1, <1>2, CallStepMoves, CallFaultMoves
<1>3. CASE \E w \in Workers : WorkStep(w) \/ WorkFault(w)
  BY <1>3, WorkStepMoves, WorkFaultMoves
<1>4. CASE Tick \/ UNCHANGED vars
  BY <1>4 DEF Tick, vars, storeVars, Waits
<1>5. CASE Restart
  <2>1. Fails
    BY <1>1, <1>5 DEF Restart, Fault, Fails, TypeOK
  <2> QED BY <1>5, <2>1 DEF Restart, Crashes
<1> QED BY <1>2, <1>3, <1>4, <1>5 DEF Next

-----------------------------------------------------------------------------
(* Only CreateDraft inserts a request. *)

Drafting == \A c \in Calls : At(c, "create") => Op(c) = "create"

LEMMA DraftingKeeps ==
  ASSUME Inv, Drafting, [Next]_vars
  PROVE  Drafting'
<1> SUFFICES ASSUME NEW d \in Calls, At(d, "create")' PROVE Op(d)' = "create"
  BY DEF Drafting
<1>1. ASSUME calls'[d] = calls[d] PROVE Op(d)' = "create"
  BY <1>1 DEF Drafting, At, Op
<1>2. ASSUME NEW c \in Calls, CallMove(c), CallAlone(c) PROVE Op(d)' = "create"
  <2>1. CASE d = c
    BY <1>2, <2>1 DEF CallMove, Begins, Reads, Claims, Creates, Updates, Reviews, Audits,
                      Answered, At
  <2> QED BY <1>1, <1>2, <2>1 DEF CallAlone
<1>3. ASSUME Crashes PROVE Op(d)' = "create"
  BY <1>1, <1>3, CrashEndsCalls DEF Answered, At
<1> QED BY <1>1, <1>2, <1>3, Moves DEF WorkerAlone, Waits

-----------------------------------------------------------------------------
(* Idempotency keys.  ensureIdempotency looks a key up and inserts it in   *)
(* two statements.  The record that is found only before the insert, and   *)
(* never removed, keeps the second call out.                               *)

KeysRecorded ==
  /\ \A c \in Calls : HoldsKey(c) => Recorded(c) # {}
  /\ KeyHeldOnce

\* No step takes a record out of the table.
LEMMA RecordsStay ==
  ASSUME Inv, [Next]_vars
  PROVE  idempotency \subseteq idempotency'
<1>1. ASSUME NEW c \in Calls, CallMove(c) PROVE idempotency \subseteq idempotency'
  BY <1>1 DEF CallMove, Begins, Reads, Claims, Creates, Updates, Reviews, Audits,
              CreateIdempotency, CreateRequest, UpdateRequest, CreateReview,
              AppendAudit, storeVars
<1>2. ASSUME NEW w \in Workers, WorkerMove(w) PROVE idempotency \subseteq idempotency'
  BY <1>2 DEF WorkerMove, Rests, Rewrites, Notes, UpdateRequest, AppendAudit
<1> QED BY <1>1, <1>2, Moves DEF Crashes, Waits, storeVars

\* A call that holds its key has held it, or has just inserted it where there
\* was none.
LEMMA KeysAreTaken ==
  ASSUME Inv, Drafting, NEW c \in Calls, CallMove(c), HoldsKey(c)'
  PROVE  /\ KeepsMessage(c)
         /\ HoldsKey(c) \/ (Recorded(c) = {} /\ Recorded(c)' # {})
<1>1. CASE Begins(c)
  BY <1>1 DEF Begins, HoldsKey, Answered, At
<1>2. CASE Reads(c)
  BY <1>2 DEF Reads, HoldsKey, Answered, At, KeepsMessage, Op, Decisions
<1>3. CASE Claims(c)
  <2> DEFINE record == [scope |-> Scope(c), key |-> Key(c), fingerprint |-> Fingerprint(c)]
  <2>1. Recorded(c) = {} /\ idempotency' = idempotency \cup {record} /\ KeepsMessage(c)
    BY <1>3 DEF Claims, CreateIdempotency, Recorded
  <2>2. Scope(c)' = Scope(c) /\ Key(c)' = Key(c)
    BY <2>1 DEF KeepsMessage, Scope, Key, Op
  <2>3. record \in Recorded(c)'
    BY <2>1, <2>2 DEF Recorded, GetIdempotency
  <2> QED BY <2>1, <2>3
<1>4. CASE Creates(c)
  <2>1. Op(c)' \in Decisions \cup {"submit"} /\ KeepsMessage(c)
    BY <1>4 DEF HoldsKey, Creates
  <2>2. Op(c) = "create"
    BY <1>4 DEF Creates, Drafting
  <2> QED BY <2>1, <2>2 DEF KeepsMessage, Op, Decisions
<1>5. CASE Updates(c) \/ Reviews(c) \/ Audits(c)
  BY <1>5 DEF Updates, Reviews, Audits, HoldsKey, Answered, At, KeepsMessage, Op
<1> QED BY <1>1, <1>2, <1>3, <1>4, <1>5 DEF CallMove

LEMMA OthersKeepKeys ==
  ASSUME NEW d \in Calls, calls'[d] = calls[d]
  PROVE  /\ HoldsKey(d)' <=> HoldsKey(d)
         /\ Scope(d)' = Scope(d) /\ Key(d)' = Key(d)
BY DEF HoldsKey, Scope, Key, Op

LEMMA KeysRecordedKeeps ==
  ASSUME Inv, Drafting, KeysRecorded, [Next]_vars
  PROVE  KeysRecorded'
<1>1. ASSUME NEW d \in Calls, Recorded(d) # {}, Scope(d)' = Scope(d), Key(d)' = Key(d)
      PROVE  Recorded(d)' # {}
  BY <1>1, RecordsStay DEF Recorded, GetIdempotency
<1>2. ASSUME \A d \in Calls : HoldsKey(d)' => calls'[d] = calls[d]
      PROVE  KeysRecorded'
  <2>1. \A d \in Calls : HoldsKey(d)' =>
            HoldsKey(d) /\ Scope(d)' = Scope(d) /\ Key(d)' = Key(d)
    BY <1>2, OthersKeepKeys
  <2>2. \A d \in Calls : HoldsKey(d)' => Recorded(d)' # {}
    BY <1>1, <2>1 DEF KeysRecorded
  <2>3. \A d \in Calls : HoldsKey(d) => InFlight(d)
    BY DEF HoldsKey, InFlight, StorePcs
  <2>4. KeyHeldOnce'
    BY <2>1, <2>3 DEF KeysRecorded, KeyHeldOnce
  <2> QED BY <2>2, <2>4 DEF KeysRecorded
<1>3. ASSUME NEW c \in Calls, CallMove(c), CallAlone(c) PROVE KeysRecorded'
  <2>1. \A d \in Calls \ {c} : /\ HoldsKey(d)' <=> HoldsKey(d)
                               /\ Scope(d)' = Scope(d) /\ Key(d)' = Key(d)
    BY <1>3, OthersKeepKeys DEF CallAlone
  <2>2. HoldsKey(c)' => /\ Scope(c)' = Scope(c) /\ Key(c)' = Key(c)
                        /\ HoldsKey(c) \/ (Recorded(c) = {} /\ Recorded(c)' # {})
    BY <1>3, KeysAreTaken DEF KeepsMessage, Scope, Key, Op
  <2>3. ASSUME NEW d \in Calls, HoldsKey(d)' PROVE Recorded(d)' # {}
    BY <1>1, <2>1, <2>2, <2>3 DEF KeysRecorded
  <2>4. ASSUME NEW d \in Calls \ {c}, HoldsKey(c)', HoldsKey(d)'
        PROVE  <<Scope(c), Key(c)>>' # <<Scope(d), Key(d)>>'
    <3>1. HoldsKey(d) /\ Recorded(d) # {}
      BY <2>1, <2>4 DEF KeysRecorded
    <3>2. CASE HoldsKey(c)
      <4>1. InFlight(c) /\ InFlight(d)
        BY <3>1, <3>2 DEF HoldsKey, InFlight, StorePcs
      <4> QED BY <2>1, <2>2, <2>4, <3>1, <3>2, <4>1 DEF KeysRecorded, KeyHeldOnce
    <3>3. CASE Recorded(c) = {}
      <4>1. <<Scope(c), Key(c)>> # <<Scope(d), Key(d)>>
        BY <3>1, <3>3 DEF Recorded
      <4> QED BY <2>1, <2>2, <2>4, <4>1
    <3> QED BY <2>2, <2>4, <3>2, <3>3
  <2>5. ASSUME NEW d \in Calls \ {c}, NEW e \in Calls \ {c}, d # e,
               HoldsKey(d)', HoldsKey(e)'
        PROVE  <<Scope(d), Key(d)>>' # <<Scope(e), Key(e)>>'
    <3>1. InFlight(d) /\ InFlight(e) /\ HoldsKey(d) /\ HoldsKey(e)
      BY <2>1, <2>5 DEF HoldsKey, InFlight, StorePcs
    <3> QED BY <2>1, <2>5, <3>1 DEF KeysRecorded, KeyHeldOnce
  <2>6. KeyHeldOnce'
    BY <2>4, <2>5 DEF KeyHeldOnce
  <2> QED BY <2>3, <2>6 DEF KeysRecorded
<1>4. ASSUME Crashes PROVE KeysRecorded'
  <2>1. ASSUME NEW d \in Calls, HoldsKey(d)' PROVE calls'[d] = calls[d]
    BY <1>4, <2>1, CrashEndsCalls DEF HoldsKey, Answered, At
  <2> QED BY <1>2, <2>1
<1>5. CASE calls' = calls
  BY <1>2, <1>5
<1> QED BY <1>3, <1>4, <1>5, Moves DEF WorkerAlone, Waits

\* Two calls with one key for one operation on one request are never both on
\* their way to change it.
THEOREM KeyHeldOnceHolds == Spec => []KeyHeldOnce
<1>1. Init => Drafting /\ KeysRecorded
  BY DEF Init, HandlersInit, IdleCall, Drafting, KeysRecorded, KeyHeldOnce, HoldsKey, At
<1>2. Inv /\ Drafting /\ KeysRecorded /\ [Next]_vars => Drafting' /\ KeysRecorded'
  BY DraftingKeeps, KeysRecordedKeeps
<1>3. KeysRecorded => KeyHeldOnce
  BY DEF KeysRecorded
<1> QED BY <1>1, <1>2, <1>3, InvHolds, PTL DEF Spec

-----------------------------------------------------------------------------
(* Reviews.  A request is decided once because it waits for its review     *)
(* only until the first decision is written, and no transition brings it   *)
(* back; whoever is about to insert a review wrote that decision.          *)

\* Every transition makes a row of the table.
LEMMA TransitionIsARow ==
  ASSUME NEW old \in Row, NEW new, NEW time \in Nat, IsTransition(old, new, time)
  PROVE  new \in Row
<1>1. \A t \in 0..time : t \in Int
  OBVIOUS
<1> QED
  BY <1>1, SubmittedRowFollows, ReviewedRowFollows, RemindedRowFollows,
     ExecutionRowFollows DEF IsTransition, Follows

\* What becomes of a stored row in one step.
LEMMA TableStep ==
  ASSUME Inv, [Next]_vars, NEW id \in Ids, Exists(id)
  PROVE  /\ requests[id] \in Row /\ now \in Nat /\ Exists(id)'
         /\ \/ requests'[id] = requests[id]
            \/ IsTransition(requests[id], requests'[id], now)
<1>1. requests[id] \in Row /\ now \in Nat
  BY StoredRow DEF Inv, TypeOK
<1>2. CASE requests'[id] = requests[id]
  BY <1>1, <1>2 DEF Exists
<1>3. CASE requests'[id] # requests[id]
  <2>1. IsTransition(requests[id], requests'[id], now)
    BY <1>3, StepRefines, LifecycleChanges
  <2>2. requests'[id] # Nil
    BY <1>1, <2>1, TransitionIsARow, NilAssumption
  <2> QED BY <1>1, <2>1, <2>2 DEF Exists
<1> QED BY <1>2, <1>3

DecidedStatuses(decision) ==
  IF decision = "rejected" THEN {"rejected"}
  ELSE {"approved", "executed", "execution_failed"}

\* A decision stands.
LEMMA TransitionKeepsDecision ==
  ASSUME NEW old \in Row, NEW new, NEW time \in Nat, IsTransition(old, new, time),
         NEW decision \in Decisions, old.status \in DecidedStatuses(decision)
  PROVE  new.status \in DecidedStatuses(decision)
<1>1. CASE old.status = "draft" \/ old.status = "pending_review"
  BY <1>1 DEF DecidedStatuses
<1>2. CASE \E t \in 0..time : NeedsReminder(old, t)
  BY <1>2 DEF DecidedStatuses, NeedsReminder
<1>3. CASE /\ AwaitsExecution(old)
           /\ \E t \in 0..time, success \in BOOLEAN : new = ExecutionRow(old, success, t)
  <2>1. new.status \in {"executed", "execution_failed"}
    BY <1>3 DEF ExecutionRow, Outcome, Row
  <2> QED BY <1>3, <2>1 DEF DecidedStatuses, AwaitsExecution
<1> QED BY <1>1, <1>2, <1>3 DEF IsTransition

\* A decision is taken of a request that waits for its review.
LEMMA TransitionDecides ==
  ASSUME NEW old \in Row, NEW new, NEW time \in Nat, IsTransition(old, new, time),
         new.status \in Decisions
  PROVE  old.status = "pending_review"
<1>1. CASE \E t \in 0..time : new = SubmittedRow(old, t)
  BY <1>1 DEF SubmittedRow, Row, Decisions
<1>2. CASE \E t \in 0..time : NeedsReminder(old, t)
  BY <1>2 DEF NeedsReminder
<1>3. CASE \E t \in 0..time, success \in BOOLEAN : new = ExecutionRow(old, success, t)
  <2>1. new.status \in {"executed", "execution_failed"}
    BY <1>3 DEF ExecutionRow, Outcome, Row
  <2> QED BY <2>1 DEF Decisions
<1> QED BY <1>1, <1>2, <1>3 DEF IsTransition

\* The row a review is about to write carries its decision.
Choosing ==
  \A c \in Calls : At(c, "update") /\ Op(c) \in Decisions => RowOf(c).status = Op(c)

LEMMA ChoosingKeeps ==
  ASSUME Inv, Choosing, [Next]_vars
  PROVE  Choosing'
<1> SUFFICES ASSUME NEW d \in Calls, At(d, "update")', Op(d)' \in Decisions
             PROVE  RowOf(d)'.status = Op(d)'
  BY DEF Choosing
<1>1. ASSUME calls'[d] = calls[d] PROVE RowOf(d)'.status = Op(d)'
  BY <1>1 DEF Choosing, At, Op, RowOf
<1>2. ASSUME CallMove(d) PROVE RowOf(d)'.status = Op(d)'
  <2>1. CASE Begins(d)
    BY <2>1 DEF Begins, Answered, At
  <2>2. CASE Reads(d)
    BY <2>2 DEF Reads, Answered, At, KeepsMessage, Op, Decisions
  <2>3. CASE Claims(d)
    <3>1. /\ Op(d)' = Op(d) /\ At(d, "claim") /\ InFlight(d)
          /\ Op(d) # "submit" => RowOf(d)' = ReviewedRow(RowOf(d), Op(d), now)
      BY <2>3 DEF ClaimedRow, Claims, KeepsMessage, Op, Answered, At
    <3>2. RowOf(d) \in Row
      BY <3>1, CallFacts DEF CallIsSafe, IsVersionOf, At, RowOf
    <3>3. RowOf(d)' = ReviewedRow(RowOf(d), Op(d), now)
      BY <3>1 DEF Decisions
    <3> QED BY <3>1, <3>2, <3>3 DEF ReviewedRow, Row
  <2>4. CASE Creates(d) \/ Updates(d) \/ Reviews(d) \/ Audits(d)
    BY <2>4 DEF Creates, Updates, Reviews, Audits, Answered, At
  <2> QED BY <1>2, <2>1, <2>2, <2>3, <2>4 DEF CallMove
<1>3. CASE Crashes
  BY <1>1, <1>3, CrashEndsCalls DEF Answered, At
<1> QED BY <1>1, <1>2, <1>3, Moves DEF CallAlone, WorkerAlone, Waits

\* Nobody else has reviewed the request of a call that is about to, or will.
ReviewsOnce(c) ==
  /\ requests[RowOf(c).id].status \in DecidedStatuses(Op(c))
  /\ \A v \in reviews : v.request # RowOf(c).id
  /\ \A d \in Calls \ {c} : At(d, "review") => RowOf(d).id # RowOf(c).id

Reviewed ==
  /\ \A v \in reviews : Exists(v.request)
  /\ \A c \in Calls : At(c, "review") => ReviewsOnce(c)
  /\ OneDecision

\* A call between its update and its review holds a row of the table.
LEMMA ReviewingRow ==
  ASSUME Inv, NEW c \in Calls, At(c, "review")
  PROVE  /\ RowOf(c) \in Row /\ RowOf(c).id \in Ids /\ Exists(RowOf(c).id)
         /\ Op(c) \in Decisions
<1>1. InFlight(c)
  BY DEF At, InFlight, StorePcs
<1> QED BY <1>1, CallFacts DEF CallIsSafe, IsVersionOf, At, RowOf, Op, Row, Exists

\* What is said of the table stays true of it.
LEMMA DecisionsStand ==
  ASSUME Inv, [Next]_vars, NEW id \in Ids, Exists(id), NEW decision \in Decisions,
         requests[id].status \in DecidedStatuses(decision)
  PROVE  Exists(id)' /\ requests'[id].status \in DecidedStatuses(decision)
BY TableStep, TransitionKeepsDecision

\* No review is inserted, and nobody comes to be about to insert one.
LEMMA ReviewedStays ==
  ASSUME Inv, Reviewed, [Next]_vars, reviews' = reviews,
         \A c \in Calls : At(c, "review")' =>
             At(c, "review") /\ RowOf(c)' = RowOf(c) /\ Op(c)' = Op(c)
  PROVE  Reviewed'
<1>1. ASSUME NEW v \in reviews
      PROVE  /\ v.request \in Ids /\ v.decision \in Decisions /\ Exists(v.request)
             /\ requests[v.request].status \in DecidedStatuses(v.decision)
  BY DEF Inv, TypeOK, ReviewActions, Reviewed, OneDecision, DecidedStatuses
<1>2. ASSUME NEW v \in reviews
      PROVE  Exists(v.request)' /\ requests'[v.request].status \in DecidedStatuses(v.decision)
  BY <1>1, DecisionsStand
<1>3. OneDecision'
  BY <1>2 DEF Reviewed, OneDecision, DecidedStatuses
<1>4. ASSUME NEW c \in Calls, At(c, "review")' PROVE ReviewsOnce(c)'
  <2>1. ReviewsOnce(c) /\ At(c, "review") /\ RowOf(c)' = RowOf(c) /\ Op(c)' = Op(c)
    BY <1>4 DEF Reviewed
  <2>2. requests'[RowOf(c).id].status \in DecidedStatuses(Op(c))
    BY <2>1, ReviewingRow, DecisionsStand DEF ReviewsOnce
  <2> QED BY <2>1, <2>2 DEF ReviewsOnce
<1> QED BY <1>2, <1>3, <1>4 DEF Reviewed

\* The update of a decision finds a request nobody has decided on.
LEMMA DecisionWritten ==
  ASSUME Inv, Reviewed, Choosing, NEW c \in Calls, CallAlone(c), Updates(c),
         At(c, "review")'
  PROVE  Reviewed'
<1> DEFINE row == RowOf(c)
           id == row.id
<1>1. /\ Op(c) \in Decisions /\ row.status = Op(c) /\ InFlight(c)
      /\ RowOf(c)' = row /\ Op(c)' = Op(c) /\ reviews' = reviews
  BY DEF Updates, Choosing, At, Answered, KeepsRow, KeepsMessage, Op, UpdateRequest,
         InFlight, StorePcs
<1>2. row \in Row /\ id \in Ids /\ IsSafeWrite(row, requests, now)
  BY <1>1, CallFacts DEF CallIsSafe, IsSafeWrite, Updates, At, RowOf, Row
<1> HIDE DEF row
<1>3. /\ Exists(id) /\ requests[id].version = row.version - 1
      /\ requests' = [requests EXCEPT ![id] = row]
  BY DEF Updates, UpdateRequest, UpdateMatches, row
<1>4. requests \in Tables /\ requests[id] \in Row /\ now \in Nat
  BY <1>2, <1>3, StoredRow DEF Inv, TypeOK, Tables
<1>5. requests[id].status = "pending_review"
  <2>1. IsTransition(requests[id], row, now)
    BY <1>2, <1>3 DEF IsSafeWrite
  <2> QED BY <1>1, <1>4, <2>1, TransitionDecides
<1>6. \A i \in Ids \ {id} : requests'[i] = requests[i]
  BY <1>3, <1>4 DEF Tables
<1>7. requests'[id] = row /\ row # Nil
  BY <1>2, <1>3, <1>4, NilAssumption DEF Tables
<1>8. \A v \in reviews : v.request \in Ids \ {id}
  BY <1>5 DEF Inv, TypeOK, ReviewActions, Reviewed, OneDecision
<1>9. \A d \in Calls \ {c} : At(d, "review") => RowOf(d).id \in Ids \ {id}
  BY <1>5, ReviewingRow DEF Reviewed, ReviewsOnce, DecidedStatuses
<1>10. (\A v \in reviews : Exists(v.request))'
  BY <1>1, <1>6, <1>8 DEF Reviewed, Exists
<1>11. OneDecision'
  BY <1>1, <1>6, <1>8 DEF Reviewed, OneDecision
<1>12. \A d \in Calls \ {c} : At(d, "review")' =>
          /\ At(d, "review") /\ RowOf(d)' = RowOf(d) /\ Op(d)' = Op(d)
          /\ requests'[RowOf(d).id] = requests[RowOf(d).id]
  BY <1>6, <1>9 DEF CallAlone, At, RowOf, Op
<1>13. ReviewsOnce(c)'
  <2>1. requests'[id].status \in DecidedStatuses(Op(c))
    BY <1>1, <1>7 DEF DecidedStatuses, Decisions
  <2>2. \A d \in Calls \ {c} : At(d, "review")' => RowOf(d)'.id # id
    BY <1>9, <1>12
  <2> QED BY <1>1, <1>8, <2>1, <2>2 DEF ReviewsOnce, row
<1>14. ASSUME NEW d \in Calls \ {c}, At(d, "review")' PROVE ReviewsOnce(d)'
  <2>1. /\ ReviewsOnce(d) /\ At(d, "review") /\ RowOf(d)' = RowOf(d) /\ Op(d)' = Op(d)
        /\ requests'[RowOf(d).id] = requests[RowOf(d).id] /\ RowOf(d).id # id
    BY <1>9, <1>12, <1>14 DEF Reviewed
  <2>2. \A e \in Calls \ {d} : At(e, "review")' => RowOf(e)'.id # RowOf(d).id
    BY <1>1, <1>12, <2>1 DEF ReviewsOnce, row
  <2> QED BY <1>1, <2>1, <2>2 DEF ReviewsOnce
<1> QED BY <1>10, <1>11, <1>13, <1>14 DEF Reviewed

\* The review is the only one of its request.
LEMMA ReviewInserted ==
  ASSUME Inv, Reviewed, NEW c \in Calls, CallAlone(c), Reviews(c)
  PROVE  Reviewed'
<1> DEFINE row == RowOf(c)
           v == [request |-> row.id, version |-> row.version, decision |-> Op(c),
                 actor_id |-> ActorOf(c).id, writer |-> c]
<1>1. At(c, "review") /\ ReviewsOnce(c) /\ ~At(c, "review")'
  BY DEF Reviews, Reviewed, At, Answered
<1>2. reviews' = reviews \cup {v} /\ requests' = requests
  BY DEF Reviews, CreateReview
<1>3. v.request = row.id /\ v.decision = Op(c)
  OBVIOUS
<1> HIDE DEF v
<1>4. OneDecision'
  BY <1>1, <1>2, <1>3 DEF Reviewed, OneDecision, ReviewsOnce, DecidedStatuses
<1>5. (\A u \in reviews : Exists(u.request))'
  BY <1>1, <1>2, <1>3, ReviewingRow DEF Reviewed, Exists
<1>6. ASSUME NEW d \in Calls, At(d, "review")' PROVE ReviewsOnce(d)'
  <2>1. /\ d # c /\ At(d, "review") /\ RowOf(d)' = RowOf(d) /\ Op(d)' = Op(d)
        /\ ReviewsOnce(d)
    BY <1>1, <1>6 DEF CallAlone, At, RowOf, Op, Reviewed
  <2>2. RowOf(d).id # row.id
    BY <1>1, <2>1 DEF ReviewsOnce
  <2>3. \A e \in Calls : At(e, "review")' => At(e, "review") /\ RowOf(e)' = RowOf(e)
    BY <1>1 DEF CallAlone, At, RowOf
  <2> QED BY <1>2, <1>3, <2>1, <2>2, <2>3 DEF ReviewsOnce
<1> QED BY <1>4, <1>5, <1>6 DEF Reviewed

LEMMA ReviewedKeeps ==
  ASSUME Inv, Choosing, Reviewed, [Next]_vars
  PROVE  Reviewed'
<1>1. ASSUME NEW c \in Calls, CallMove(c), CallAlone(c) PROVE Reviewed'
  <2>1. CASE Reviews(c)
    BY <1>1, <2>1, ReviewInserted
  <2>2. CASE Updates(c) /\ At(c, "review")'
    BY <1>1, <2>2, DecisionWritten
  <2>3. CASE ~Reviews(c) /\ ~At(c, "review")'
    <3>1. reviews' = reviews
      BY <1>1, <2>3 DEF CallMove, Begins, Reads, Claims, Creates, Updates, Audits,
                        CreateIdempotency, CreateRequest, UpdateRequest, AppendAudit,
                        storeVars
    <3>2. \A d \in Calls : At(d, "review")' =>
             At(d, "review") /\ RowOf(d)' = RowOf(d) /\ Op(d)' = Op(d)
      BY <1>1, <2>3 DEF CallAlone, At, RowOf, Op
    <3> QED BY <3>1, <3>2, ReviewedStays
  <2>4. At(c, "review")' => Updates(c)
    BY <1>1 DEF CallMove, Begins, Reads, Claims, Creates, Reviews, Audits, Answered, At
  <2> QED BY <2>1, <2>2, <2>3, <2>4
<1>2. ASSUME NEW w \in Workers, WorkerMove(w), WorkerAlone(w) PROVE Reviewed'
  BY <1>2, ReviewedStays DEF WorkerMove, WorkerAlone, Rests, Rewrites, Notes,
                             UpdateRequest, AppendAudit, At, RowOf, Op
<1>3. CASE Crashes
  <2>1. \A d \in Calls : At(d, "review")' =>
            At(d, "review") /\ RowOf(d)' = RowOf(d) /\ Op(d)' = Op(d)
    BY <1>3, CrashEndsCalls DEF Answered, At, RowOf, Op
  <2> QED BY <1>3, <2>1, ReviewedStays DEF Crashes, storeVars
<1>4. CASE Waits
  BY <1>4, ReviewedStays DEF Waits, storeVars, At, RowOf, Op
<1> QED BY <1>1, <1>2, <1>3, <1>4, Moves

\* A request has at most one review, and its status is the one that decision
\* leads to.
THEOREM OneDecisionHolds == Spec => []OneDecision
<1>1. Init => Choosing /\ Reviewed
  BY DEF Init, StoreInit, HandlersInit, IdleCall, Choosing, Reviewed, OneDecision, At
<1>2. Inv /\ Choosing /\ Reviewed /\ [Next]_vars => Choosing' /\ Reviewed'
  BY ChoosingKeeps, ReviewedKeeps
<1>3. Reviewed => OneDecision
  BY DEF Reviewed
<1> QED BY <1>1, <1>2, <1>3, InvHolds, PTL DEF Spec

-----------------------------------------------------------------------------
(* Permissions.  They are checked on the row the call has read, and the    *)
(* decision may land in a later one: who asked never changes, and who      *)
(* reviews does not once the request was submitted.                        *)

LEMMA TransitionKeepsPeople ==
  ASSUME NEW old \in Row, NEW new, NEW time \in Nat, IsTransition(old, new, time),
         old.status # "draft"
  PROVE  /\ new.status # "draft"
         /\ new.requester_id = old.requester_id
         /\ new.assigned_reviewer_id = old.assigned_reviewer_id
<1>1. CASE \E t \in 0..time, decision \in Decisions : new = ReviewedRow(old, decision, t)
  BY <1>1 DEF ReviewedRow, Row, Decisions
<1>2. CASE \E t \in 0..time : NeedsReminder(old, t) /\ new = RemindedRow(old, t)
  BY <1>2 DEF RemindedRow, Row
<1>3. CASE \E t \in 0..time, success \in BOOLEAN : new = ExecutionRow(old, success, t)
  BY <1>3 DEF ExecutionRow, Outcome, Row
<1> QED BY <1>1, <1>2, <1>3 DEF IsTransition

\* The actor may decide on the request as it is stored.
MayHaveDecided(actor, id) ==
  Exists(id) /\ requests[id].status # "draft" /\ MayDecide(actor, requests[id])

LEMMA PermissionStands ==
  ASSUME Inv, [Next]_vars, NEW actor, NEW id \in Ids, MayHaveDecided(actor, id)
  PROVE  MayHaveDecided(actor, id)'
BY TableStep, TransitionKeepsPeople DEF MayHaveDecided, MayDecide, CanReview

\* A call that is on its way to record a decision.
Permitted(c) ==
  /\ calls[c].pc \in {"lookup", "claim", "update"} => MayDecide(ActorOf(c), RowOf(c))
  /\ calls[c].pc \in {"review", "audit"} => MayHaveDecided(ActorOf(c), RowOf(c).id)

Authorised ==
  /\ \A c \in Calls : Op(c) \in Decisions => Permitted(c)
  /\ \A e \in audit : e.action \in Decisions => MayHaveDecided(e.actor, e.request)

\* Past its update a call holds a row of the table.
LEMMA WrittenRow ==
  ASSUME Inv, NEW c \in Calls, calls[c].pc \in {"review", "audit", "auditAssigned"}
  PROVE  /\ InFlight(c) /\ RowOf(c) \in Row /\ RowOf(c).id \in Ids
         /\ Exists(RowOf(c).id) /\ RowOf(c).version \in Nat
         /\ RowOf(c).version <= requests[RowOf(c).id].version
         /\ Op(c) \in Ops
<1>1. InFlight(c)
  BY DEF InFlight, StorePcs
<1> QED
  BY <1>1, CallFacts DEF CallIsSafe, IsVersionOf, RowOf, Row, Exists

LEMMA PermittedStays ==
  ASSUME Inv, Authorised, [Next]_vars, NEW c \in Calls, calls'[c] = calls[c],
         Op(c) \in Decisions
  PROVE  Permitted(c)'
<1>1. ActorOf(c)' = ActorOf(c) /\ RowOf(c)' = RowOf(c) /\ Permitted(c)
  BY DEF Authorised, ActorOf, RowOf
<1>2. calls[c].pc \in {"review", "audit"} => MayHaveDecided(ActorOf(c), RowOf(c).id)'
  BY <1>1, WrittenRow, PermissionStands DEF Permitted
<1> QED BY <1>1, <1>2 DEF Permitted

\* A call that moves keeps the permission it has checked.
LEMMA PermittedMoves ==
  ASSUME Inv, Drafting, Choosing, Authorised, [Next]_vars, NEW c \in Calls,
         CallMove(c), Op(c)' \in Decisions
  PROVE  Permitted(c)'
<1>1. CASE Answered(c)
  BY <1>1 DEF Permitted, Answered, At
<1>2. CASE Begins(c)
  BY <1>1, <1>2 DEF Begins, At, Decisions, Permitted
<1>3. CASE Creates(c)
  BY <1>1, <1>3 DEF Creates, Drafting, KeepsMessage, Op, Decisions
<1>4. CASE ~Answered(c) /\ KeepsMessage(c) /\ ~Creates(c) /\ ~Begins(c)
  <2>1. Op(c) \in Decisions /\ ActorOf(c)' = ActorOf(c) /\ Permitted(c)
    BY <1>4 DEF KeepsMessage, Op, ActorOf, Authorised
  <2>2. CASE Reads(c)
    <3>1. CASE calls'[c].pc \in {"recheck", "reload", "replayLookup", "replayClaim"}
      BY <3>1 DEF Permitted
    <3>2. CASE At(c, "lookup")' /\ MayDecide(ActorOf(c), RowOf(c)')
      BY <2>1, <3>2 DEF Permitted, At
    <3>3. CASE At(c, "lookup") /\ At(c, "claim")' /\ KeepsRow(c)
      BY <2>1, <3>3 DEF Permitted, At, KeepsRow
    <3> QED BY <1>4, <2>1, <2>2, <3>1, <3>2, <3>3 DEF Reads, Decisions
  <2>3. CASE Claims(c)
    <3>1. /\ At(c, "claim") /\ InFlight(c) /\ At(c, "update")'
          /\ RowOf(c)' = ReviewedRow(RowOf(c), Op(c), now)
      BY <1>4, <2>1, <2>3 DEF ClaimedRow, Claims, Decisions
    <3>2. RowOf(c) \in Row /\ MayDecide(ActorOf(c), RowOf(c))
      BY <2>1, <3>1, CallFacts DEF CallIsSafe, IsVersionOf, At, RowOf, Permitted
    <3>3. MayDecide(ActorOf(c), RowOf(c)')
      BY <3>1, <3>2 DEF ReviewedRow, Row, MayDecide, CanReview
    <3> QED BY <2>1, <3>1, <3>3 DEF Permitted, At
  <2>4. CASE Updates(c)
    <3> DEFINE row == RowOf(c)
               id == row.id
    <3>1. /\ At(c, "update") /\ InFlight(c) /\ At(c, "review")' /\ RowOf(c)' = row
          /\ requests' = [requests EXCEPT ![id] = row]
      BY <1>4, <2>1, <2>4 DEF Updates, KeepsRow, At, InFlight, StorePcs, UpdateRequest
    <3>2. row \in Row /\ id \in Ids /\ row # Nil /\ requests \in Tables
      BY <3>1, CallFacts, NilAssumption
         DEF CallIsSafe, IsSafeWrite, At, RowOf, Row, Inv, TypeOK, Tables
    <3>3. row.status \in Decisions /\ MayDecide(ActorOf(c), row)
      BY <2>1, <3>1 DEF Choosing, Permitted, At
    <3> HIDE DEF row
    <3>4. requests'[id] = row /\ row.status # "draft"
      BY <3>1, <3>2, <3>3 DEF Tables, Decisions
    <3>5. MayHaveDecided(ActorOf(c), RowOf(c).id)'
      <4>1. RowOf(c)'.id = id
        BY <3>1
      <4> QED BY <2>1, <3>2, <3>3, <3>4, <4>1 DEF MayHaveDecided, Exists
    <3>6. calls'[c].pc = "review"
      BY <3>1 DEF At
    <3> QED BY <3>5, <3>6 DEF Permitted
  <2>5. CASE Reviews(c)
    <3>1. /\ calls[c].pc = "review" /\ calls'[c].pc = "audit" /\ RowOf(c)' = RowOf(c)
          /\ RowOf(c).id \in Ids
      BY <1>4, <2>5, WrittenRow DEF Reviews, KeepsRow, At
    <3>2. MayHaveDecided(ActorOf(c), RowOf(c).id)'
      BY <2>1, <3>1, PermissionStands DEF Permitted
    <3> QED BY <2>1, <3>1, <3>2 DEF Permitted, ActorOf
  <2>6. CASE Audits(c)
    BY <1>4, <2>1, <2>6 DEF Audits, Decisions
  <2> QED BY <1>4, <2>2, <2>3, <2>4, <2>5, <2>6 DEF CallMove
<1> QED BY <1>1, <1>2, <1>3, <1>4 DEF CallMove, Reads, Claims, Updates, Reviews, Audits

\* An entry that tells of a decision comes from a call that was permitted.
LEMMA DecisionsLogged ==
  ASSUME Inv, Authorised, [Next]_vars
  PROVE  \A e \in audit' : e \notin audit /\ e.action \in Decisions =>
             e.request \in Ids /\ MayHaveDecided(e.actor, e.request)
<1>1. ASSUME NEW c \in Calls, Audits(c), NEW e \in audit' \ audit, e.action \in Decisions
      PROVE  e.request \in Ids /\ MayHaveDecided(e.actor, e.request)
  <2>1. CASE At(c, "auditAssigned")
    BY <1>1, <2>1 DEF Audits, AppendAudit, Decisions, At
  <2>2. CASE At(c, "audit")
    <3>1. /\ e.request = RowOf(c).id /\ e.actor = ActorOf(c) /\ e.action = AuditAction(c)
          /\ Op(c) \in Ops /\ RowOf(c).id \in Ids
      BY <1>1, <2>2, WrittenRow DEF Audits, AppendAudit, At
    <3>2. Op(c) \in Decisions
      BY <1>1, <3>1 DEF AuditAction, Decisions, Ops
    <3> QED BY <2>2, <3>1, <3>2 DEF Authorised, Permitted, At
  <2> QED BY <1>1, <2>1, <2>2 DEF Audits
<1>2. ASSUME NEW c \in Calls, CallMove(c), ~Audits(c) PROVE audit' = audit
  BY <1>2 DEF CallMove, Begins, Reads, Claims, Creates, Updates, Reviews,
              CreateIdempotency, CreateRequest, UpdateRequest, CreateReview, storeVars
<1>3. ASSUME NEW w \in Workers, WorkerMove(w), NEW e \in audit' \ audit
      PROVE  e.action \in WorkerActions
  BY <1>3 DEF WorkerMove, Rests, Rewrites, Notes, UpdateRequest, AppendAudit
<1> SUFFICES ASSUME NEW e \in audit', e \notin audit, e.action \in Decisions
             PROVE  e.request \in Ids /\ MayHaveDecided(e.actor, e.request)
  OBVIOUS
<1>4. e.action \notin WorkerActions /\ audit' # audit
  BY DEF WorkerActions, Decisions
<1>5. PICK c \in Calls : CallMove(c)
  BY <1>3, <1>4, Moves DEF Crashes, Waits, storeVars
<1> QED BY <1>1, <1>2, <1>4, <1>5

LEMMA AuthorisedKeeps ==
  ASSUME Inv, Drafting, Choosing, Authorised, [Next]_vars
  PROVE  Authorised'
<1>1. ASSUME NEW e \in audit', e.action \in Decisions
      PROVE  MayHaveDecided(e.actor, e.request)'
  <2>1. e.request \in Ids /\ MayHaveDecided(e.actor, e.request)
    BY <1>1, DecisionsLogged DEF Authorised, Inv, TypeOK, AuditEntries
  <2> QED BY <2>1, PermissionStands
<1>2. ASSUME NEW d \in Calls, calls'[d] = calls[d], Op(d)' \in Decisions
      PROVE  Permitted(d)'
  <2>1. Op(d)' = Op(d)
    BY <1>2 DEF Op
  <2> QED BY <1>2, <2>1, PermittedStays
<1>3. ASSUME NEW c \in Calls, CallMove(c), CallAlone(c)
      PROVE  \A d \in Calls : Op(d)' \in Decisions => Permitted(d)'
  BY <1>2, <1>3, PermittedMoves DEF CallAlone
<1>4. CASE Crashes
  <2>1. \A d \in Calls : Op(d)' \in Decisions => Permitted(d)'
    BY <1>2, <1>4, CrashEndsCalls DEF Permitted, Answered, At
  <2> QED BY <1>1, <2>1 DEF Authorised
<1> QED BY <1>1, <1>2, <1>3, <1>4, Moves DEF Authorised, WorkerAlone, Waits

\* Every decision in the log was taken by an admin or the assigned reviewer,
\* and by somebody else than the requester, of the request as it is stored.
THEOREM DecidedByReviewerHolds == Spec => []DecidedByReviewer
<1>1. Init => Drafting /\ Choosing /\ Authorised
  BY DEF Init, StoreInit, HandlersInit, IdleCall, Drafting, Choosing, Authorised,
         Permitted, At
<1>2. Inv /\ Drafting /\ Choosing /\ Authorised /\ [Next]_vars
         => Drafting' /\ Choosing' /\ Authorised'
  BY DraftingKeeps, ChoosingKeeps, AuthorisedKeeps
<1>3. Authorised => DecidedByReviewer
  BY DEF Authorised, MayHaveDecided, MayDecide, CanReview, DecidedByReviewer
<1> QED BY <1>1, <1>2, <1>3, InvHolds, PTL DEF Spec

-----------------------------------------------------------------------------
(* The audit log.  Whoever made a version of a request writes its entry,   *)
(* some steps later.  Until then nobody else can make an entry for that    *)
(* version: the version check lets one writer make each version.           *)

\* The writer is between its update and its last entry.
Holds(x, id, version) ==
  \/ /\ x \in Calls /\ calls[x].pc \in {"review", "audit", "auditAssigned"}
     /\ RowOf(x).id = id /\ RowOf(x).version = version
  \/ /\ x \in Workers /\ workers[x].pc \in AuditPcs
     /\ Pending(x).id = id /\ Pending(x).version = version

\* A submission that has written the first of its two entries.
HalfDone(x) == x \in Calls /\ calls[x].pc = "auditAssigned"

\* The writer holds on to what it had.
StillHolds(x, id, version) ==
  Holds(x, id, version) /\ (HalfDone(x) => HalfDone(x)')

\* Three kinds of steps: nobody comes to hold anything; a writer takes a
\* version nobody had; a writer makes an entry for the version it holds.
Releases ==
  /\ audit' = audit
  /\ \A y \in Writers, id \in Ids, v \in Nat :
        Holds(y, id, v)' => StillHolds(y, id, v)

Takes(x, row) ==
  /\ audit' = audit
  /\ row \in Row
  /\ requests[row.id] # Nil => requests[row.id].version < row.version
  /\ \A y \in Writers, id \in Ids, v \in Nat :
        Holds(y, id, v)' =>
            \/ y = x /\ id = row.id /\ v = row.version
            \/ y # x /\ StillHolds(y, id, v)

Enters(x, e) ==
  /\ audit' = audit \cup {e}
  /\ e.writer = x
  /\ Holds(x, e.request, e.version)
  /\ HalfDone(x) => e.action = "review_assigned"
  /\ \A y \in Writers, id \in Ids, v \in Nat :
        Holds(y, id, v)' =>
            \/ y # x /\ StillHolds(y, id, v)
            \/ /\ y = x /\ Holds(x, id, v) /\ ~HalfDone(x) /\ HalfDone(x)'
               /\ e.action = "submitted"

\* The writers that stand still.
LEMMA IdleWriters ==
  ASSUME NEW y, NEW id, NEW v, Holds(y, id, v)',
         y \in Calls => calls'[y] = calls[y],
         y \in Workers => workers'[y] = workers[y]
  PROVE  StillHolds(y, id, v)
BY DEF StillHolds, Holds, HalfDone, RowOf, Pending

LEMMA CallHolding ==
  ASSUME NEW c \in Calls, NEW id, NEW v
  PROVE  /\ Holds(c, id, v) <=>
               /\ calls[c].pc \in {"review", "audit", "auditAssigned"}
               /\ RowOf(c).id = id /\ RowOf(c).version = v
         /\ Holds(c, id, v)' <=>
               /\ calls'[c].pc \in {"review", "audit", "auditAssigned"}
               /\ RowOf(c)'.id = id /\ RowOf(c)'.version = v
         /\ HalfDone(c) <=> calls[c].pc = "auditAssigned"
         /\ HalfDone(c)' <=> calls'[c].pc = "auditAssigned"
BY WritersAssumption DEF Holds, HalfDone

LEMMA WorkerHolding ==
  ASSUME NEW w \in Workers, NEW id, NEW v
  PROVE  /\ Holds(w, id, v) <=> /\ workers[w].pc \in AuditPcs
                               /\ Pending(w).id = id /\ Pending(w).version = v
         /\ Holds(w, id, v)' <=> /\ workers'[w].pc \in AuditPcs
                                /\ Pending(w)'.id = id /\ Pending(w)'.version = v
         /\ ~HalfDone(w) /\ ~HalfDone(w)'
BY WritersAssumption DEF Holds, HalfDone

LEMMA OtherWriters ==
  ASSUME NEW x \in Writers,
         \/ x \in Calls /\ CallAlone(x)
         \/ x \in Workers /\ WorkerAlone(x),
         NEW y \in Writers, NEW id, NEW v, Holds(y, id, v)', y # x
  PROVE  StillHolds(y, id, v)
BY IdleWriters DEF CallAlone, WorkerAlone

\* UpdateRequest lets a row in that is newer than the stored one.
LEMMA UpdatesAreNewer ==
  ASSUME Inv, NEW row \in Row, UpdateRequest(row)
  PROVE  /\ requests[row.id] # Nil /\ requests[row.id].version \in Nat
         /\ requests[row.id].version + 1 = row.version
         /\ requests[row.id].version < row.version
         /\ audit' = audit
<1>1. row.id \in Ids /\ row.version \in Nat
  BY DEF Row
<1>2. Exists(row.id) /\ requests[row.id].version = row.version - 1
  BY DEF UpdateRequest, UpdateMatches
<1>3. requests[row.id].version \in Nat
  BY <1>1, <1>2, StoredRow DEF Row
<1> QED BY <1>1, <1>2, <1>3 DEF UpdateRequest, Exists

\* One entry is appended, in the writer's name, for the version of the row.
LEMMA AppendedEntry ==
  ASSUME NEW row, NEW actor, NEW action, NEW writer,
         AppendAudit(row, actor, action, writer)
  PROVE  \E e : /\ audit' = audit \cup {e} /\ e.writer = writer
                /\ e.request = row.id /\ e.version = row.version
                /\ e.action = action /\ e.actor = actor
<1> DEFINE entry == [request |-> row.id, version |-> row.version,
                     action |-> action, actor |-> actor, writer |-> writer]
<1>1. audit' = audit \cup {entry}
  BY DEF AppendAudit
<1>2. /\ entry.writer = writer /\ entry.request = row.id
      /\ entry.version = row.version /\ entry.action = action
      /\ entry.actor = actor
  OBVIOUS
<1> HIDE DEF entry
<1> QED BY <1>1, <1>2

LEMMA CallAudits ==
  ASSUME Inv, NEW c \in Calls, CallMove(c), CallAlone(c)
  PROVE  \/ Releases
         \/ \E row : Takes(c, row)
         \/ \E e : Enters(c, e)
<1>1. ASSUME NEW y \in Writers, NEW id, NEW v, Holds(y, id, v)', y # c
      PROVE  StillHolds(y, id, v)
  BY <1>1, OtherWriters DEF Writers
<1>2. ASSUME audit' = audit,
             calls'[c].pc \notin {"review", "audit", "auditAssigned"}
      PROVE  Releases
  BY <1>1, <1>2, CallHolding DEF Releases
<1>3. ASSUME NEW row \in Row, audit' = audit, KeepsRow(c), RowOf(c) = row,
             requests[row.id] # Nil => requests[row.id].version < row.version
      PROVE  Takes(c, row)
  BY <1>1, <1>3, CallHolding DEF Takes, KeepsRow
<1>4. CASE Begins(c)
  BY <1>2, <1>4 DEF Begins, Answered, At, storeVars
<1>5. CASE Reads(c)
  BY <1>2, <1>5 DEF Reads, Answered, At, storeVars
<1>6. CASE Claims(c)
  BY <1>2, <1>6 DEF Claims, Answered, At, CreateIdempotency
<1>7. CASE Creates(c)
  <2>1. IsNewDraft(c) /\ calls[c].id \in Ids /\ audit' = audit
    BY <1>7, CallFacts DEF Creates, CreateRequest, Inv, NoLostUpdate, At, InFlight, StorePcs
  <2>2. RowOf(c) \in Row /\ requests[RowOf(c).id] = Nil
    BY <2>1, DraftRowType DEF IsNewDraft, Exists
  <2> QED BY <1>2, <1>3, <1>7, <2>1, <2>2 DEF Creates, Answered, At
<1>8. CASE Updates(c)
  <2>1. InFlight(c) /\ UpdateRequest(RowOf(c))
    BY <1>8 DEF Updates, At, InFlight, StorePcs
  <2>2. RowOf(c) \in Row
    BY <1>8, <2>1, CallFacts DEF Updates, CallIsSafe, IsSafeWrite, At, RowOf
  <2>3. audit' = audit /\ requests[RowOf(c).id].version < RowOf(c).version
    BY <2>1, <2>2, UpdatesAreNewer
  <2> QED BY <1>2, <1>3, <1>8, <2>2, <2>3 DEF Updates, Answered, At
<1>9. CASE Reviews(c)
  <2>1. calls[c].pc = "review" /\ audit' = audit
    BY <1>9 DEF Reviews, CreateReview, At
  <2>2. CASE At(c, "audit")' /\ KeepsRow(c)
    <3>1. ASSUME NEW id, NEW v, Holds(c, id, v)' PROVE StillHolds(c, id, v)
      BY <2>1, <2>2, <3>1, CallHolding DEF StillHolds, KeepsRow
    <3> QED BY <1>1, <2>1, <3>1 DEF Releases
  <2> QED BY <1>2, <1>9, <2>1, <2>2 DEF Reviews, Answered, At
<1>10. CASE Audits(c)
  <2>1. calls[c].pc \in {"audit", "auditAssigned"}
    BY <1>10 DEF Audits, At
  <2>2. PICK e : /\ audit' = audit \cup {e} /\ e.writer = c
                 /\ e.request = RowOf(c).id /\ e.version = RowOf(c).version
                 /\ e.action = IF At(c, "audit") THEN AuditAction(c)
                               ELSE "review_assigned"
    <3>1. CASE At(c, "audit")
      BY <1>10, <3>1, AppendedEntry DEF Audits, At
    <3>2. CASE At(c, "auditAssigned")
      BY <1>10, <3>2, AppendedEntry DEF Audits, At
    <3> QED BY <2>1, <3>1, <3>2 DEF At
  <2>3. Holds(c, e.request, e.version) /\ (HalfDone(c) => e.action = "review_assigned")
    BY <2>1, <2>2, CallHolding DEF At
  <2>4. ASSUME NEW id, NEW v, Holds(c, id, v)'
        PROVE  Holds(c, id, v) /\ ~HalfDone(c) /\ HalfDone(c)' /\ e.action = "submitted"
    <3>1. At(c, "audit") /\ Op(c) = "submit" /\ At(c, "auditAssigned")' /\ KeepsRow(c)
      BY <1>10, <2>4, CallHolding DEF Audits, Answered, At
    <3>2. e.action = "submitted"
      BY <2>2, <3>1 DEF AuditAction
    <3> QED BY <2>4, <3>1, <3>2, CallHolding DEF At, KeepsRow
  <2>5. Enters(c, e)
    BY <1>1, <2>2, <2>3, <2>4 DEF Enters
  <2> QED BY <2>5
<1> QED BY <1>4, <1>5, <1>6, <1>7, <1>8, <1>9, <1>10 DEF CallMove

LEMMA WorkerAudits ==
  ASSUME Inv, NEW w \in Workers, WorkerMove(w), WorkerAlone(w)
  PROVE  \/ Releases
         \/ \E row : Takes(w, row)
         \/ \E e : Enters(w, e)
<1>1. ASSUME NEW y \in Writers, NEW id, NEW v, Holds(y, id, v)', y # w
      PROVE  StillHolds(y, id, v)
  BY <1>1, OtherWriters DEF Writers
<1>2. ASSUME audit' = audit, workers'[w].pc \notin AuditPcs
      PROVE  Releases
  BY <1>1, <1>2, WorkerHolding DEF Releases
<1>3. CASE Rests(w)
  BY <1>2, <1>3 DEF Rests
<1>4. CASE Rewrites(w)
  <2>1. PICK row \in Row : /\ UpdateRequest(row)
                           /\ \/ workers'[w].pc \in AuditPcs /\ Pending(w)' = row
                              \/ workers'[w].pc \notin AuditPcs
    BY <1>4 DEF Rewrites
  <2>2. audit' = audit /\ requests[row.id].version < row.version
    BY <2>1, UpdatesAreNewer
  <2>3. CASE Pending(w)' = row
    <3>1. Takes(w, row)
      BY <1>1, <2>2, <2>3, WorkerHolding DEF Takes
    <3> QED BY <3>1
  <2> QED BY <1>2, <2>1, <2>2, <2>3
<1>5. CASE Notes(w)
  <2>1. PICK e : /\ audit' = audit \cup {e} /\ e.writer = w
                 /\ e.request = Pending(w).id /\ e.version = Pending(w).version
    BY <1>5, AppendedEntry DEF Notes
  <2>2. Enters(w, e)
    BY <1>1, <1>5, <2>1, WorkerHolding DEF Enters, Notes
  <2> QED BY <2>2
<1> QED BY <1>3, <1>4, <1>5 DEF WorkerMove

LEMMA AuditSteps ==
  ASSUME Inv, [Next]_vars
  PROVE  \/ Releases
         \/ \E x \in Writers : \E row : Takes(x, row)
         \/ \E x \in Writers : \E e : Enters(x, e)
<1>1. CASE Crashes
  <2>1. ASSUME NEW y \in Writers, NEW id, NEW v, Holds(y, id, v)'
        PROVE  StillHolds(y, id, v)
    <3>1. /\ y \in Calls => calls'[y] = calls[y]
          /\ y \in Workers => workers'[y] = workers[y]
      BY <1>1, <2>1, CallHolding, WorkerHolding, CrashEndsCalls
         DEF Crashes, IdleWorker, AuditPcs, Answered, At
    <3> QED BY <2>1, <3>1, IdleWriters
  <2> QED BY <1>1, <2>1 DEF Releases, Crashes, storeVars
<1>2. CASE Waits
  <2>1. ASSUME NEW y, NEW id, NEW v, Holds(y, id, v)' PROVE StillHolds(y, id, v)
    BY <1>2, <2>1, IdleWriters DEF Waits
  <2> QED BY <1>2, <2>1 DEF Releases, Waits, storeVars
<1> QED BY <1>1, <1>2, Moves, CallAudits, WorkerAudits DEF Writers

\* The invariant of the log.
HeldOnce ==
  \A x, y \in Writers, id \in Ids, v \in Nat :
      Holds(x, id, v) /\ Holds(y, id, v) => x = y

EntryFits(e) ==
  /\ Exists(e.request)
  /\ e.version <= requests[e.request].version
  /\ \A x \in Writers : Holds(x, e.request, e.version) =>
        HalfDone(x) /\ e.writer = x /\ e.action = "submitted"

SameChange(e, f) ==
  f.request = e.request /\ f.version = e.version =>
      /\ f.writer = e.writer
      /\ {e.action, f.action} \in {{e.action}, {"submitted", "review_assigned"}}

Truthful ==
  /\ HeldOnce
  /\ \A e \in audit : EntryFits(e)
  /\ \A e, f \in audit : SameChange(e, f)

\* A writer that holds a version holds one the request has gone through.
LEMMA HeldVersions ==
  ASSUME Inv, NEW x \in Writers, NEW id, NEW v, Holds(x, id, v)
  PROVE  id \in Ids /\ v \in Nat /\ Exists(id) /\ v <= requests[id].version
<1>1. CASE x \in Calls
  BY <1>1, CallHolding, WrittenRow
<1>2. CASE x \in Workers
  <2>1. /\ workers[x].pc \in AuditPcs /\ Pending(x).id = id /\ Pending(x).version = v
        /\ Pending(x) \in Row /\ IsVersionOf(Pending(x), requests)
    BY <1>2, WorkerHolding, PendingRow DEF AuditPcs
  <2> QED BY <2>1 DEF IsVersionOf, Row, Exists
<1> QED BY <1>1, <1>2 DEF Writers

\* Versions of stored rows never go back.
LEMMA VersionsGrow ==
  ASSUME Inv, [Next]_vars, NEW id \in Ids, Exists(id), NEW v \in Nat,
         v <= requests[id].version
  PROVE  Exists(id)' /\ v <= requests'[id].version
<1>1. requests[id] \in Row /\ requests[id].version \in Nat /\ now \in Nat
  BY TableStep DEF Row
<1>2. CASE requests'[id] = requests[id]
  BY <1>2 DEF Exists
<1>3. CASE IsTransition(requests[id], requests'[id], now)
  <2>1. requests'[id].version = requests[id].version + 1
    BY <1>1, <1>3, TransitionKeepsHistory
  <2> QED BY <1>1, <2>1, TableStep
<1> QED BY <1>2, <1>3, TableStep

LEMMA EntryType ==
  ASSUME Inv, NEW e \in audit
  PROVE  e.request \in Ids /\ e.version \in Nat
BY DEF Inv, TypeOK, AuditEntries

LEMMA TruthfulWhenReleased ==
  ASSUME Inv, Inv', Truthful, [Next]_vars, Releases
  PROVE  Truthful'
<1>1. HeldOnce'
  BY DEF Truthful, HeldOnce, Releases, StillHolds
<1>2. ASSUME NEW e \in audit PROVE EntryFits(e)'
  <2>1. EntryFits(e) /\ e.request \in Ids /\ e.version \in Nat
    BY EntryType DEF Truthful
  <2>2. Exists(e.request)' /\ e.version <= requests'[e.request].version
    BY <2>1, VersionsGrow DEF EntryFits
  <2>3. ASSUME NEW x \in Writers, Holds(x, e.request, e.version)'
        PROVE  HalfDone(x)' /\ e.writer = x /\ e.action = "submitted"
    BY <2>1, <2>3 DEF EntryFits, Releases, StillHolds
  <2> QED BY <2>2, <2>3 DEF EntryFits
<1>3. \A e, f \in audit : SameChange(e, f)'
  BY DEF Truthful, SameChange
<1> QED BY <1>1, <1>2, <1>3 DEF Truthful, Releases

LEMMA TruthfulWhenTaken ==
  ASSUME Inv, Inv', Truthful, [Next]_vars, NEW x \in Writers, NEW row, Takes(x, row)
  PROVE  Truthful'
<1>1. row.id \in Ids /\ row.version \in Nat
  BY DEF Takes, Row
<1>2. ASSUME NEW y \in Writers, Holds(y, row.id, row.version) PROVE FALSE
  <2>1. Exists(row.id) /\ row.version <= requests[row.id].version
    BY <1>2, HeldVersions
  <2>2. requests[row.id].version \in Nat
    BY <1>1, <2>1, StoredRow DEF Row
  <2> QED BY <1>1, <2>1, <2>2 DEF Takes, Exists
<1>3. HeldOnce'
  <2> SUFFICES ASSUME NEW y \in Writers, NEW z \in Writers, NEW id \in Ids, NEW v \in Nat,
                      Holds(y, id, v)', Holds(z, id, v)'
               PROVE  y = z
    BY DEF HeldOnce
  <2>1. CASE y # x /\ z # x
    BY <2>1 DEF Takes, StillHolds, Truthful, HeldOnce
  <2>2. CASE y = x /\ z # x
    BY <1>2, <2>2 DEF Takes, StillHolds
  <2>3. CASE y # x /\ z = x
    BY <1>2, <2>3 DEF Takes, StillHolds
  <2> QED BY <2>1, <2>2, <2>3
<1>4. ASSUME NEW e \in audit PROVE EntryFits(e)'
  <2>1. EntryFits(e) /\ e.request \in Ids /\ e.version \in Nat
    BY EntryType DEF Truthful
  <2>2. Exists(e.request)' /\ e.version <= requests'[e.request].version
    BY <2>1, VersionsGrow DEF EntryFits
  <2>3. ASSUME NEW y \in Writers, Holds(y, e.request, e.version)'
        PROVE  HalfDone(y)' /\ e.writer = y /\ e.action = "submitted"
    <3>1. CASE e.request = row.id /\ e.version = row.version
      <4>1. requests[row.id].version \in Nat
        BY <1>1, <2>1, <3>1, StoredRow DEF Row, EntryFits
      <4> QED BY <1>1, <2>1, <3>1, <4>1 DEF EntryFits, Takes, Exists
    <3>2. CASE ~(e.request = row.id /\ e.version = row.version)
      BY <2>1, <2>3, <3>2 DEF EntryFits, Takes, StillHolds
    <3> QED BY <3>1, <3>2
  <2> QED BY <2>2, <2>3 DEF EntryFits
<1>5. \A e, f \in audit : SameChange(e, f)'
  BY DEF Truthful, SameChange
<1> QED BY <1>3, <1>4, <1>5 DEF Truthful, Takes

LEMMA TruthfulWhenEntered ==
  ASSUME Inv, Inv', Truthful, [Next]_vars, NEW x \in Writers, NEW n, Enters(x, n)
  PROVE  Truthful'
<1>1. n.request \in Ids /\ n.version \in Nat
  BY EntryType DEF Enters, Inv, TypeOK, AuditEntries
<1>2. ASSUME NEW y \in Writers, NEW id \in Ids, NEW v \in Nat, Holds(y, id, v)'
      PROVE  Holds(y, id, v)
  BY <1>2 DEF Enters, StillHolds
<1>3. HeldOnce'
  BY <1>2 DEF Truthful, HeldOnce
<1>4. ASSUME NEW e \in audit PROVE EntryFits(e)'
  <2>1. EntryFits(e) /\ e.request \in Ids /\ e.version \in Nat
    BY EntryType DEF Truthful
  <2>2. Exists(e.request)' /\ e.version <= requests'[e.request].version
    BY <2>1, VersionsGrow DEF EntryFits
  <2>3. ASSUME NEW y \in Writers, Holds(y, e.request, e.version)'
        PROVE  HalfDone(y)' /\ e.writer = y /\ e.action = "submitted"
    BY <2>1, <2>3 DEF EntryFits, Enters, StillHolds
  <2> QED BY <2>2, <2>3 DEF EntryFits
<1>5. EntryFits(n)'
  <2>1. Exists(n.request)' /\ n.version <= requests'[n.request].version
    BY <1>1, HeldVersions, VersionsGrow DEF Enters
  <2>2. ASSUME NEW y \in Writers, Holds(y, n.request, n.version)'
        PROVE  HalfDone(y)' /\ n.writer = y /\ n.action = "submitted"
    <3>1. y = x
      BY <1>1, <1>2, <2>2 DEF Truthful, HeldOnce, Enters
    <3> QED BY <1>1, <2>2, <3>1 DEF Enters
  <2> QED BY <2>1, <2>2 DEF EntryFits
<1>6. ASSUME NEW e \in audit, e.request = n.request, e.version = n.version
      PROVE  e.writer = n.writer /\ e.action = "submitted" /\ n.action = "review_assigned"
  BY <1>6 DEF Truthful, EntryFits, Enters
<1>7. ASSUME NEW e \in audit', NEW f \in audit' PROVE SameChange(e, f)'
  <2>1. CASE e \in audit /\ f \in audit
    BY <2>1 DEF Truthful, SameChange
  <2>2. CASE e = n /\ f = n
    BY <2>2 DEF SameChange
  <2>3. CASE e \in audit /\ f = n
    BY <1>6, <2>3 DEF SameChange
  <2>4. CASE e = n /\ f \in audit
    BY <1>6, <2>4 DEF SameChange
  <2> QED BY <1>7, <2>1, <2>2, <2>3, <2>4 DEF Enters
<1> QED BY <1>3, <1>4, <1>5, <1>7 DEF Truthful, Enters

\* Every entry of the log tells of a version its request went through, and
\* the entries of one version come from the one call or worker that made it
\* (service.go, auditFor and AppendAudit after each UpdateRequest).
THEOREM AuditIsTruthfulHolds == Spec => []AuditIsTruthful
<1>1. Init => Truthful
  <2> SUFFICES ASSUME Init PROVE Truthful
    OBVIOUS
  <2>1. ASSUME NEW x, NEW id, NEW v PROVE ~Holds(x, id, v)
    BY DEF Init, HandlersInit, WorkerInit, IdleCall, IdleWorker, Holds, AuditPcs
  <2> QED BY <2>1 DEF Init, StoreInit, Truthful, HeldOnce
<1>2. Inv /\ Inv' /\ Truthful /\ [Next]_vars => Truthful'
  BY AuditSteps, TruthfulWhenReleased, TruthfulWhenTaken, TruthfulWhenEntered
<1>3. Truthful => AuditIsTruthful
  BY DEF Truthful, EntryFits, SameChange, AuditIsTruthful
<1> QED BY <1>1, <1>2, <1>3, InvHolds, PTL DEF Spec

-----------------------------------------------------------------------------
(* Answers.  A call that has written a version of a request is on its way  *)
(* to its further writes, or was answered: with success, with a server     *)
(* error, or not at all.                                                   *)

Entitled(c) ==
  \/ calls[c].pc \in {"review", "audit", "auditAssigned"} /\ calls[c].result = "none"
  \/ calls[c].pc = "done" /\ calls[c].result \in {"ok", "error", "lost"}

WritersEntitled == \A e \in writes : e.writer \in Calls => Entitled(e.writer)

LEMMA EntitledStays ==
  ASSUME Inv, [Next]_vars, NEW c \in Calls, Entitled(c)
  PROVE  Entitled(c)'
<1>1. CASE CallMove(c)
  BY <1>1 DEF Entitled, CallMove, Begins, Reads, Claims, Creates, Updates, Reviews,
              Audits, Answered, At, InFlight, StorePcs
<1>2. CASE calls'[c] = calls[c]
  BY <1>2 DEF Entitled
<1>3. CASE Crashes
  BY <1>2, <1>3, CrashEndsCalls DEF Entitled, Answered, At
<1> QED BY <1>1, <1>2, <1>3, Moves DEF CallAlone, WorkerAlone, Waits

\* A call whose step changes a request is entitled to it.
LEMMA EntitledWrites ==
  ASSUME Inv, [Next]_vars, requests' # requests, NEW a \in Calls, TakesStep(a)
  PROVE  Entitled(a)'
<1>1. calls'[a] # calls[a]
  BY WritersAssumption DEF TakesStep
<1>2. CallMove(a)
  BY <1>1, Moves DEF CallAlone, WorkerAlone, Crashes, Waits, storeVars
<1>3. Creates(a) \/ Updates(a)
  BY <1>2 DEF CallMove, Begins, Reads, Claims, Reviews, Audits, CreateIdempotency,
              CreateReview, AppendAudit, storeVars
<1> QED BY <1>3 DEF Creates, Updates, Entitled, Answered, At

LEMMA WritersEntitledKeeps ==
  ASSUME Inv, WritersEntitled, [Next]_vars, Record
  PROVE  WritersEntitled'
<1> SUFFICES ASSUME NEW e \in writes', e.writer \in Calls
             PROVE  Entitled(e.writer)'
  BY DEF WritersEntitled
<1>1. CASE e \in writes
  BY <1>1, EntitledStays DEF WritersEntitled
<1>2. CASE e \notin writes
  <2>1. PICK id \in Ids, a \in Writers :
            /\ requests'[id] # requests[id] /\ TakesStep(a)
            /\ e = WriteEntry(id, requests'[id].version, a)
    BY <1>2 DEF Record
  <2>2. e.writer = a /\ requests' # requests
    BY <2>1 DEF WriteEntry
  <2> QED BY <2>1, <2>2, EntitledWrites
<1> QED BY <1>1, <1>2

\* A call that was refused has changed no request: no version of a request was
\* written by it (service.go, the returns before and of UpdateRequest).
THEOREM RefusalsChangeNothingHolds == RecordedSpec => []RefusalsChangeNothing
<1>1. Init /\ writes = {} => Inv /\ WritersEntitled
  BY InitKeeps DEF WritersEntitled
<1>2. Inv /\ WritersEntitled /\ [Next /\ Record]_<<vars, seen, writes>> =>
          Inv' /\ WritersEntitled'
  <2> SUFFICES ASSUME Inv, WritersEntitled, [Next /\ Record]_<<vars, seen, writes>>
               PROVE  Inv' /\ WritersEntitled'
    OBVIOUS
  <2>1. [Next]_vars
    OBVIOUS
  <2>2. CASE Record
    BY <2>1, <2>2, NextKeeps, WritersEntitledKeeps
  <2>3. CASE UNCHANGED <<vars, seen, writes>>
    <3>1. calls' = calls /\ writes' = writes
      BY <2>3 DEF vars
    <3> QED BY <2>1, <3>1, NextKeeps DEF WritersEntitled, Entitled
  <2> QED BY <2>2, <2>3
<1>3. Inv /\ WritersEntitled => RefusalsChangeNothing
  BY DEF WritersEntitled, Entitled, RefusalsChangeNothing
<1> QED BY <1>1, <1>2, <1>3, PTL DEF RecordedSpec

-----------------------------------------------------------------------------
(* Completeness of the log.  Every step that is no failure passes the duty *)
(* to write an entry on, and every change of a request comes with one.     *)

CallOwes(c, id, v) ==
  /\ calls[c].pc \in {"review", "audit"}
  /\ RowOf(c).id = id /\ RowOf(c).version = v

WorkerOwes(w, id, v) ==
  /\ workers[w].pc \in AuditPcs
  /\ Pending(w).id = id /\ Pending(w).version = v

LEMMA OwesAuditMeans ==
  ASSUME NEW id, NEW v
  PROVE  /\ OwesAudit(id, v) <=> \/ \E c \in Calls : CallOwes(c, id, v)
                                 \/ \E w \in Workers : WorkerOwes(w, id, v)
         /\ OwesAudit(id, v)' <=> \/ \E c \in Calls : CallOwes(c, id, v)'
                                  \/ \E w \in Workers : WorkerOwes(w, id, v)'
BY DEF OwesAudit, CallOwes, WorkerOwes, AuditPcs

LEMMA EntriesStay ==
  ASSUME Inv, [Next]_vars
  PROVE  audit \subseteq audit'
<1>1. ASSUME NEW c \in Calls, CallMove(c) PROVE audit \subseteq audit'
  BY <1>1 DEF CallMove, Begins, Reads, Claims, Creates, Updates, Reviews, Audits,
              CreateIdempotency, CreateRequest, UpdateRequest, CreateReview,
              AppendAudit, storeVars
<1>2. ASSUME NEW w \in Workers, WorkerMove(w) PROVE audit \subseteq audit'
  BY <1>2 DEF WorkerMove, Rests, Rewrites, Notes, UpdateRequest, AppendAudit
<1> QED BY <1>1, <1>2, Moves DEF Crashes, Waits, storeVars

\* What a call owes it still owes after a step of its own, or has written.
LEMMA CallKeepsDuty ==
  ASSUME Inv, NEW c \in Calls, CallMove(c), ~Fails, NEW id, NEW v, CallOwes(c, id, v)
  PROVE  CallOwes(c, id, v)' \/ Audited(id, v)'
<1>1. calls[c].pc \in {"review", "audit"} /\ RowOf(c).id = id /\ RowOf(c).version = v
  BY DEF CallOwes
<1>2. CASE Reviews(c)
  BY <1>1, <1>2 DEF Reviews, CallOwes, KeepsRow, At
<1>3. CASE Audits(c)
  <2>1. At(c, "audit")
    BY <1>1, <1>3 DEF Audits, At
  <2>2. AppendAudit(RowOf(c), ActorOf(c), AuditAction(c), c)
    BY <1>3, <2>1 DEF Audits, At
  <2> QED BY <1>1, <2>2, AppendedEntry DEF Audited
<1> QED
  BY <1>1, <1>2, <1>3 DEF CallMove, Begins, Reads, Claims, Creates, Updates, At

LEMMA WorkerKeepsDuty ==
  ASSUME NEW w \in Workers, WorkerMove(w), ~Fails, NEW id, NEW v, WorkerOwes(w, id, v)
  PROVE  Audited(id, v)'
<1>1. workers[w].pc \in AuditPcs /\ Pending(w).id = id /\ Pending(w).version = v
  BY DEF WorkerOwes
<1>2. Notes(w)
  BY <1>1 DEF WorkerMove, Rests, Rewrites
<1> QED BY <1>1, <1>2, AppendedEntry DEF Notes, Audited

LEMMA DutiesPassOn ==
  ASSUME Inv, [Next]_vars, ~Fails, NEW id, NEW v, OwesAudit(id, v)
  PROVE  OwesAudit(id, v)' \/ Audited(id, v)'
<1>1. ASSUME NEW c \in Calls, calls'[c] = calls[c], CallOwes(c, id, v)
      PROVE  CallOwes(c, id, v)'
  BY <1>1 DEF CallOwes, RowOf
<1>2. ASSUME NEW w \in Workers, workers'[w] = workers[w], WorkerOwes(w, id, v)
      PROVE  WorkerOwes(w, id, v)'
  BY <1>2 DEF WorkerOwes, Pending
<1>3. CASE \E c \in Calls : CallMove(c) /\ CallAlone(c)
  BY <1>1, <1>2, <1>3, CallKeepsDuty, OwesAuditMeans DEF CallAlone
<1>4. CASE \E w \in Workers : WorkerMove(w) /\ WorkerAlone(w)
  BY <1>1, <1>2, <1>4, WorkerKeepsDuty, OwesAuditMeans DEF WorkerAlone
<1>5. CASE Waits
  BY <1>1, <1>2, <1>5, OwesAuditMeans DEF Waits
<1> QED BY <1>3, <1>4, <1>5, Moves DEF Crashes

\* A version a step adds is owed by whoever made the step.
NewVersionsOwed ==
  \A id \in Ids : Exists(id)' =>
      \A v \in 1..requests'[id].version :
          \/ Exists(id) /\ v \in 1..requests[id].version
          \/ OwesAudit(id, v)'

LEMMA UpdatedVersions ==
  ASSUME Inv, NEW row \in Row, UpdateRequest(row), OwesAudit(row.id, row.version)'
  PROVE  NewVersionsOwed
<1>1. /\ requests[row.id] # Nil /\ requests[row.id].version \in Nat
      /\ requests[row.id].version + 1 = row.version
  BY UpdatesAreNewer
<1>2. /\ requests' = [requests EXCEPT ![row.id] = row]
      /\ requests \in [Ids -> Row \cup {Nil}]
  BY DEF UpdateRequest, Inv, TypeOK
<1> SUFFICES ASSUME NEW id \in Ids, Exists(id)', NEW v \in 1..requests'[id].version
             PROVE  \/ Exists(id) /\ v \in 1..requests[id].version
                    \/ OwesAudit(id, v)'
  BY DEF NewVersionsOwed
<1>3. CASE id = row.id
  <2>1. requests'[id].version = requests[id].version + 1 /\ Exists(id)
    BY <1>1, <1>2, <1>3 DEF Exists
  <2>2. v \in 1..requests[id].version \/ v = row.version
    BY <1>1, <1>3, <2>1
  <2> QED BY <1>3, <2>1, <2>2
<1>4. CASE id # row.id
  BY <1>2, <1>4 DEF Exists
<1> QED BY <1>3, <1>4

LEMMA SameVersions ==
  ASSUME requests' = requests
  PROVE  NewVersionsOwed
BY DEF NewVersionsOwed, Exists

LEMMA CallAddsDuty ==
  ASSUME Inv, NEW c \in Calls, CallMove(c), ~Fails
  PROVE  NewVersionsOwed
<1>0. PICK row : row = RowOf(c)
  OBVIOUS
<1>1. CASE Creates(c)
  <2>1. IsNewDraft(c) /\ calls[c].id \in Ids
    BY <1>1, CallFacts DEF Creates, Inv, NoLostUpdate, At, InFlight, StorePcs
  <2>2. row.id = calls[c].id /\ row.version = 1
    BY <2>1, <1>0 DEF IsNewDraft, DraftRow
  <2>3. requests' = [requests EXCEPT ![row.id] = row]
    BY <1>0, <1>1 DEF Creates, CreateRequest
  <2>4. CallOwes(c, row.id, 1)'
    BY <1>0, <1>1, <2>2 DEF Creates, CallOwes, KeepsRow, At
  <2>5. ASSUME NEW id \in Ids, Exists(id)', NEW v \in 1..requests'[id].version
        PROVE  \/ Exists(id) /\ v \in 1..requests[id].version
               \/ OwesAudit(id, v)'
    <3>1. CASE id = row.id
      <4>1. v = 1
        BY <2>1, <2>2, <2>3, <2>5, <3>1 DEF Inv, TypeOK
      <4> QED BY <2>2, <2>4, <3>1, <4>1, OwesAuditMeans
    <3>2. CASE id # row.id
      BY <2>3, <2>5, <3>2 DEF Exists, Inv, TypeOK
    <3> QED BY <3>1, <3>2
  <2> QED BY <2>5 DEF NewVersionsOwed
<1>2. CASE Updates(c)
  <2>1. InFlight(c) /\ UpdateRequest(row)
    BY <1>0, <1>2 DEF Updates, At, InFlight, StorePcs
  <2>2. row \in Row
    BY <1>0, <1>2, <2>1, CallFacts DEF Updates, CallIsSafe, IsSafeWrite, At, RowOf
  <2>3. CallOwes(c, row.id, row.version)'
    BY <1>0, <1>2 DEF Updates, CallOwes, KeepsRow
  <2> QED BY <2>1, <2>2, <2>3, OwesAuditMeans, UpdatedVersions
<1>3. CASE ~Creates(c) /\ ~Updates(c)
  BY <1>3, SameVersions DEF CallMove, Begins, Reads, Claims, Reviews, Audits,
                            CreateIdempotency, CreateReview, AppendAudit, storeVars
<1> QED BY <1>1, <1>2, <1>3

LEMMA WorkerAddsDuty ==
  ASSUME Inv, NEW w \in Workers, WorkerMove(w), ~Fails
  PROVE  NewVersionsOwed
<1>1. CASE Rewrites(w)
  <2>1. PICK row \in Row : /\ UpdateRequest(row)
                           /\ workers'[w].pc \in AuditPcs /\ Pending(w)' = row
    BY <1>1 DEF Rewrites
  <2>2. WorkerOwes(w, row.id, row.version)'
    BY <2>1 DEF WorkerOwes
  <2> QED BY <2>1, <2>2, OwesAuditMeans, UpdatedVersions
<1>2. CASE ~Rewrites(w)
  BY <1>2, SameVersions DEF WorkerMove, Rests, Notes, AppendAudit
<1> QED BY <1>1, <1>2

LEMMA FailuresAreCounted ==
  ASSUME Inv, [Next]_vars, faults' = 0
  PROVE  faults = 0 /\ ~Fails
<1>1. faults \in Nat
  BY DEF Inv, TypeOK
<1>2. faults' = faults \/ faults' = faults + 1
  BY DEF Next, CallStep, CallFault, WorkStep, WorkFault, Tick, Restart, Fault, vars
<1> QED BY <1>1, <1>2 DEF Fails

LEMMA AuditCompleteKeeps ==
  ASSUME Inv, AuditComplete, [Next]_vars
  PROVE  AuditComplete'
<1> SUFFICES ASSUME faults' = 0, NEW id \in Ids, Exists(id)',
                    NEW v \in 1..requests'[id].version
             PROVE  Audited(id, v)' \/ OwesAudit(id, v)'
  BY DEF AuditComplete, EveryTransitionAudited
<1>1. ~Fails /\ EveryTransitionAudited
  BY FailuresAreCounted DEF AuditComplete
<1>2. NewVersionsOwed
  BY <1>1, CallAddsDuty, WorkerAddsDuty, SameVersions, Moves DEF Crashes, Waits, storeVars
<1>3. CASE Exists(id) /\ v \in 1..requests[id].version
  <2>1. Audited(id, v) => Audited(id, v)'
    BY EntriesStay DEF Audited
  <2> QED BY <1>1, <1>3, <2>1, DutiesPassOn DEF EveryTransitionAudited
<1> QED BY <1>2, <1>3 DEF NewVersionsOwed

\* As long as no store call failed and no process stopped, every version a
\* request went through has its entry, or somebody is on the way to write it.
THEOREM AuditCompleteHolds == Spec => []AuditComplete
<1>1. Init => AuditComplete
  BY DEF Init, StoreInit, AuditComplete, EveryTransitionAudited, Exists
<1> QED BY <1>1, AuditCompleteKeeps, InvHolds, PTL DEF Spec

=============================================================================
