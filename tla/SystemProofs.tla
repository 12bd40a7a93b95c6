---------------------------- MODULE SystemProofs ----------------------------
(***************************************************************************)
(* Proofs about module System for every set of requests, users, calls and  *)
(* workers, every configuration and every number of failures.              *)
(***************************************************************************)
EXTENDS Properties, RowProofs

-----------------------------------------------------------------------------
(* What the steps of others leave of a row in somebody's hands. *)

Tables == [Ids -> Row \cup {Nil}]

\* No request disappears, and one that changes gets the next version.
Grows(old, new) ==
  \A id \in Ids : old[id] # Nil =>
      /\ new[id] # Nil
      /\ new[id] = old[id] \/ new[id].version = old[id].version + 1

LEMMA GrowsRefl ==
  ASSUME NEW table
  PROVE  Grows(table, table)
BY DEF Grows

\* A snapshot stays a version of the stored row whatever others write.
LEMMA VersionSurvives ==
  ASSUME NEW old \in Tables, NEW new \in Tables, Grows(old, new),
         NEW row \in Row \cup {Nil}, IsVersionOf(row, old)
  PROVE  IsVersionOf(row, new)
<1>1. row \in Row /\ row.id \in Ids /\ row.version \in Nat
  BY DEF IsVersionOf, Row
<1>2. old[row.id] \in Row /\ old[row.id].version \in Nat
  BY <1>1 DEF IsVersionOf, Tables, Row
<1>3. new[row.id] # Nil
  BY <1>1, <1>2 DEF Grows, IsVersionOf
<1>4. CASE new[row.id] = old[row.id]
  BY <1>4 DEF IsVersionOf
<1>5. CASE new[row.id].version = old[row.id].version + 1
  BY <1>1, <1>2, <1>3, <1>5 DEF IsVersionOf
<1> QED BY <1>1, <1>2, <1>4, <1>5 DEF Grows, IsVersionOf

\* A write that is safe stays so: either nobody touched the request, or the
\* version check will refuse it.
LEMMA SafeWriteSurvives ==
  ASSUME NEW old \in Tables, NEW new \in Tables, Grows(old, new),
         NEW time \in Nat, NEW later \in Nat, time <= later,
         NEW row \in Row \cup {Nil}, IsSafeWrite(row, old, time)
  PROVE  IsSafeWrite(row, new, later)
<1>1. row \in Row /\ row.id \in Ids /\ row.version \in Nat
  BY DEF IsSafeWrite, Row
<1>2. old[row.id] \in Row /\ old[row.id].version \in Nat
  BY <1>1 DEF IsSafeWrite, Tables, Row
<1>3. new[row.id] # Nil
  BY <1>1, <1>2 DEF Grows, IsSafeWrite
<1>4. CASE new[row.id] = old[row.id]
  <2>1. ASSUME IsTransition(old[row.id], row, time)
        PROVE  IsTransition(old[row.id], row, later)
    <3>1. \A t \in 0..time : t \in 0..later
      OBVIOUS
    <3> HIDE DEF IsTransition
    <3> QED BY <2>1, <3>1 DEF IsTransition
  <2> QED BY <1>3, <1>4, <2>1 DEF IsSafeWrite
<1>5. CASE new[row.id].version = old[row.id].version + 1
  BY <1>1, <1>2, <1>3, <1>5 DEF IsSafeWrite
<1> QED BY <1>1, <1>2, <1>4, <1>5 DEF Grows, IsSafeWrite

\* So calls and workers that do not move stay safe.
LEMMA CallStaysSafe ==
  ASSUME NEW old \in Tables, NEW new \in Tables, Grows(old, new),
         NEW time \in Nat, NEW later \in Nat, time <= later,
         NEW call \in Call, CallIsSafe(call, old, time)
  PROVE  CallIsSafe(call, new, later)
<1>1. call.row \in Row \cup {Nil}
  BY DEF Call
<1> QED
  BY <1>1, VersionSurvives, SafeWriteSurvives DEF CallIsSafe

LEMMA WorkerStaysSafe ==
  ASSUME NEW old \in Tables, NEW new \in Tables, Grows(old, new),
         NEW time \in Nat, NEW later \in Nat, time <= later,
         NEW worker \in WorkerState, WorkerIsSafe(worker, old, time)
  PROVE  WorkerIsSafe(worker, new, later)
<1>1. worker.row \in Row \cup {Nil} /\ worker.batch \subseteq Row /\ worker.pass \in Nat
  BY DEF WorkerState
<1>2. \A r \in worker.batch : IsVersionOf(r, new)
  BY <1>1, VersionSurvives DEF WorkerIsSafe
<1>3. worker.pass <= time => worker.pass <= later
  BY <1>1
<1> QED
  BY <1>1, <1>2, <1>3, VersionSurvives, SafeWriteSurvives DEF WorkerIsSafe

-----------------------------------------------------------------------------
(* The inductive invariant.  The types of the rows in the calls' and the   *)
(* workers' hands are needed to say what is written, and what is written   *)
(* to say that the types stay.                                             *)

Inv == TypeOK /\ NoLostUpdate

Logs ==
    /\ audit \subseteq AuditEntries
    /\ reviews \subseteq ReviewActions
    /\ idempotency \subseteq IdempotencyRecords
    /\ jobRuns \subseteq JobRuns

Keyed(table) == \A id \in Ids : table[id] # Nil => table[id].id = id

\* One call moves from one store call to the next, or to its answer.
LEMMA CallMoves ==
  ASSUME Inv, NEW c \in Calls, NEW k \in Call, calls' = [calls EXCEPT ![c] = k],
         k.pc # "create", CallIsSafe(k, requests', now),
         requests' \in Tables, Keyed(requests'), Grows(requests, requests'),
         \A d \in Calls \ {c} : At(d, "create") => requests'[calls[d].id] = Nil,
         Logs', now' = now, workers' = workers, executions' = executions,
         faults' \in Nat
  PROVE  Inv'
<1> USE DEF Inv
<1>1. TypeOK'
  BY DEF TypeOK, Tables, Logs
<1>2. Keyed(requests)'
  BY DEF Keyed
<1>3. ASSUME NEW d \in Calls
      PROVE  CallIsSafe(calls[d], requests, now)'
  <2>1. CASE d = c
    BY <2>1 DEF TypeOK
  <2>2. CASE d # c
    <3>1. calls[d] \in Call /\ calls'[d] = calls[d] /\ now \in Nat /\ now <= now
          /\ requests \in Tables
      BY <2>2 DEF TypeOK, Tables
    <3>2. CallIsSafe(calls[d], requests, now)
      BY DEF NoLostUpdate
    <3> QED BY <3>1, <3>2, CallStaysSafe
  <2> QED BY <2>1, <2>2
<1>4. ASSUME NEW d \in Calls, At(d, "create")'
      PROVE  IsNewDraft(d)'
  <2>1. d # c /\ calls'[d] = calls[d] /\ At(d, "create")
    BY <1>4 DEF TypeOK, At
  <2>2. IsNewDraft(d)
    BY <2>1 DEF NoLostUpdate
  <2>3. ASSUME NEW e \in Calls \ {d}, At(e, "create")' PROVE calls'[e].id # calls'[d].id
    BY <2>1, <2>2, <2>3 DEF TypeOK, At, IsNewDraft
  <2> QED BY <2>1, <2>2, <2>3 DEF IsNewDraft, RowOf, Exists, At
<1>5. ASSUME NEW w \in Workers
      PROVE  WorkerIsSafe(workers[w], requests, now)'
  <2>1. workers[w] \in WorkerState /\ now \in Nat /\ now <= now /\ requests \in Tables
    BY DEF TypeOK, Tables
  <2>2. WorkerIsSafe(workers[w], requests, now)
    BY DEF NoLostUpdate
  <2> QED BY <2>1, <2>2, WorkerStaysSafe
<1> QED BY <1>1, <1>2, <1>3, <1>4, <1>5 DEF NoLostUpdate, Keyed, Exists

\* One worker moves.
LEMMA WorkerMoves ==
  ASSUME Inv, NEW w \in Workers, NEW k \in WorkerState,
         workers' = [workers EXCEPT ![w] = k], WorkerIsSafe(k, requests', now),
         requests' \in Tables, Keyed(requests'), Grows(requests, requests'),
         \A d \in Calls : At(d, "create") => requests'[calls[d].id] = Nil,
         Logs', now' = now, calls' = calls, executions' \in [Workers -> [Ids -> Nat]],
         faults' \in Nat
  PROVE  Inv'
<1> USE DEF Inv
<1>1. TypeOK'
  BY DEF TypeOK, Tables, Logs
<1>2. Keyed(requests)'
  BY DEF Keyed
<1>3. now \in Nat /\ now <= now /\ requests \in Tables
  BY DEF TypeOK, Tables
<1>4. ASSUME NEW d \in Calls
      PROVE  CallIsSafe(calls[d], requests, now)'
  <2>1. calls[d] \in Call /\ CallIsSafe(calls[d], requests, now)
    BY DEF TypeOK, NoLostUpdate
  <2> QED BY <1>3, <2>1, CallStaysSafe
<1>5. ASSUME NEW d \in Calls, At(d, "create")'
      PROVE  IsNewDraft(d)'
  BY <1>5 DEF NoLostUpdate, IsNewDraft, RowOf, Exists, At
<1>6. ASSUME NEW v \in Workers
      PROVE  WorkerIsSafe(workers[v], requests, now)'
  <2>1. CASE v = w
    BY <2>1 DEF TypeOK
  <2>2. CASE v # w
    <3>1. workers[v] \in WorkerState /\ workers'[v] = workers[v]
          /\ WorkerIsSafe(workers[v], requests, now)
      BY <2>2 DEF TypeOK, NoLostUpdate
    <3> QED BY <1>3, <3>1, WorkerStaysSafe
  <2> QED BY <2>1, <2>2
<1> QED BY <1>1, <1>2, <1>4, <1>5, <1>6 DEF NoLostUpdate, Keyed, Exists

-----------------------------------------------------------------------------
(* The steps of a call. *)

\* What is known of a call under way, and of the row it holds.
LEMMA CallFacts ==
  ASSUME Inv, NEW c \in Calls, InFlight(c)
  PROVE  /\ calls[c] \in Call
         /\ calls[c].msg \in Traffic /\ calls[c].id \in Ids
         /\ Op(c) \in Ops /\ ActorOf(c) \in Actors
         /\ Key(c) \in STRING /\ calls[c].msg.payload \in STRING
         /\ RowOf(c) \in Row \cup {Nil}
         /\ CallIsSafe(calls[c], requests, now)
<1>1. calls[c] \in Call /\ CallIsSafe(calls[c], requests, now)
  BY DEF Inv, TypeOK, NoLostUpdate
<1>2. calls[c].msg \in Traffic /\ calls[c].id \in Ids
  BY <1>1 DEF CallIsSafe, InFlight
<1>3. calls[c].msg \in Messages
  BY <1>2, TrafficAssumption
<1> QED BY <1>1, <1>2, <1>3 DEF Messages, Op, ActorOf, Key, RowOf, Call

LEMMA CallAtFields ==
  ASSUME NEW c, NEW pc, NEW row, NEW result
  PROVE  /\ CallAt(c, pc, row, result).pc = pc
         /\ CallAt(c, pc, row, result).msg = calls[c].msg
         /\ CallAt(c, pc, row, result).id = calls[c].id
         /\ CallAt(c, pc, row, result).row = row
BY DEF CallAt

LEMMA CallAtType ==
  ASSUME NEW c, calls[c] \in Call, NEW pc \in StorePcs \cup {"idle", "done"},
         NEW row \in Row \cup {Nil}, NEW result \in Results
  PROVE  CallAt(c, pc, row, result) \in Call
BY DEF CallAt, Call

\* A stored row is a version of itself.
LEMMA StoredRow ==
  ASSUME Inv, NEW id \in Ids, Exists(id)
  PROVE  /\ requests[id] \in Row /\ requests[id].id = id
         /\ IsVersionOf(requests[id], requests)
<1>1. requests[id] \in Row /\ requests[id].id = id
  BY DEF Inv, TypeOK, NoLostUpdate, Exists
<1> QED BY <1>1 DEF IsVersionOf, Exists, Row

\* What holds of the table and the clock when a step leaves the requests alone.
Quiet == requests' = requests /\ now' = now /\ Logs' /\ executions' = executions
         /\ faults' \in Nat

LEMMA QuietTable ==
  ASSUME Inv, requests' = requests
  PROVE  /\ requests' \in Tables /\ Keyed(requests') /\ Grows(requests, requests')
         /\ \A d \in Calls : At(d, "create") => requests'[calls[d].id] = Nil
BY DEF Inv, TypeOK, NoLostUpdate, Tables, Keyed, Grows, Exists, IsNewDraft

\* A call is answered: it holds nothing any more.
LEMMA FinishKeeps ==
  ASSUME Inv, NEW c \in Calls, NEW result \in Results, NEW row \in Row \cup {Nil},
         Finish(c, result, row), Quiet, workers' = workers
  PROVE  Inv'
<1> DEFINE k == CallAt(c, "done", row, result)
<1>1. k \in Call
  BY CallAtType DEF Inv, TypeOK
<1>2. k.pc = "done"
  BY CallAtFields
<1>3. calls' = [calls EXCEPT ![c] = k]
  BY DEF Finish
<1> HIDE DEF k
<1>4. CallIsSafe(k, requests', now)
  BY <1>2 DEF CallIsSafe, StorePcs
<1> QED BY <1>1, <1>2, <1>3, <1>4, QuietTable, CallMoves DEF Quiet

\* A call goes on to its next store call with a row that is safe to hold there.
LEMMA GotoKeeps ==
  ASSUME Inv, NEW c \in Calls, InFlight(c), NEW pc \in StorePcs \ {"create"},
         NEW row \in Row \cup {Nil}, Goto(c, pc, row),
         CallIsSafe(CallAt(c, pc, row, "none"), requests, now),
         Quiet, workers' = workers
  PROVE  Inv'
<1> DEFINE k == CallAt(c, pc, row, "none")
<1>1. k \in Call
  BY CallAtType, CallFacts DEF Results
<1>2. k.pc # "create"
  BY CallAtFields
<1>3. calls' = [calls EXCEPT ![c] = k]
  BY DEF Goto
<1>4. CallIsSafe(k, requests', now)
  BY DEF Quiet
<1> HIDE DEF k
<1> QED BY <1>1, <1>2, <1>3, <1>4, QuietTable, CallMoves DEF Quiet

LEMMA UnchangedIsQuiet ==
  ASSUME Inv, UNCHANGED storeVars, now' = now, executions' = executions,
         faults' \in Nat
  PROVE  Quiet
BY DEF Inv, TypeOK, Quiet, Logs, storeVars

LEMMA FailKeeps ==
  ASSUME Inv, NEW c \in Calls, NEW result \in Results, Fail(c, result),
         now' = now, executions' = executions, faults' \in Nat, workers' = workers
  PROVE  Inv'
<1>1. UNCHANGED storeVars /\ Finish(c, result, Nil)
  BY DEF Fail
<1>2. Quiet
  BY <1>1, UnchangedIsQuiet
<1> QED BY <1>1, <1>2, FinishKeeps

\* The calls of ensureIdempotency and of the inserts: a row in the hands of a
\* call that is no "update" and no "create" need only be a version of the
\* stored one.
LEMMA HeldRowIsSafe ==
  ASSUME NEW c \in Calls, calls[c].msg \in Traffic, calls[c].id \in Ids,
         NEW row, IsVersionOf(row, requests),
         NEW pc \in {"recheck", "reload", "replayLookup", "replayClaim", "audit",
                     "auditAssigned"}
  PROVE  CallIsSafe(CallAt(c, pc, row, "none"), requests, now)
<1> DEFINE k == CallAt(c, pc, row, "none")
<1>1. k.pc = pc /\ k.msg \in Traffic /\ k.id \in Ids /\ k.row = row
  BY CallAtFields
<1> HIDE DEF k
<1>2. CallIsSafe(k, requests, now)
  BY <1>1 DEF CallIsSafe
<1> QED BY <1>2 DEF k

LEMMA LoadKeeps ==
  ASSUME Inv, NEW c \in Calls, Load(c), UNCHANGED <<now, workers, executions, faults>>
  PROVE  Inv'
<1> DEFINE id == calls[c].id
           row == requests[id]
<1>1. InFlight(c) /\ Quiet
  <2>1. faults' \in Nat
    BY DEF Inv, TypeOK
  <2> QED BY <2>1, UnchangedIsQuiet DEF Load, InFlight, At, StorePcs
<1>2. calls[c].msg \in Traffic /\ id \in Ids /\ Op(c) \in Ops
  BY <1>1, CallFacts
<1>3. ASSUME NEW result \in Results, Finish(c, result, Nil) PROVE Inv'
  BY <1>1, <1>3, FinishKeeps
<1>4. CASE ~Exists(id)
  BY <1>3, <1>4 DEF Load, Results
<1>5. CASE Exists(id)
  <2>1. row \in Row /\ IsVersionOf(row, requests)
    BY <1>2, <1>5, StoredRow
  <2>2. ASSUME NEW pc \in {"lookup", "replayLookup"}, Goto(c, pc, row),
               pc = "lookup" => \/ Op(c) = "submit"
                                \/ Op(c) \in Decisions /\ row.status = "pending_review"
        PROVE  Inv'
    <3> DEFINE k == CallAt(c, pc, row, "none")
    <3>1. k.pc = pc /\ k.msg = calls[c].msg /\ k.id \in Ids /\ k.row = row
      BY <1>2, CallAtFields
    <3> HIDE DEF k, row
    <3>2. CallIsSafe(k, requests, now)
      BY <1>2, <2>1, <2>2, <3>1 DEF CallIsSafe, Op
    <3> QED BY <1>1, <2>1, <2>2, <3>2, GotoKeeps DEF k, StorePcs
  <2>3. CASE Op(c) = "submit" /\ LoadForSubmit(c, row)
    BY <1>3, <2>2, <2>3 DEF LoadForSubmit, RequireKey, Results
  <2>4. CASE Op(c) \in Decisions /\ LoadForReview(c, row)
    BY <1>3, <2>2, <2>4 DEF LoadForReview, RequireKey, Results
  <2>5. CASE Op(c) = "execution" /\ LoadForExecution(c, row)
    <3>1. CASE ~AwaitsExecution(row)
      BY <1>3, <2>5, <3>1 DEF LoadForExecution, Results
    <3>2. CASE AwaitsExecution(row)
      <4> DEFINE new == ExecutionRow(row, Success(c), now)
                 k == CallAt(c, "update", new, "none")
      <4>1. now \in Nat /\ Success(c) \in BOOLEAN
        BY DEF Inv, TypeOK, Success
      <4>2. new \in Row /\ new.id = row.id /\ new.version = row.version + 1
        BY <2>1, <4>1, ExecutionRowFollows DEF Follows
      <4>3. IsTransition(row, new, now)
        BY <3>2, <4>1 DEF IsTransition
      <4>4. row.id = id /\ row.version \in Nat /\ row # Nil
        BY <1>2, <1>5, <2>1, StoredRow DEF Row, Exists
      <4>5. Goto(c, "update", new)
        BY <2>5, <3>2 DEF LoadForExecution
      <4>6. k.pc = "update" /\ k.msg = calls[c].msg /\ k.id = id /\ k.row = new
        BY CallAtFields
      <4>7. requests[new.id] = row /\ new # Nil
        BY <4>2, <4>4, NilAssumption
      <4> HIDE DEF new, k, row
      <4>8. IsSafeWrite(new, requests, now)
        BY <4>2, <4>3, <4>4, <4>7 DEF IsSafeWrite
      <4>9. CallIsSafe(k, requests, now)
        BY <1>2, <4>6, <4>8 DEF CallIsSafe
      <4> QED BY <1>1, <4>2, <4>5, <4>9, GotoKeeps DEF k, StorePcs
    <3> QED BY <3>1, <3>2
  <2> QED BY <1>5, <2>3, <2>4, <2>5 DEF Load
<1> QED BY <1>4, <1>5

\* A row computed by an operation from the row it holds is safe to write.
LEMMA NextWriteIsSafe ==
  ASSUME Inv, NEW row \in Row, IsVersionOf(row, requests),
         NEW new, Follows(new, row), IsTransition(row, new, now)
  PROVE  IsSafeWrite(new, requests, now)
BY NilAssumption DEF Follows, IsVersionOf, IsSafeWrite, Row

\* So a call may carry it to its update.
LEMMA GotoUpdateKeeps ==
  ASSUME Inv, NEW c \in Calls, InFlight(c), NEW row \in Row, IsVersionOf(row, requests),
         NEW new, Follows(new, row), IsTransition(row, new, now),
         Goto(c, "update", new), Quiet, workers' = workers
  PROVE  Inv'
<1> DEFINE k == CallAt(c, "update", new, "none")
<1>1. k.pc = "update" /\ k.msg \in Traffic /\ k.id \in Ids /\ k.row = new
  BY CallAtFields, CallFacts
<1>2. IsSafeWrite(new, requests, now)
  BY NextWriteIsSafe
<1> HIDE DEF k
<1>3. CallIsSafe(k, requests, now)
  BY <1>1, <1>2 DEF CallIsSafe
<1> QED BY <1>3, GotoKeeps DEF k, StorePcs, Follows

LEMMA LookupKeeps ==
  ASSUME Inv, NEW c \in Calls, Lookup(c), UNCHANGED <<now, workers, executions, faults>>
  PROVE  Inv'
<1>1. InFlight(c) /\ Quiet
  <2>1. faults' \in Nat
    BY DEF Inv, TypeOK
  <2> QED BY <2>1, UnchangedIsQuiet DEF Lookup, InFlight, At, StorePcs
<1>2. /\ calls[c].msg \in Traffic /\ calls[c].id \in Ids /\ RowOf(c) \in Row \cup {Nil}
      /\ IsVersionOf(RowOf(c), requests)
      /\ \/ Op(c) = "submit"
         \/ Op(c) \in Decisions /\ RowOf(c).status = "pending_review"
  BY <1>1, CallFacts DEF Lookup, At, CallIsSafe, Op, RowOf
<1>3. CASE Goto(c, "claim", RowOf(c))
  <2> DEFINE k == CallAt(c, "claim", RowOf(c), "none")
  <2>1. k.pc = "claim" /\ k.msg = calls[c].msg /\ k.id \in Ids /\ k.row = RowOf(c)
    BY <1>2, CallAtFields
  <2> HIDE DEF k
  <2>2. CallIsSafe(k, requests, now)
    BY <1>2, <2>1 DEF CallIsSafe, Op
  <2> QED BY <1>1, <1>2, <1>3, <2>2, GotoKeeps DEF k, StorePcs
<1>4. CASE Finish(c, "key_used", Nil)
  BY <1>1, <1>4, FinishKeeps DEF Results
<1>5. CASE Goto(c, "reload", RowOf(c))
  BY <1>1, <1>2, <1>5, HeldRowIsSafe, GotoKeeps DEF StorePcs
<1> QED BY <1>3, <1>4, <1>5 DEF Lookup

\* The records of an insert of ensureIdempotency.
LEMMA ClaimIsQuiet ==
  ASSUME Inv, NEW c \in Calls, InFlight(c),
         CreateIdempotency(Scope(c), Key(c), Fingerprint(c)),
         now' = now, executions' = executions, faults' \in Nat
  PROVE  Quiet
<1> DEFINE record == [scope |-> Scope(c), key |-> Key(c), fingerprint |-> Fingerprint(c)]
<1>1. Scope(c) \in Ops \X Ids /\ Key(c) \in STRING
  BY CallFacts DEF Scope
<1>2. Fingerprint(c) \in STRING
  BY CallFacts, UsersAssumption DEF Fingerprint, Actors
<1>3. record \in IdempotencyRecords
  BY <1>1, <1>2 DEF IdempotencyRecords
<1>4. idempotency' = idempotency \cup {record}
      /\ UNCHANGED <<requests, audit, reviews, jobRuns>>
  BY DEF CreateIdempotency
<1> HIDE DEF record
<1> QED BY <1>3, <1>4 DEF Inv, TypeOK, Quiet, Logs

LEMMA ClaimKeeps ==
  ASSUME Inv, NEW c \in Calls, Claim(c), UNCHANGED <<now, workers, executions, faults>>
  PROVE  Inv'
<1> DEFINE row == RowOf(c)
<1>1. InFlight(c) /\ now \in Nat /\ faults' \in Nat
  BY DEF Inv, TypeOK, Claim, At, InFlight, StorePcs
<1>2. /\ calls[c].msg \in Traffic /\ calls[c].id \in Ids /\ row \in Row \cup {Nil}
      /\ IsVersionOf(row, requests)
      /\ \/ Op(c) = "submit"
         \/ Op(c) \in Decisions /\ row.status = "pending_review"
  BY <1>1, CallFacts DEF Claim, At, CallIsSafe, Op, RowOf
<1>3. row \in Row
  BY <1>2 DEF IsVersionOf
<1> HIDE DEF row
<1>4. CASE CreateIdempotency(Scope(c), Key(c), Fingerprint(c))
           /\ Op(c) = "submit" /\ SubmitClaimed(c, row)
  <2>1. Quiet
    BY <1>1, <1>4, ClaimIsQuiet
  <2>2. CASE Finish(c, "conflict", Nil)
    BY <2>1, <2>2, FinishKeeps DEF Results
  <2>3. CASE row.status = "draft" /\ Goto(c, "update", SubmittedRow(row, now))
    <3>1. Follows(SubmittedRow(row, now), row)
      BY <1>1, <1>3, SubmittedRowFollows
    <3>2. IsTransition(row, SubmittedRow(row, now), now)
      BY <1>1, <2>3 DEF IsTransition
    <3> QED BY <1>1, <1>2, <1>3, <2>1, <2>3, <3>1, <3>2, GotoUpdateKeeps
  <2> QED BY <1>4, <2>2, <2>3 DEF SubmitClaimed
<1>5. CASE CreateIdempotency(Scope(c), Key(c), Fingerprint(c))
           /\ Op(c) # "submit" /\ ReviewClaimed(c, row)
  <2>1. Quiet
    BY <1>1, <1>5, ClaimIsQuiet
  <2>2. Follows(ReviewedRow(row, Op(c), now), row)
    BY <1>1, <1>2, <1>3, <1>5, ReviewedRowFollows
  <2>3. IsTransition(row, ReviewedRow(row, Op(c), now), now)
    BY <1>1, <1>2, <1>5 DEF IsTransition
  <2> QED BY <1>1, <1>2, <1>3, <1>5, <2>1, <2>2, <2>3, GotoUpdateKeeps DEF ReviewClaimed
<1>6. CASE Fail(c, "conflict")
  BY <1>1, <1>6, FailKeeps DEF Results
<1>7. CASE UNCHANGED storeVars /\ Goto(c, "recheck", row)
  <2>1. Quiet
    BY <1>1, <1>7, UnchangedIsQuiet
  <2> QED BY <1>1, <1>2, <1>7, <2>1, HeldRowIsSafe, GotoKeeps DEF StorePcs
<1> QED BY <1>4, <1>5, <1>6, <1>7 DEF Claim, row

LEMMA ReplayStepsKeep ==
  ASSUME Inv, NEW c \in Calls, Recheck(c) \/ Reload(c) \/ ReplayLookup(c) \/ ReplayClaim(c),
         UNCHANGED <<now, workers, executions, faults>>
  PROVE  Inv'
<1> DEFINE row == RowOf(c)
<1>1. InFlight(c) /\ faults' \in Nat
  BY DEF Inv, TypeOK, Recheck, Reload, ReplayLookup, ReplayClaim, At, InFlight, StorePcs
<1>2. /\ calls[c].msg \in Traffic /\ calls[c].id \in Ids /\ row \in Row \cup {Nil}
      /\ IsVersionOf(row, requests)
  BY <1>1, CallFacts DEF Recheck, Reload, ReplayLookup, ReplayClaim, At, CallIsSafe, RowOf
<1>3. ASSUME Quiet, NEW result \in Results, NEW r \in Row \cup {Nil}, Finish(c, result, r)
      PROVE  Inv'
  BY <1>3, FinishKeeps
<1>4. ASSUME Quiet, NEW pc \in {"reload", "replayClaim"}, Goto(c, pc, row)
      PROVE  Inv'
  BY <1>1, <1>2, <1>4, HeldRowIsSafe, GotoKeeps DEF StorePcs
<1>5. UNCHANGED storeVars => Quiet
  BY <1>1, UnchangedIsQuiet
<1>6. CASE Recheck(c)
  BY <1>3, <1>4, <1>5, <1>6 DEF Recheck, Results
<1>7. CASE Reload(c)
  <2>1. requests[calls[c].id] \in Row \cup {Nil}
    BY <1>2 DEF Inv, TypeOK
  <2> QED BY <1>3, <1>5, <1>7, <2>1 DEF Reload, Results
<1>8. CASE ReplayLookup(c)
  BY <1>2, <1>3, <1>4, <1>5, <1>8 DEF ReplayLookup, Results
<1>9. CASE ReplayClaim(c)
  <2>1. CASE CreateIdempotency(Scope(c), Key(c), Fingerprint(c)) /\ Finish(c, "ok", row)
    BY <1>1, <1>2, <1>3, <2>1, ClaimIsQuiet DEF Results
  <2>2. CASE Fail(c, "empty")
    BY <1>1, <2>2, FailKeeps DEF Results
  <2> QED BY <1>9, <2>1, <2>2 DEF ReplayClaim
<1> QED BY <1>6, <1>7, <1>8, <1>9

\* UpdateRequest replaces a row by its next version and nothing else.
LEMMA WriteGrows ==
  ASSUME Inv, NEW row \in Row, UpdateRequest(row)
  PROVE  /\ requests' \in Tables /\ Keyed(requests') /\ Grows(requests, requests')
         /\ \A d \in Calls : At(d, "create") => requests'[calls[d].id] = Nil
         /\ IsVersionOf(row, requests')
         /\ Logs'
<1>1. row.id \in Ids /\ row.version \in Nat /\ row # Nil
  BY NilAssumption DEF Row
<1>2. /\ requests[row.id] # Nil
      /\ requests[row.id].version = row.version - 1
      /\ requests' = [requests EXCEPT ![row.id] = row]
      /\ UNCHANGED <<audit, reviews, idempotency, jobRuns>>
  BY DEF UpdateRequest, UpdateMatches, Exists
<1>3. requests \in Tables /\ Keyed(requests)
  BY DEF Inv, TypeOK, NoLostUpdate, Tables, Keyed, Exists
<1>4. requests' \in Tables /\ Keyed(requests')
  BY <1>1, <1>2, <1>3 DEF Tables, Keyed
<1>5. requests[row.id].version + 1 = row.version
  BY <1>1, <1>2
<1>6. Grows(requests, requests')
  BY <1>1, <1>2, <1>3, <1>5 DEF Grows, Tables
<1>7. ASSUME NEW d \in Calls, At(d, "create") PROVE requests'[calls[d].id] = Nil
  <2>1. IsNewDraft(d)
    BY <1>7 DEF Inv, NoLostUpdate
  <2>2. requests[calls[d].id] = Nil
    BY <2>1 DEF IsNewDraft, Exists
  <2>3. calls[d].id # row.id
    BY <1>2, <2>2
  <2> QED BY <1>2, <1>3, <2>2, <2>3 DEF Tables
<1>8. IsVersionOf(row, requests')
  BY <1>1, <1>2, <1>3 DEF IsVersionOf, Tables
<1>9. Logs'
  BY <1>2 DEF Inv, TypeOK, Logs
<1> QED BY <1>4, <1>6, <1>7, <1>8, <1>9

LEMMA UpdateKeeps ==
  ASSUME Inv, NEW c \in Calls,
         \/ Update(c)
         \/ At(c, "update") /\ UpdateRequest(RowOf(c)) /\ Finish(c, "error", Nil),
         now' = now, workers' = workers, executions' = executions, faults' \in Nat
  PROVE  Inv'
<1> DEFINE row == RowOf(c)
           next == IF Op(c) \in Decisions THEN "review" ELSE "audit"
<1>1. InFlight(c) /\ At(c, "update")
  BY DEF Update, At, InFlight, StorePcs
<1>2. /\ calls[c] \in Call /\ calls[c].msg \in Traffic /\ calls[c].id \in Ids
      /\ row \in Row
  BY <1>1, CallFacts DEF At, CallIsSafe, IsSafeWrite, RowOf
<1>3. CASE UpdateRequest(row) /\ Goto(c, next, row)
  <2> DEFINE k == CallAt(c, next, row, "none")
  <2>1. /\ k.pc = next /\ k.msg = calls[c].msg /\ k.id \in Ids /\ k.row = row
        /\ k \in Call
    BY <1>2, CallAtFields, CallAtType DEF StorePcs, Results
  <2>2. calls' = [calls EXCEPT ![c] = k]
    BY <1>3 DEF Goto
  <2>3. IsVersionOf(row, requests')
    BY <1>2, <1>3, WriteGrows
  <2> HIDE DEF k, row
  <2>4. CallIsSafe(k, requests', now)
    BY <1>2, <2>1, <2>3 DEF CallIsSafe, Op
  <2> QED BY <1>2, <1>3, <2>1, <2>2, <2>4, WriteGrows, CallMoves
<1>4. CASE ~UpdateMatches(row) /\ Fail(c, "conflict")
  BY <1>4, FailKeeps DEF Results
<1>5. CASE UpdateRequest(row) /\ Finish(c, "error", Nil)
  <2> DEFINE k == CallAt(c, "done", Nil, "error")
  <2>1. k.pc = "done" /\ k \in Call
    BY <1>2, CallAtFields, CallAtType DEF Results
  <2>2. calls' = [calls EXCEPT ![c] = k]
    BY <1>5 DEF Finish
  <2> HIDE DEF k, row
  <2>3. CallIsSafe(k, requests', now)
    BY <2>1 DEF CallIsSafe, StorePcs
  <2> QED BY <1>2, <1>5, <2>1, <2>2, <2>3, WriteGrows, CallMoves
<1> QED BY <1>3, <1>4, <1>5 DEF Update

\* The records of CreateReview.
LEMMA ReviewIsQuiet ==
  ASSUME Inv, NEW c \in Calls, At(c, "review"),
         CreateReview(RowOf(c), ActorOf(c), Op(c), c),
         now' = now, executions' = executions, faults' \in Nat
  PROVE  Quiet
<1> DEFINE record == [request |-> RowOf(c).id, version |-> RowOf(c).version,
                      decision |-> Op(c), actor_id |-> ActorOf(c).id, writer |-> c]
<1>1. InFlight(c)
  BY DEF At, InFlight, StorePcs
<1>2. RowOf(c) \in Row /\ ActorOf(c) \in Actors /\ Op(c) \in Decisions
  BY <1>1, CallFacts DEF At, CallIsSafe, IsVersionOf, RowOf, Op
<1>3. record \in ReviewActions
  BY <1>2 DEF ReviewActions, Row, Actors
<1>4. reviews' = reviews \cup {record} /\ UNCHANGED <<requests, audit, idempotency, jobRuns>>
  BY DEF CreateReview
<1> HIDE DEF record
<1> QED BY <1>3, <1>4 DEF Inv, TypeOK, Quiet, Logs

LEMMA ReviewKeeps ==
  ASSUME Inv, NEW c \in Calls, Review(c), UNCHANGED <<now, workers, executions, faults>>
  PROVE  Inv'
<1>1. InFlight(c) /\ At(c, "review") /\ faults' \in Nat
  BY DEF Review, At, InFlight, StorePcs, Inv, TypeOK
<1>2. /\ calls[c].msg \in Traffic /\ calls[c].id \in Ids /\ IsVersionOf(RowOf(c), requests)
      /\ RowOf(c) \in Row
  BY <1>1, CallFacts DEF At, CallIsSafe, IsVersionOf, RowOf
<1>3. Quiet
  BY <1>1, ReviewIsQuiet DEF Review
<1>4. Goto(c, "audit", RowOf(c))
  BY DEF Review
<1> QED BY <1>1, <1>2, <1>3, <1>4, HeldRowIsSafe, GotoKeeps DEF StorePcs

\* The records of AppendAudit.
LEMMA AppendIsQuiet ==
  ASSUME Inv, NEW row \in Row, NEW actor \in Actors \cup {SystemActor},
         NEW action \in AuditActions, NEW writer \in Writers,
         AppendAudit(row, actor, action, writer),
         now' = now, executions' = executions, faults' \in Nat
  PROVE  Quiet
<1> DEFINE record == [request |-> row.id, version |-> row.version, action |-> action,
                      actor |-> actor, writer |-> writer]
<1>1. record \in AuditEntries
  BY DEF AuditEntries, Row
<1>2. audit' = audit \cup {record} /\ UNCHANGED <<requests, reviews, idempotency, jobRuns>>
  BY DEF AppendAudit
<1> HIDE DEF record
<1> QED BY <1>1, <1>2 DEF Inv, TypeOK, Quiet, Logs

LEMMA AuditKeeps ==
  ASSUME Inv, NEW c \in Calls,
         \/ Audit(c) \/ AuditAssigned(c)
         \/ /\ At(c, "audit") /\ AppendAudit(RowOf(c), ActorOf(c), AuditAction(c), c)
            /\ Finish(c, "error", Nil)
         \/ /\ At(c, "auditAssigned")
            /\ AppendAudit(RowOf(c), SystemActor, "review_assigned", c)
            /\ Finish(c, "error", Nil),
         now' = now, workers' = workers, executions' = executions, faults' \in Nat
  PROVE  Inv'
<1> DEFINE row == RowOf(c)
<1>1. InFlight(c) /\ faults' \in Nat
  BY DEF Inv, TypeOK, Audit, AuditAssigned, At, InFlight, StorePcs
<1>2. /\ calls[c].msg \in Traffic /\ calls[c].id \in Ids /\ IsVersionOf(row, requests)
      /\ row \in Row /\ ActorOf(c) \in Actors /\ Op(c) \in Ops
  BY <1>1, CallFacts DEF Audit, AuditAssigned, At, CallIsSafe, IsVersionOf, RowOf
<1>3. AuditAction(c) \in AuditActions
  BY <1>2 DEF AuditAction, AuditActions, Ops, Decisions
<1>4. Quiet
  BY <1>1, <1>2, <1>3, AppendIsQuiet DEF Audit, AuditAssigned, Writers, AuditActions
<1>5. CASE Goto(c, "auditAssigned", row)
  BY <1>1, <1>2, <1>4, <1>5, HeldRowIsSafe, GotoKeeps DEF StorePcs
<1>6. CASE Finish(c, "ok", row) \/ Finish(c, "error", Nil)
  BY <1>2, <1>4, <1>6, FinishKeeps DEF Results
<1> QED BY <1>5, <1>6 DEF Audit, AuditAssigned

\* A call arrives: refused, on its way to read its request, or with a draft
\* that has an identifier to itself.
LEMMA StartKeeps ==
  ASSUME Inv, NEW c \in Calls, Start(c), UNCHANGED <<now, workers, executions, faults>>
  PROVE  Inv'
<1>1. PICK m \in Traffic, id \in Ids : StartCreate(c, m, id) \/ StartChange(c, m, id)
  BY DEF Start
<1>2. Quiet
  <2>1. UNCHANGED storeVars /\ faults' \in Nat
    BY <1>1 DEF StartCreate, StartChange, Begin, Refuse, Inv, TypeOK
  <2> QED BY <2>1, UnchangedIsQuiet
<1>3. m \in Messages /\ m.actor \in Actors
  BY TrafficAssumption DEF Messages
<1>4. ASSUME NEW result \in Results, Refuse(c, m, id, result)
      PROVE  Inv'
  <2> DEFINE k == [pc |-> "done", msg |-> m, id |-> id, row |-> Nil, result |-> result]
  <2>1. k \in Call /\ k.pc = "done"
    BY DEF Call
  <2>2. calls' = [calls EXCEPT ![c] = k]
    BY <1>4 DEF Refuse
  <2> HIDE DEF k
  <2>3. CallIsSafe(k, requests', now)
    BY <2>1 DEF CallIsSafe, StorePcs
  <2> QED BY <1>2, <2>1, <2>2, <2>3, QuietTable, CallMoves DEF Quiet
<1>5. CASE Begin(c, m, id, "load", Nil)
  <2> DEFINE k == [pc |-> "load", msg |-> m, id |-> id, row |-> Nil, result |-> "none"]
  <2>1. k \in Call /\ k.pc = "load" /\ k.msg = m /\ k.id = id
    BY DEF Call, StorePcs, Results
  <2>2. calls' = [calls EXCEPT ![c] = k]
    BY <1>5 DEF Begin
  <2> HIDE DEF k
  <2>3. CallIsSafe(k, requests', now)
    BY <2>1 DEF CallIsSafe
  <2> QED BY <1>2, <2>1, <2>2, <2>3, QuietTable, CallMoves DEF Quiet
<1>6. CASE /\ FreshId(id) /\ m.op = "create" /\ m.payload # ""
           /\ Begin(c, m, id, "create", DraftRow(id, m.actor, m.payload))
  <2> DEFINE row == DraftRow(id, m.actor, m.payload)
             k == [pc |-> "create", msg |-> m, id |-> id, row |-> row, result |-> "none"]
  <2>1. m.payload \in Targets
    BY <1>6, TrafficAssumption
  <2>2. row \in Row
    BY <1>3, <2>1, DraftRowType
  <2>3. k \in Call /\ k.pc = "create" /\ k.msg = m /\ k.id = id /\ k.row = row
    <3> HIDE DEF row
    <3> QED BY <2>2 DEF Call, StorePcs, Results
  <2>4. calls' = [calls EXCEPT ![c] = k]
    BY <1>6 DEF Begin
  <2> HIDE DEF k
  <2>5. TypeOK'
    BY <1>2, <2>3, <2>4 DEF Inv, TypeOK, Quiet, Logs
  <2>6. ASSUME NEW d \in Calls PROVE CallIsSafe(calls[d], requests, now)'
    <3>1. CallIsSafe(k, requests, now)
      BY <2>3 DEF CallIsSafe
    <3> QED BY <1>2, <2>4, <3>1 DEF Inv, TypeOK, NoLostUpdate, Quiet
  <2>7. ASSUME NEW d \in Calls, At(d, "create")' PROVE IsNewDraft(d)'
    <3>1. calls[c].pc = "idle" /\ calls \in [Calls -> Call]
      BY <1>6 DEF Begin, At, Inv, TypeOK
    <3>2. \A e \in Calls \ {c} : At(e, "create") => calls[e].id # id
      BY <1>6 DEF FreshId, InFlight, At, StorePcs
    <3>3. calls'[c] = k /\ \A e \in Calls \ {c} : calls'[e] = calls[e]
      BY <2>4, <3>1
    <3>4. CASE d = c
      <4>1. ~Exists(id)'
        BY <1>2, <1>6 DEF FreshId, Exists, Quiet
      <4> QED BY <1>3, <2>1, <2>3, <3>2, <3>3, <3>4, <4>1 DEF IsNewDraft, RowOf, At
    <3>5. CASE d # c
      <4>1. At(d, "create") /\ IsNewDraft(d) /\ calls'[d] = calls[d]
        BY <2>7, <3>3, <3>5 DEF At, Inv, NoLostUpdate
      <4>2. calls[d].id # id
        BY <3>2, <3>5, <4>1
      <4>3. \A e \in Calls \ {d} : At(e, "create")' => calls'[e].id # calls'[d].id
        BY <2>3, <3>3, <3>5, <4>1, <4>2 DEF IsNewDraft, At
      <4>4. ~Exists(calls[d].id)'
        BY <1>2, <4>1 DEF IsNewDraft, Exists, Quiet
      <4> QED BY <4>1, <4>3, <4>4 DEF IsNewDraft, RowOf
    <3> QED BY <3>4, <3>5
  <2> QED BY <1>2, <2>5, <2>6, <2>7 DEF Inv, NoLostUpdate, Quiet, Exists
<1> QED
  BY <1>1, <1>4, <1>5, <1>6 DEF StartCreate, StartChange, Results

LEMMA CreateKeeps ==
  ASSUME Inv, NEW c \in Calls, At(c, "create"), CreateRequest(RowOf(c)),
         Goto(c, "audit", RowOf(c)) \/ Finish(c, "error", Nil),
         now' = now, workers' = workers, executions' = executions, faults' \in Nat
  PROVE  Inv'
<1> DEFINE row == RowOf(c)
<1>1. InFlight(c) /\ At(c, "create") /\ IsNewDraft(c)
  BY DEF At, InFlight, StorePcs, Inv, NoLostUpdate
<1>2. calls[c] \in Call /\ calls[c].msg \in Traffic /\ calls[c].id \in Ids
  BY <1>1, CallFacts
<1>3. row \in Row /\ row.id = calls[c].id /\ row # Nil
  BY <1>1, <1>2, DraftRowType, NilAssumption DEF IsNewDraft
<1>4. PICK k : /\ calls' = [calls EXCEPT ![c] = k]
               /\ \/ k = CallAt(c, "audit", row, "none")
                  \/ k = CallAt(c, "done", Nil, "error")
  BY DEF Goto, Finish
<1>5. /\ k \in Call
      /\ \/ /\ k.pc = "audit" /\ k.row = row
            /\ k.msg \in Traffic /\ k.id \in Ids
         \/ k.pc = "done"
  BY <1>2, <1>3, <1>4, CallAtFields, CallAtType DEF StorePcs, Results
<1> HIDE DEF row
<1>6. /\ requests' = [requests EXCEPT ![row.id] = row]
      /\ UNCHANGED <<audit, reviews, idempotency, jobRuns>>
  BY DEF CreateRequest, row
<1>7. requests[row.id] = Nil /\ requests \in Tables /\ Keyed(requests)
  BY <1>1, <1>3 DEF IsNewDraft, Exists, Inv, TypeOK, NoLostUpdate, Tables, Keyed
<1>8. requests' \in Tables /\ Keyed(requests') /\ Grows(requests, requests')
  BY <1>2, <1>3, <1>6, <1>7 DEF Tables, Keyed, Grows
<1>9. IsVersionOf(row, requests')
  <2>1. row.version \in Nat
    BY <1>3 DEF Row
  <2> QED BY <1>2, <1>3, <1>6, <1>7, <2>1 DEF IsVersionOf, Tables
<1>10. CallIsSafe(k, requests', now)
  BY <1>5, <1>9 DEF CallIsSafe, StorePcs
<1>11. ASSUME NEW d \in Calls \ {c}, At(d, "create")
       PROVE  requests'[calls[d].id] = Nil
  <2>1. calls[d].id # calls[c].id
    BY <1>1, <1>11 DEF IsNewDraft
  <2>2. requests[calls[d].id] = Nil
    BY <1>11 DEF Inv, NoLostUpdate, IsNewDraft, Exists
  <2> QED BY <1>3, <1>6, <1>7, <2>1, <2>2 DEF Tables
<1>12. Logs' /\ k.pc # "create"
  BY <1>5, <1>6 DEF Inv, TypeOK, Logs
<1> QED BY <1>4, <1>5, <1>8, <1>10, <1>11, <1>12, CallMoves

LEMMA CallStepKeeps ==
  ASSUME Inv, NEW c \in Calls, CallStep(c)
  PROVE  Inv'
BY StartKeeps, CreateKeeps, LoadKeeps, LookupKeeps, ClaimKeeps, ReplayStepsKeep,
   UpdateKeeps, ReviewKeeps, AuditKeeps
   DEF CallStep, HandlerStep, Create, Inv, TypeOK

LEMMA CallFaultKeeps ==
  ASSUME Inv, NEW c \in Calls, CallFault(c)
  PROVE  Inv'
<1>1. faults' \in Nat /\ UNCHANGED <<now, workers, executions>>
  BY DEF CallFault, Fault, Inv, TypeOK
<1>2. CASE StoreError(c)
  <2>1. ErrorResult(calls[c].pc) \in Results
    BY DEF ErrorResult, Results
  <2> QED BY <1>1, <1>2, <2>1, FailKeeps DEF StoreError
<1>3. CASE ReplyLost(c)
  <2>1. ErrorResult(calls[c].pc) \in Results /\ Finish(c, ErrorResult(calls[c].pc), Nil)
    BY <1>3 DEF ReplyLost, ErrorResult, Results
  <2>2. CASE At(c, "create") /\ CreateRequest(RowOf(c))
    BY <1>1, <2>1, <2>2, CreateKeeps DEF ErrorResult, At
  <2>3. CASE /\ At(c, "claim") \/ At(c, "replayClaim")
             /\ CreateIdempotency(Scope(c), Key(c), Fingerprint(c))
    <3>1. InFlight(c)
      BY <2>3 DEF At, InFlight, StorePcs
    <3> QED BY <1>1, <2>1, <2>3, <3>1, ClaimIsQuiet, FinishKeeps
  <2>4. CASE At(c, "update") /\ UpdateRequest(RowOf(c))
    BY <1>1, <2>1, <2>4, UpdateKeeps DEF ErrorResult, At
  <2>5. CASE At(c, "review") /\ CreateReview(RowOf(c), ActorOf(c), Op(c), c)
    BY <1>1, <2>1, <2>5, ReviewIsQuiet, FinishKeeps
  <2>6. CASE \/ At(c, "audit") /\ AppendAudit(RowOf(c), ActorOf(c), AuditAction(c), c)
             \/ /\ At(c, "auditAssigned")
                /\ AppendAudit(RowOf(c), SystemActor, "review_assigned", c)
    BY <1>1, <2>1, <2>6, AuditKeeps DEF ErrorResult, At
  <2> QED BY <1>3, <2>2, <2>3, <2>4, <2>5, <2>6 DEF ReplyLost, Write
<1> QED BY <1>2, <1>3 DEF CallFault

-----------------------------------------------------------------------------
(* The steps of a worker. *)

\* What holds of the table, the clock and the calls after a worker's step.
Settled ==
    /\ requests' \in Tables /\ Keyed(requests') /\ Grows(requests, requests')
    /\ \A d \in Calls : At(d, "create") => requests'[calls[d].id] = Nil
    /\ Logs' /\ now' = now /\ calls' = calls
    /\ executions' \in [Workers -> [Ids -> Nat]] /\ faults' \in Nat

LEMMA LocalIsSettled ==
  ASSUME Inv, UNCHANGED <<storeVars, executions>>, now' = now, calls' = calls,
         faults' \in Nat
  PROVE  Settled
<1>1. requests' = requests
  BY DEF storeVars
<1>2. Logs' /\ executions' \in [Workers -> [Ids -> Nat]]
  BY DEF Inv, TypeOK, Logs, storeVars
<1> QED BY <1>1, <1>2, QuietTable DEF Settled

LEMMA WriteIsSettled ==
  ASSUME Inv, NEW row \in Row, UpdateRequest(row), UNCHANGED executions, now' = now,
         calls' = calls, faults' \in Nat
  PROVE  Settled /\ IsVersionOf(row, requests')
BY WriteGrows DEF Settled, Inv, TypeOK

LEMMA QuietIsSettled ==
  ASSUME Inv, Quiet, calls' = calls
  PROVE  Settled
BY QuietTable DEF Settled, Quiet, Inv, TypeOK

LEMMA WorkerFacts ==
  ASSUME Inv, NEW w \in Workers
  PROVE  /\ workers[w] \in WorkerState /\ WorkerIsSafe(workers[w], requests, now)
         /\ Batch(w) \subseteq Row /\ Pending(w) \in Row \cup {Nil}
         /\ workers[w].pass \in Nat /\ now \in Nat
BY DEF Inv, TypeOK, NoLostUpdate, WorkerState, Batch, Pending

\* The rows listed but not yet handled stay versions of the stored rows.
LEMMA BatchSurvives ==
  ASSUME Inv, NEW w \in Workers, Settled, NEW r \in Batch(w)
  PROVE  IsVersionOf(r, requests')
<1>1. r \in Row /\ IsVersionOf(r, requests)
  BY WorkerFacts DEF WorkerIsSafe, Batch
<1>2. requests \in Tables
  BY DEF Inv, TypeOK, Tables
<1> QED BY <1>1, <1>2, VersionSurvives DEF Settled

\* A pass begins, or a run ends: the worker holds no row any more.
LEMMA BeginPassKeeps ==
  ASSUME Inv, NEW w \in Workers, NEW pc \in {"listReminders", "listReady"},
         BeginPass(w, pc), Settled
  PROVE  Inv'
<1> DEFINE k == [pc |-> pc, batch |-> {}, row |-> Nil, pass |-> now]
<1>1. now \in Nat /\ now <= now
  BY DEF Inv, TypeOK
<1>2. k \in WorkerState /\ k.pc = pc /\ k.batch = {} /\ k.pass = now
  BY <1>1 DEF WorkerState, WorkerPcs
<1>3. workers' = [workers EXCEPT ![w] = k]
  BY DEF BeginPass
<1> HIDE DEF k
<1>4. WorkerIsSafe(k, requests', now)
  BY <1>1, <1>2 DEF WorkerIsSafe, ReminderPcs, ExecutionPcs
<1> QED BY <1>2, <1>3, <1>4, WorkerMoves DEF Settled

LEMMA IdleIsSafe ==
  ASSUME NEW table, NEW time \in Nat
  PROVE  IdleWorker \in WorkerState /\ WorkerIsSafe(IdleWorker, table, time)
<1>1. 0 <= time
  OBVIOUS
<1> QED
  BY <1>1 DEF IdleWorker, WorkerState, WorkerPcs, WorkerIsSafe, ReminderPcs, ExecutionPcs

LEMMA EndRunKeeps ==
  ASSUME Inv, NEW w \in Workers, EndRun(w), Settled
  PROVE  Inv'
<1>1. workers' = [workers EXCEPT ![w] = IdleWorker]
  BY DEF EndRun
<1>2. IdleWorker \in WorkerState /\ WorkerIsSafe(IdleWorker, requests', now)
  BY IdleIsSafe DEF Inv, TypeOK
<1> QED BY <1>1, <1>2, WorkerMoves DEF Settled

\* The reminder pass goes on with rows that need a reminder, or with the row
\* it has just written.
LEMMA RemindersGoOn ==
  ASSUME Inv, NEW w \in Workers, Settled, NEW batch \in SUBSET Row,
         \A r \in batch : NeedsReminder(r, workers[w].pass) /\ IsVersionOf(r, requests'),
         \/ NextReminder(w, batch)
         \/ \E row \in Row, pc \in {"remindAudit", "remindJob"} :
                IsVersionOf(row, requests') /\ WorkerGoto(w, pc, batch, row)
  PROVE  Inv'
<1>1. workers[w].pass \in Nat /\ workers[w].pass <= now
  BY WorkerFacts DEF WorkerIsSafe
<1>2. ASSUME NEW pc \in ReminderPcs, NEW row \in Row \cup {Nil},
             WorkerGoto(w, pc, batch, row),
             pc \in {"remindAudit", "remindJob"} => IsVersionOf(row, requests')
      PROVE  Inv'
  <2> DEFINE k == [pc |-> pc, batch |-> batch, row |-> row, pass |-> workers[w].pass]
  <2>1. /\ k \in WorkerState /\ k.pc = pc /\ k.batch = batch /\ k.row = row
        /\ k.pass = workers[w].pass
    BY <1>1 DEF WorkerState, WorkerPcs, ReminderPcs
  <2>2. workers' = [workers EXCEPT ![w] = k]
    BY <1>2 DEF WorkerGoto
  <2> HIDE DEF k
  <2>3. WorkerIsSafe(k, requests', now)
    BY <1>1, <1>2, <2>1 DEF WorkerIsSafe, ReminderPcs, ExecutionPcs
  <2> QED BY <2>1, <2>2, <2>3, WorkerMoves DEF Settled
<1>3. CASE NextReminder(w, batch)
  BY <1>2, <1>3, BeginPassKeeps DEF NextReminder, ReminderPcs
<1>4. CASE \E row \in Row, pc \in {"remindAudit", "remindJob"} :
               IsVersionOf(row, requests') /\ WorkerGoto(w, pc, batch, row)
  BY <1>2, <1>4 DEF ReminderPcs
<1> QED BY <1>3, <1>4

LEMMA ReminderPassKeeps ==
  ASSUME Inv, NEW w \in Workers, workers[w].pc \in ReminderPcs, Settled,
         NEW batch \in SUBSET Batch(w),
         \/ NextReminder(w, batch)
         \/ \E row \in Row, pc \in {"remindAudit", "remindJob"} :
                IsVersionOf(row, requests') /\ WorkerGoto(w, pc, batch, row)
  PROVE  Inv'
<1>1. /\ batch \in SUBSET Row
      /\ \A r \in batch : NeedsReminder(r, workers[w].pass) /\ IsVersionOf(r, requests')
  BY WorkerFacts, BatchSurvives DEF WorkerIsSafe, Batch
<1> QED BY <1>1, RemindersGoOn

\* The execution pass goes on with the rest of its batch, to its update with
\* a row that is safe to write, or to its inserts.
LEMMA ExecutionPassKeeps ==
  ASSUME Inv, NEW w \in Workers, workers[w].pc \in ExecutionPcs, Settled,
         NEW batch \in SUBSET Batch(w),
         \/ NextExecution(w)
         \/ \E row \in Row :
                \/ WorkerGoto(w, "executeUpdate", batch, row)
                   /\ IsSafeWrite(row, requests', now)
                \/ WorkerGoto(w, "executeAudit", batch, row) /\ IsVersionOf(row, requests')
                \/ WorkerGoto(w, "executeJob", batch, row)
  PROVE  Inv'
<1>1. /\ Batch(w) \subseteq Row /\ workers[w].pass \in Nat /\ workers[w].pass <= now
      /\ \A r \in Batch(w) : AwaitsExecution(r)
      /\ \A r \in Batch(w) : IsVersionOf(r, requests')
  BY WorkerFacts, BatchSurvives DEF WorkerIsSafe, Batch
<1>2. ASSUME NEW pc \in ExecutionPcs, NEW row \in Row \cup {Nil},
             NEW rest \in SUBSET Batch(w), WorkerGoto(w, pc, rest, row),
             pc = "executeUpdate" => IsSafeWrite(row, requests', now),
             pc = "executeAudit" => IsVersionOf(row, requests'),
             pc = "executeJob" => row # Nil
      PROVE  Inv'
  <2> DEFINE k == [pc |-> pc, batch |-> rest, row |-> row, pass |-> workers[w].pass]
  <2>1. /\ k \in WorkerState /\ k.pc = pc /\ k.batch = rest /\ k.row = row
        /\ k.pass = workers[w].pass
    BY <1>1 DEF WorkerState, WorkerPcs, ExecutionPcs
  <2>2. workers' = [workers EXCEPT ![w] = k]
    BY <1>2 DEF WorkerGoto
  <2> HIDE DEF k
  <2>3. WorkerIsSafe(k, requests', now)
    BY <1>1, <1>2, <2>1 DEF WorkerIsSafe, ReminderPcs, ExecutionPcs
  <2> QED BY <2>1, <2>2, <2>3, WorkerMoves DEF Settled
<1>3. CASE NextExecution(w)
  BY <1>2, <1>3, EndRunKeeps DEF NextExecution, ExecutionPcs
<1>4. CASE \E row \in Row :
               \/ WorkerGoto(w, "executeUpdate", batch, row)
                  /\ IsSafeWrite(row, requests', now)
               \/ WorkerGoto(w, "executeAudit", batch, row) /\ IsVersionOf(row, requests')
               \/ WorkerGoto(w, "executeJob", batch, row)
  BY <1>2, <1>4, NilAssumption DEF ExecutionPcs
<1> QED BY <1>3, <1>4

\* What a listing returns are stored rows that meet its condition.
LEMMA ListedRows ==
  ASSUME Inv, NEW time, NEW limit
  PROVE  /\ \A batch \in ListRequestsNeedingReminder(time, limit) : \A r \in batch :
                r \in Row /\ IsVersionOf(r, requests) /\ NeedsReminder(r, time)
         /\ \A batch \in ListRequestsReadyForExecution(time, limit) : \A r \in batch :
                r \in Row /\ IsVersionOf(r, requests) /\ AwaitsExecution(r)
<1>1. \A r \in Rows : r \in Row /\ IsVersionOf(r, requests)
  BY StoredRow DEF Rows
<1>2. ASSUME NEW batch \in ListRequestsNeedingReminder(time, limit), NEW r \in batch
      PROVE  r \in Rows /\ NeedsReminder(r, time)
  BY <1>2 DEF ListRequestsNeedingReminder, Batches
<1>3. ASSUME NEW batch \in ListRequestsReadyForExecution(time, limit), NEW r \in batch
      PROVE  r \in Rows /\ AwaitsExecution(r)
  <2>1. r \in Rows /\ ReadyForExecution(r, time)
    BY <1>3 DEF ListRequestsReadyForExecution, Batches
  <2> QED BY <2>1 DEF ReadyForExecution
<1> QED BY <1>1, <1>2, <1>3

LEMMA PollKeeps ==
  ASSUME Inv, NEW w \in Workers, Poll(w), UNCHANGED <<now, calls, faults>>
  PROVE  Inv'
<1>1. faults' \in Nat
  BY DEF Inv, TypeOK
<1>2. Settled
  BY <1>1, LocalIsSettled DEF Poll
<1> QED BY <1>2, BeginPassKeeps DEF Poll

\* A pass works on rows it has just read.
LEMMA ListRemindersKeeps ==
  ASSUME Inv, NEW w \in Workers, ListReminders(w), UNCHANGED <<now, calls, faults>>
  PROVE  Inv'
<1>1. Settled /\ requests' = requests
  <2>1. faults' \in Nat
    BY DEF Inv, TypeOK
  <2> QED BY <2>1, LocalIsSettled DEF ListReminders, storeVars
<1>2. PICK batch \in ListRequestsNeedingReminder(workers[w].pass, BatchSize) :
          NextReminder(w, batch)
  BY DEF ListReminders
<1>3. \A r \in batch : /\ r \in Row /\ IsVersionOf(r, requests)
                       /\ NeedsReminder(r, workers[w].pass)
  BY <1>2, ListedRows
<1> QED BY <1>1, <1>2, <1>3, RemindersGoOn

LEMMA ListReadyKeeps ==
  ASSUME Inv, NEW w \in Workers, ListReady(w), UNCHANGED <<now, calls, faults>>
  PROVE  Inv'
<1>1. Settled /\ requests' = requests
  <2>1. faults' \in Nat
    BY DEF Inv, TypeOK
  <2> QED BY <2>1, LocalIsSettled DEF ListReady, storeVars
<1>2. PICK batch \in ListRequestsReadyForExecution(workers[w].pass, BatchSize) :
          \/ /\ batch # {}
             /\ workers' = [workers EXCEPT ![w] = [pc |-> "execute", batch |-> batch,
                                                   row |-> Nil, pass |-> 0]]
          \/ batch = {} /\ EndRun(w)
  BY DEF ListReady
<1>3. CASE EndRun(w)
  BY <1>1, <1>3, EndRunKeeps
<1>4. CASE workers' = [workers EXCEPT ![w] = [pc |-> "execute", batch |-> batch,
                                              row |-> Nil, pass |-> 0]]
  <2> DEFINE k == [pc |-> "execute", batch |-> batch, row |-> Nil, pass |-> 0]
  <2>1. \A r \in batch : r \in Row /\ IsVersionOf(r, requests) /\ AwaitsExecution(r)
    BY <1>2, ListedRows
  <2>2. now \in Nat /\ 0 <= now
    BY DEF Inv, TypeOK
  <2>3. k \in WorkerState /\ k.pc = "execute" /\ k.batch = batch /\ k.pass = 0
    BY <2>1 DEF WorkerState, WorkerPcs
  <2>4. workers' = [workers EXCEPT ![w] = k]
    BY <1>4 DEF k
  <2> HIDE DEF k
  <2>5. WorkerIsSafe(k, requests', now)
    BY <1>1, <2>1, <2>2, <2>3 DEF WorkerIsSafe, ReminderPcs, ExecutionPcs
  <2> QED BY <1>1, <2>3, <2>4, <2>5, WorkerMoves DEF Settled
<1> QED BY <1>2, <1>3, <1>4

\* A reminder is written, refused, or written without an answer.
LEMMA RemindKeeps ==
  ASSUME Inv, NEW w \in Workers, WorkerAt(w, "remind"),
         NEW r \in NextOf(Batch(w), "submitted_at"),
         LET row == RemindedRow(r, workers[w].pass)
         IN  \/ UpdateRequest(row) /\ WorkerGoto(w, "remindAudit", Batch(w) \ {r}, row)
             \/ UpdateRequest(row) /\ NextReminder(w, Batch(w) \ {r})
             \/ UNCHANGED storeVars /\ NextReminder(w, Batch(w) \ {r}),
         now' = now, calls' = calls, executions' = executions, faults' \in Nat
  PROVE  Inv'
<1> DEFINE row == RemindedRow(r, workers[w].pass)
<1>1. workers[w].pc \in ReminderPcs /\ Batch(w) \ {r} \in SUBSET Batch(w)
  BY DEF WorkerAt, ReminderPcs
<1>2. row \in Row
  <2>1. r \in Row /\ workers[w].pass \in Int
    BY WorkerFacts DEF NextOf
  <2> QED BY <2>1, RemindedRowFollows DEF Follows
<1> HIDE DEF row
<1>3. CASE UpdateRequest(row)
  BY <1>1, <1>2, <1>3, WriteIsSettled, ReminderPassKeeps DEF row
<1>4. CASE UNCHANGED storeVars
  <2>1. Settled
    BY <1>4, LocalIsSettled
  <2>2. CASE NextReminder(w, Batch(w) \ {r})
    BY <1>1, <2>1, <2>2, ReminderPassKeeps
  <2> QED BY <1>1, <1>2, <1>3, <2>2 DEF row
<1> QED BY <1>3, <1>4 DEF row

LEMMA RemindAuditKeeps ==
  ASSUME Inv, NEW w \in Workers, WorkerAt(w, "remindAudit"),
         \/ AppendAudit(Pending(w), SystemActor, "reminder_sent", w)
         \/ UNCHANGED storeVars,
         WorkerGoto(w, "remindJob", Batch(w), Pending(w)),
         now' = now, calls' = calls, executions' = executions, faults' \in Nat
  PROVE  Inv'
<1>1. workers[w].pc \in ReminderPcs
  BY DEF WorkerAt, ReminderPcs
<1>2. Pending(w) \in Row /\ IsVersionOf(Pending(w), requests)
  BY WorkerFacts DEF WorkerAt, WorkerIsSafe, IsVersionOf, Pending
<1>3. Quiet
  BY <1>2, AppendIsQuiet, UnchangedIsQuiet DEF Writers, AuditActions
<1>4. Settled /\ requests' = requests
  BY <1>3, QuietIsSettled DEF Quiet
<1> QED BY <1>1, <1>2, <1>4, ReminderPassKeeps

\* The records of AppendJobRun.
LEMMA JobRunIsQuiet ==
  ASSUME Inv, NEW w \in Workers, NEW row \in Row, NEW type \in {"reminder", "execution"},
         NEW status \in {"succeeded", "failed"}, NEW attempt \in Nat,
         AppendJobRun(row, type, status, attempt, w),
         now' = now, executions' = executions, faults' \in Nat
  PROVE  Quiet
<1> DEFINE record == [request |-> row.id, version |-> row.version, job_type |-> type,
                      status |-> status, attempt |-> attempt, writer |-> w]
<1>1. record \in JobRuns
  BY DEF JobRuns, Row
<1>2. jobRuns' = jobRuns \cup {record} /\ UNCHANGED <<requests, audit, reviews, idempotency>>
  BY DEF AppendJobRun
<1> HIDE DEF record
<1> QED BY <1>1, <1>2 DEF Inv, TypeOK, Quiet, Logs

LEMMA RemindJobKeeps ==
  ASSUME Inv, NEW w \in Workers, WorkerAt(w, "remindJob"),
         \/ AppendJobRun(Pending(w), "reminder", "succeeded",
                         Pending(w).reminder_count, w)
         \/ UNCHANGED storeVars,
         NextReminder(w, Batch(w)),
         now' = now, calls' = calls, executions' = executions, faults' \in Nat
  PROVE  Inv'
<1>1. workers[w].pc \in ReminderPcs
  BY DEF WorkerAt, ReminderPcs
<1>2. Pending(w) \in Row /\ Pending(w).reminder_count \in Nat
  BY WorkerFacts DEF WorkerAt, WorkerIsSafe, IsVersionOf, Pending, Row
<1>3. Quiet
  BY <1>2, JobRunIsQuiet, UnchangedIsQuiet
<1> QED BY <1>1, <1>3, QuietIsSettled, ReminderPassKeeps

\* The executor is called and the row to write computed from the listed one.
LEMMA ExecuteKeeps ==
  ASSUME Inv, NEW w \in Workers, Execute(w), UNCHANGED <<now, calls, faults>>
  PROVE  Inv'
<1>1. PICK r \in NextOf(Batch(w), "next_execution_at") :
          /\ executions' = [executions EXCEPT ![w][r.id] = @ + 1]
          /\ WorkerGoto(w, "executeUpdate", Batch(w) \ {r},
                        ExecutionRow(r, ExecutionSucceeds(r), now))
  BY DEF Execute
<1>2. workers[w].pc \in ExecutionPcs /\ Batch(w) \ {r} \in SUBSET Batch(w) /\ r \in Batch(w)
  BY DEF Execute, WorkerAt, ExecutionPcs, NextOf
<1>3. r \in Row /\ IsVersionOf(r, requests) /\ AwaitsExecution(r) /\ now \in Nat
  BY <1>2, WorkerFacts DEF WorkerIsSafe, Batch
<1>4. UNCHANGED storeVars
  BY DEF Execute
<1>5. Settled
  <2>1. executions' \in [Workers -> [Ids -> Nat]] /\ faults' \in Nat
    BY <1>1, <1>3 DEF Inv, TypeOK, Row
  <2>2. requests' = requests /\ Logs'
    BY <1>4 DEF Inv, TypeOK, Logs, storeVars
  <2> QED BY <2>1, <2>2, QuietTable DEF Settled
<1> DEFINE row == ExecutionRow(r, ExecutionSucceeds(r), now)
<1>6. Follows(row, r) /\ IsTransition(r, row, now)
  <2>1. ExecutionSucceeds(r) \in BOOLEAN
    BY DEF ExecutionSucceeds
  <2> QED BY <1>3, <2>1, ExecutionRowFollows DEF IsTransition
<1> HIDE DEF row
<1>7. row \in Row /\ IsSafeWrite(row, requests', now)
  <2>1. requests' = requests
    BY <1>4 DEF storeVars
  <2> QED BY <1>3, <1>6, <2>1, NextWriteIsSafe DEF Follows
<1> QED BY <1>1, <1>2, <1>5, <1>7, ExecutionPassKeeps DEF row

LEMMA ExecuteUpdateKeeps ==
  ASSUME Inv, NEW w \in Workers, WorkerAt(w, "executeUpdate"),
         \/ UpdateRequest(Pending(w)) /\ WorkerGoto(w, "executeAudit", Batch(w), Pending(w))
         \/ UpdateRequest(Pending(w)) /\ WorkerGoto(w, "executeJob", Batch(w), Pending(w))
         \/ UNCHANGED storeVars /\ WorkerGoto(w, "executeJob", Batch(w), Pending(w)),
         now' = now, calls' = calls, executions' = executions, faults' \in Nat
  PROVE  Inv'
<1>1. workers[w].pc \in ExecutionPcs
  BY DEF WorkerAt, ExecutionPcs
<1>2. Pending(w) \in Row
  BY WorkerFacts DEF WorkerAt, WorkerIsSafe, IsSafeWrite, Pending
<1>3. CASE UpdateRequest(Pending(w))
  BY <1>1, <1>2, <1>3, WriteIsSettled, ExecutionPassKeeps
<1>4. CASE UNCHANGED storeVars /\ WorkerGoto(w, "executeJob", Batch(w), Pending(w))
  <2>1. Settled
    BY <1>4, LocalIsSettled
  <2> QED BY <1>1, <1>2, <1>4, <2>1, ExecutionPassKeeps
<1> QED BY <1>3, <1>4

LEMMA ExecuteAuditKeeps ==
  ASSUME Inv, NEW w \in Workers, WorkerAt(w, "executeAudit"),
         \/ AppendAudit(Pending(w), SystemActor,
                        IF ExecutionSucceeds(Pending(w)) THEN "execution_succeeded"
                                                         ELSE "execution_failed", w)
         \/ UNCHANGED storeVars,
         WorkerGoto(w, "executeJob", Batch(w), Pending(w)),
         now' = now, calls' = calls, executions' = executions, faults' \in Nat
  PROVE  Inv'
<1>1. workers[w].pc \in ExecutionPcs
  BY DEF WorkerAt, ExecutionPcs
<1>2. Pending(w) \in Row
  BY WorkerFacts DEF WorkerAt, WorkerIsSafe, IsVersionOf, Pending
<1>3. Quiet
  BY <1>2, AppendIsQuiet, UnchangedIsQuiet DEF Writers, AuditActions
<1> QED BY <1>1, <1>2, <1>3, QuietIsSettled, ExecutionPassKeeps

LEMMA ExecuteJobKeeps ==
  ASSUME Inv, NEW w \in Workers, WorkerAt(w, "executeJob"),
         \/ AppendJobRun(Pending(w), "execution", RunStatus(Pending(w)),
                         Pending(w).execution_attempts, w)
         \/ UNCHANGED storeVars,
         NextExecution(w),
         now' = now, calls' = calls, executions' = executions, faults' \in Nat
  PROVE  Inv'
<1>1. workers[w].pc \in ExecutionPcs
  BY DEF WorkerAt, ExecutionPcs
<1>2. Pending(w) \in Row /\ Pending(w).execution_attempts \in Nat
  BY WorkerFacts DEF WorkerAt, WorkerIsSafe, Pending, Row
<1>3. Quiet
  BY <1>2, JobRunIsQuiet, UnchangedIsQuiet DEF RunStatus
<1> QED BY <1>1, <1>3, QuietIsSettled, ExecutionPassKeeps

LEMMA WorkStepKeeps ==
  ASSUME Inv, NEW w \in Workers, WorkStep(w)
  PROVE  Inv'
<1>1. WorkerStep(w) /\ UNCHANGED <<now, calls, faults>> /\ faults' \in Nat
  BY DEF WorkStep, Inv, TypeOK
<1>2. CASE Poll(w) \/ ListReminders(w)
  BY <1>1, <1>2, PollKeeps, ListRemindersKeeps
<1>3. CASE Remind(w)
  <2>1. WorkerAt(w, "remind") /\ executions' = executions
    BY <1>3 DEF Remind
  <2>2. PICK r \in NextOf(Batch(w), "submitted_at") :
            LET row == RemindedRow(r, workers[w].pass)
            IN  \/ UpdateRequest(row) /\ WorkerGoto(w, "remindAudit", Batch(w) \ {r}, row)
                \/ UNCHANGED storeVars /\ NextReminder(w, Batch(w) \ {r})
    BY <1>3 DEF Remind
  <2> QED BY <1>1, <2>1, <2>2, RemindKeeps
<1>4. CASE RemindAudit(w)
  BY <1>1, <1>4, RemindAuditKeeps DEF RemindAudit
<1>5. CASE RemindJob(w)
  BY <1>1, <1>5, RemindJobKeeps DEF RemindJob
<1>6. CASE ListReady(w)
  BY <1>1, <1>6, ListReadyKeeps
<1>7. CASE Execute(w)
  BY <1>1, <1>7, ExecuteKeeps
<1>8. CASE ExecuteUpdate(w)
  BY <1>1, <1>8, ExecuteUpdateKeeps DEF ExecuteUpdate
<1>9. CASE ExecuteAudit(w)
  BY <1>1, <1>9, ExecuteAuditKeeps DEF ExecuteAudit
<1>10. CASE ExecuteJob(w)
  BY <1>1, <1>10, ExecuteJobKeeps DEF ExecuteJob
<1> QED
  BY <1>1, <1>2, <1>3, <1>4, <1>5, <1>6, <1>7, <1>8, <1>9, <1>10 DEF WorkerStep

LEMMA WorkFaultKeeps ==
  ASSUME Inv, NEW w \in Workers, WorkFault(w)
  PROVE  Inv'
<1>1. faults' \in Nat /\ UNCHANGED <<now, calls>>
  BY DEF WorkFault, Fault, Inv, TypeOK
<1>2. CASE WorkerStoreError(w)
  <2>1. executions' = executions /\ UNCHANGED storeVars
    BY <1>2 DEF WorkerStoreError
  <2>2. Settled
    BY <1>1, <2>1, LocalIsSettled
  <2>3. CASE BeginPass(w, "listReady") \/ EndRun(w)
    BY <2>2, <2>3, BeginPassKeeps, EndRunKeeps
  <2>4. CASE /\ WorkerAt(w, "remind")
             /\ \E r \in NextOf(Batch(w), "submitted_at") : NextReminder(w, Batch(w) \ {r})
    BY <1>1, <2>1, <2>4, RemindKeeps
  <2>5. CASE WorkerAt(w, "remindAudit") /\ WorkerGoto(w, "remindJob", Batch(w), Pending(w))
    BY <1>1, <2>1, <2>5, RemindAuditKeeps
  <2>6. CASE WorkerAt(w, "remindJob") /\ NextReminder(w, Batch(w))
    BY <1>1, <2>1, <2>6, RemindJobKeeps
  <2>7. CASE /\ WorkerAt(w, "executeUpdate") \/ WorkerAt(w, "executeAudit")
             /\ WorkerGoto(w, "executeJob", Batch(w), Pending(w))
    BY <1>1, <2>1, <2>7, ExecuteUpdateKeeps, ExecuteAuditKeeps
  <2>8. CASE WorkerAt(w, "executeJob") /\ NextExecution(w)
    BY <1>1, <2>1, <2>8, ExecuteJobKeeps
  <2> QED BY <1>2, <2>3, <2>4, <2>5, <2>6, <2>7, <2>8 DEF WorkerStoreError
<1>3. CASE WorkerReplyLost(w)
  <2>1. executions' = executions
    BY <1>3 DEF WorkerReplyLost
  <2>2. CASE /\ WorkerAt(w, "remind")
             /\ \E r \in NextOf(Batch(w), "submitted_at") :
                    /\ UpdateRequest(RemindedRow(r, workers[w].pass))
                    /\ NextReminder(w, Batch(w) \ {r})
    BY <1>1, <2>1, <2>2, RemindKeeps
  <2>3. CASE /\ WorkerAt(w, "executeUpdate")
             /\ UpdateRequest(Pending(w))
             /\ WorkerGoto(w, "executeJob", Batch(w), Pending(w))
    BY <1>1, <2>1, <2>3, ExecuteUpdateKeeps
  <2> QED BY <1>3, <2>2, <2>3 DEF WorkerReplyLost
<1> QED BY <1>2, <1>3 DEF WorkFault

-----------------------------------------------------------------------------
(* The system as a whole. *)

LEMMA InitKeeps == Init => Inv
<1> SUFFICES ASSUME Init PROVE Inv
  OBVIOUS
<1>1. TypeOK
  <2>1. IdleCall \in Call
    BY DEF IdleCall, Call, Results
  <2>2. IdleWorker \in WorkerState
    BY IdleIsSafe
  <2> QED
    BY <2>1, <2>2 DEF Init, StoreInit, HandlersInit, WorkerInit, TypeOK
<1>2. NoLostUpdate
  <2>1. ASSUME NEW c \in Calls PROVE CallIsSafe(calls[c], requests, now) /\ ~At(c, "create")
    BY DEF Init, HandlersInit, IdleCall, CallIsSafe, StorePcs, At
  <2>2. ASSUME NEW w \in Workers PROVE WorkerIsSafe(workers[w], requests, now)
    BY <1>1, IdleIsSafe DEF TypeOK, Init, WorkerInit
  <2> QED BY <2>1, <2>2 DEF Init, StoreInit, NoLostUpdate, Exists
<1> QED BY <1>1, <1>2 DEF Inv

LEMMA TickKeeps ==
  ASSUME Inv, Tick
  PROVE  Inv'
<1>1. /\ now \in Nat /\ now' \in Nat /\ now <= now' /\ requests \in Tables
      /\ UNCHANGED <<requests, audit, reviews, idempotency, jobRuns, calls, workers,
                     executions, faults>>
  BY DEF Inv, TypeOK, Tick, Tables, storeVars
<1>2. TypeOK'
  BY <1>1 DEF Inv, TypeOK
<1>3. ASSUME NEW c \in Calls PROVE CallIsSafe(calls[c], requests, now)'
  <2>1. calls[c] \in Call /\ CallIsSafe(calls[c], requests, now)
    BY DEF Inv, TypeOK, NoLostUpdate
  <2> QED BY <1>1, <2>1, GrowsRefl, CallStaysSafe
<1>4. ASSUME NEW w \in Workers PROVE WorkerIsSafe(workers[w], requests, now)'
  BY <1>1, GrowsRefl, WorkerFacts, WorkerStaysSafe
<1>5. ASSUME NEW c \in Calls, At(c, "create")' PROVE IsNewDraft(c)'
  BY <1>1, <1>5 DEF Inv, NoLostUpdate, IsNewDraft, RowOf, Exists, At
<1> QED BY <1>1, <1>2, <1>3, <1>4, <1>5 DEF Inv, NoLostUpdate, Exists

\* A call that is cut off holds nothing any more; the others go on.
LEMMA CutOffCall ==
  ASSUME Inv, NEW c \in Calls
  PROVE  Dropped(c) \in Call /\ (InFlight(c) => Dropped(c).pc = "done")
<1>1. calls[c] \in Call
  BY DEF Inv, TypeOK
<1>2. CASE InFlight(c)
  <2> DEFINE k == CallAt(c, "done", Nil, "lost")
  <2>1. k \in Call /\ k.pc = "done"
    BY <1>1, CallAtType, CallAtFields DEF Results
  <2> HIDE DEF k
  <2>2. Dropped(c) = k
    BY <1>2 DEF Dropped, k
  <2> QED BY <2>1, <2>2
<1>3. CASE ~InFlight(c)
  BY <1>1, <1>3 DEF Dropped
<1> QED BY <1>2, <1>3

LEMMA RestartKeeps ==
  ASSUME Inv, Restart
  PROVE  Inv'
<1>1. PICK gone \in SUBSET Workers, cut \in SUBSET {c \in Calls : InFlight(c)} :
          /\ calls' = [c \in Calls |-> IF c \in cut THEN Dropped(c) ELSE calls[c]]
          /\ workers' = [w \in Workers |-> IF w \in gone THEN IdleWorker ELSE workers[w]]
  BY DEF Restart
<1>2. /\ UNCHANGED <<requests, audit, reviews, idempotency, jobRuns, now, executions>>
      /\ faults' \in Nat /\ now \in Nat
  BY DEF Inv, TypeOK, Restart, Fault, storeVars
<1>3. ASSUME NEW c \in Calls
      PROVE  \/ calls'[c] = calls[c]
             \/ calls'[c] \in Call /\ calls'[c].pc = "done"
  BY <1>1, CutOffCall
<1>4. ASSUME NEW w \in Workers
      PROVE  workers'[w] \in WorkerState /\ WorkerIsSafe(workers'[w], requests, now)
  BY <1>1, <1>2, IdleIsSafe, WorkerFacts
<1>5. TypeOK'
  <2>1. calls' \in [Calls -> Call]
    BY <1>1, CutOffCall DEF Inv, TypeOK
  <2>2. workers' \in [Workers -> WorkerState]
    BY <1>1, <1>4
  <2> QED BY <1>2, <2>1, <2>2 DEF Inv, TypeOK
<1>6. ASSUME NEW c \in Calls PROVE CallIsSafe(calls[c], requests, now)'
  <2>1. CASE calls'[c] = calls[c]
    BY <1>2, <2>1 DEF Inv, NoLostUpdate
  <2>2. CASE calls'[c].pc = "done"
    BY <2>2 DEF CallIsSafe, StorePcs
  <2> QED BY <1>3, <2>1, <2>2
<1>7. ASSUME NEW c \in Calls, At(c, "create")' PROVE IsNewDraft(c)'
  <2>1. \A d \in Calls : At(d, "create")' => calls'[d] = calls[d] /\ At(d, "create")
    BY <1>3 DEF At
  <2>2. IsNewDraft(c)
    BY <1>7, <2>1 DEF Inv, NoLostUpdate
  <2> QED BY <1>2, <1>7, <2>1, <2>2 DEF IsNewDraft, RowOf, Exists
<1> QED BY <1>2, <1>4, <1>5, <1>6, <1>7 DEF Inv, NoLostUpdate, Exists

LEMMA StutterKeeps ==
  ASSUME Inv, UNCHANGED vars
  PROVE  Inv'
<1>1. /\ requests' = requests /\ audit' = audit /\ reviews' = reviews
      /\ idempotency' = idempotency /\ jobRuns' = jobRuns /\ now' = now
      /\ calls' = calls /\ workers' = workers /\ executions' = executions
      /\ faults' = faults
  BY DEF vars, storeVars
<1>2. TypeOK'
  BY <1>1 DEF Inv, TypeOK
<1> QED BY <1>1, <1>2 DEF Inv, NoLostUpdate, IsNewDraft, RowOf, Exists, At

LEMMA NextKeeps == Inv /\ [Next]_vars => Inv'
<1> SUFFICES ASSUME Inv, [Next]_vars PROVE Inv'
  OBVIOUS
<1>1. ASSUME NEW c \in Calls, CallStep(c) PROVE Inv'
  BY <1>1, CallStepKeeps
<1>2. ASSUME NEW c \in Calls, CallFault(c) PROVE Inv'
  BY <1>2, CallFaultKeeps
<1>3. ASSUME NEW w \in Workers, WorkStep(w) PROVE Inv'
  BY <1>3, WorkStepKeeps
<1>4. ASSUME NEW w \in Workers, WorkFault(w) PROVE Inv'
  BY <1>4, WorkFaultKeeps
<1>5. CASE Tick
  BY <1>5, TickKeeps
<1>6. CASE Restart
  BY <1>6, RestartKeeps
<1>7. CASE UNCHANGED vars
  BY <1>7, StutterKeeps
<1> QED BY <1>1, <1>2, <1>3, <1>4, <1>5, <1>6, <1>7 DEF Next

\* The inductive invariant holds of every reachable state.
THEOREM InvHolds == Spec => []Inv
BY InitKeeps, NextKeeps, PTL DEF Spec

\* Every variable keeps its type, whatever the calls, workers and failures.
THEOREM TypeCorrect == Spec => []TypeOK
<1>1. Inv => TypeOK
  BY DEF Inv
<1> QED BY <1>1, InvHolds, PTL

\* No lost update: whoever changes a request in between, what a call or a
\* worker is about to write is stale and refused by UpdateRequest, or a legal
\* transition of the very row it replaces.
THEOREM NoLostUpdateHolds == Spec => []NoLostUpdate
<1>1. Inv => NoLostUpdate
  BY DEF Inv
<1> QED BY <1>1, InvHolds, PTL

=============================================================================
