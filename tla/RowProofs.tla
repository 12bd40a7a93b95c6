------------------------------ MODULE RowProofs ------------------------------
(***************************************************************************)
(* Lemmas about the rows the operations write, for every proof module.     *)
(***************************************************************************)
EXTENDS Transitions, TLAPS

\* A column may be set to a value of its type: the columns the operations set.
LEMMA SetColumn ==
  ASSUME NEW r \in Row
  PROVE  /\ \A x \in Statuses : [r EXCEPT !.status = x] \in Row
         /\ \A x \in Nat : [r EXCEPT !.version = x] \in Row
         /\ \A x \in Nat : [r EXCEPT !.reminder_count = x] \in Row
         /\ \A x \in Nat : [r EXCEPT !.execution_attempts = x] \in Row
         /\ \A x \in Users \cup {NoReviewer} :
               [r EXCEPT !.assigned_reviewer_id = x] \in Row
         /\ \A x \in Times : [r EXCEPT !.submitted_at = x] \in Row
         /\ \A x \in Times : [r EXCEPT !.last_reminded_at = x] \in Row
         /\ \A x \in Times : [r EXCEPT !.next_execution_at = x] \in Row
<1>1. ASSUME NEW x \in Statuses PROVE [r EXCEPT !.status = x] \in Row
  BY DEF Row
<1>2. ASSUME NEW x \in Nat PROVE [r EXCEPT !.version = x] \in Row
  BY DEF Row
<1>3. ASSUME NEW x \in Nat PROVE [r EXCEPT !.reminder_count = x] \in Row
  BY DEF Row
<1>4. ASSUME NEW x \in Nat PROVE [r EXCEPT !.execution_attempts = x] \in Row
  BY DEF Row
<1>5. ASSUME NEW x \in Users \cup {NoReviewer}
      PROVE  [r EXCEPT !.assigned_reviewer_id = x] \in Row
  BY DEF Row
<1>6. ASSUME NEW x \in Times PROVE [r EXCEPT !.submitted_at = x] \in Row
  BY DEF Row
<1>7. ASSUME NEW x \in Times PROVE [r EXCEPT !.last_reminded_at = x] \in Row
  BY DEF Row
<1>8. ASSUME NEW x \in Times PROVE [r EXCEPT !.next_execution_at = x] \in Row
  BY DEF Row
<1> QED BY <1>1, <1>2, <1>3, <1>4, <1>5, <1>6, <1>7, <1>8

\* CreateDraft makes a row of the table.
LEMMA DraftRowType ==
  ASSUME NEW id \in Ids, NEW actor \in Actors, NEW target \in Targets
  PROVE  /\ DraftRow(id, actor, target) \in Row
         /\ DraftRow(id, actor, target).id = id
         /\ DraftRow(id, actor, target).version = 1
BY DEF DraftRow, Row, Actors, Statuses, Times

\* What an operation writes: a row of the same request with the next version.
Follows(new, r) ==
  new \in Row /\ new.id = r.id /\ new.version = r.version + 1

\* SubmitRequest
LEMMA SubmittedRowFollows ==
  ASSUME NEW r \in Row, NEW t \in Int
  PROVE  Follows(SubmittedRow(r, t), r)
<1> DEFINE r1 == [r EXCEPT !.status = "pending_review"]
           r2 == [r1 EXCEPT !.assigned_reviewer_id = DefaultReviewer]
           r3 == [r2 EXCEPT !.submitted_at = t]
           r4 == [r3 EXCEPT !.version = r.version + 1]
<1>1. r1 \in Row
  BY SetColumn DEF Statuses
<1>2. r2 \in Row
  BY <1>1, SetColumn, ConfigAssumption
<1>3. r3 \in Row
  BY <1>2, SetColumn DEF Times
<1>4. r4 \in Row
  <2>1. r.version + 1 \in Nat BY DEF Row
  <2> QED BY <1>3, <2>1, SetColumn
<1>5. SubmittedRow(r, t) = r4
  BY DEF SubmittedRow
<1>6. SubmittedRow(r, t).id = r.id /\ SubmittedRow(r, t).version = r.version + 1
  BY DEF SubmittedRow, Row
<1> QED BY <1>4, <1>5, <1>6 DEF Follows

\* reviewRequest
LEMMA ReviewedRowFollows ==
  ASSUME NEW r \in Row, NEW t \in Int, NEW decision \in Decisions
  PROVE  Follows(ReviewedRow(r, decision, t), r)
<1> DEFINE due == IF decision = "approved" THEN t ELSE Nil
           r1 == [r EXCEPT !.status = decision]
           r2 == [r1 EXCEPT !.next_execution_at = due]
           r3 == [r2 EXCEPT !.version = r.version + 1]
<1>1. r1 \in Row
  BY SetColumn DEF Statuses, Decisions
<1>2. r2 \in Row
  <2>1. due \in Times BY DEF Times
  <2> QED BY <1>1, <2>1, SetColumn
<1>3. r3 \in Row
  <2>1. r.version + 1 \in Nat BY DEF Row
  <2> QED BY <1>2, <2>1, SetColumn
<1>4. ReviewedRow(r, decision, t) = r3
  BY DEF ReviewedRow
<1>5. /\ ReviewedRow(r, decision, t).id = r.id
      /\ ReviewedRow(r, decision, t).version = r.version + 1
  BY DEF ReviewedRow, Row
<1> QED BY <1>3, <1>4, <1>5 DEF Follows

\* ProcessDueReminders
LEMMA RemindedRowFollows ==
  ASSUME NEW r \in Row, NEW t \in Int
  PROVE  Follows(RemindedRow(r, t), r)
<1> DEFINE r1 == [r EXCEPT !.reminder_count = r.reminder_count + 1]
           r2 == [r1 EXCEPT !.last_reminded_at = t]
           r3 == [r2 EXCEPT !.version = r.version + 1]
<1>1. r.version + 1 \in Nat /\ r.reminder_count + 1 \in Nat
  BY DEF Row
<1>2. r1 \in Row
  BY <1>1, SetColumn
<1>3. r2 \in Row
  BY <1>2, SetColumn DEF Times
<1>4. r3 \in Row
  BY <1>1, <1>3, SetColumn
<1>5. RemindedRow(r, t) = r3
  BY DEF RemindedRow
<1>6. RemindedRow(r, t).id = r.id /\ RemindedRow(r, t).version = r.version + 1
  BY DEF RemindedRow, Row
<1> QED BY <1>4, <1>5, <1>6 DEF Follows

\* applyExecutionResult
LEMMA ExecutionRowFollows ==
  ASSUME NEW r \in Row, NEW t \in Int, NEW success \in BOOLEAN
  PROVE  Follows(ExecutionRow(r, success, t), r)
<1> DEFINE attempts == AttemptsAfter(r)
           due == Schedule(success, attempts, t)
           r1 == [r EXCEPT !.status = Outcome(success)]
           r2 == [r1 EXCEPT !.execution_attempts = attempts]
           r3 == [r2 EXCEPT !.next_execution_at = due]
           r4 == [r3 EXCEPT !.version = r.version + 1]
<1>1. attempts \in Nat /\ r.version + 1 \in Nat
  BY DEF AttemptsAfter, Row
<1>2. due \in Times
  <2>1. attempts * RetryBase \in Int
    BY <1>1, ConfigAssumption
  <2> HIDE DEF attempts
  <2> QED BY <2>1 DEF Schedule, Times
<1>3. r1 \in Row
  BY SetColumn DEF Outcome, Statuses
<1>4. r2 \in Row
  BY <1>1, <1>3, SetColumn
<1>5. r3 \in Row
  BY <1>2, <1>4, SetColumn
<1>6. r4 \in Row
  BY <1>1, <1>5, SetColumn
<1>7. ExecutionRow(r, success, t) = r4
  BY DEF ExecutionRow
<1>8. /\ ExecutionRow(r, success, t).id = r.id
      /\ ExecutionRow(r, success, t).version = r.version + 1
  BY DEF ExecutionRow, Row
<1> QED BY <1>6, <1>7, <1>8 DEF Follows

=============================================================================
