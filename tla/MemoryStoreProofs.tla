-------------------------- MODULE MemoryStoreProofs --------------------------
(***************************************************************************)
(* The in-memory store of the tests implements what the service expects of *)
(* a repository, and its listings differ from those of Postgres exactly as *)
(* module MemoryStore says, for every set of requests, users and keys.     *)
(***************************************************************************)
EXTENDS MemoryStore, RowProofs, FiniteSetTheorems

\* What the maps hold.  The slices of a map are numbered from 1 on.
AuditEntry == [version : Nat, action : Statuses, actor : {SystemActor}]
ReviewEntry == [version : Nat, decision : Statuses, actor_id : {SystemActor.id}]
RunEntry == [version : Nat, job_type : {"execution"}, status : Statuses, attempt : Nat]

Log == [Ids -> Seq(AuditEntry)]
ReviewLog == [Ids -> Seq(ReviewEntry)]
RunLog == [Ids -> Seq(RunEntry)]

RequestsOK ==
  /\ DOMAIN requests \subseteq Ids /\ IsFiniteSet(DOMAIN requests)
  /\ requests = [id \in DOMAIN requests |-> requests[id]]
  /\ \A id \in DOMAIN requests : requests[id] \in Row /\ requests[id].id = id

SeenOK == \A row \in seen : row \in Row /\ row.id \in DOMAIN requests

MapsOK ==
  /\ RequestsOK
  /\ SeenOK
  /\ audit \in Log
  /\ reviews \in ReviewLog
  /\ jobRuns \in RunLog
  /\ DOMAIN idempotency \subseteq Ids \X Keys
  /\ now \in Nat

\* A row the service writes follows the one it read.
LEMMA ChangesFollow ==
  ASSUME NEW r \in Row, NEW t \in Int, NEW row \in Pg!Changes(r, t)
  PROVE  Follows(row, r)
<1>1. CASE row = Pg!SubmittedRow(r, t)
  BY <1>1, SubmittedRowFollows DEF Pg!SubmittedRow, SubmittedRow
<1>2. CASE row = Pg!RemindedRow(r, t)
  BY <1>2, RemindedRowFollows DEF Pg!RemindedRow, RemindedRow
<1>3. CASE \E decision \in Decisions : row = Pg!ReviewedRow(r, decision, t)
  <2>1. PICK decision \in Decisions : row = Pg!ReviewedRow(r, decision, t)
    BY <1>3
  <2>2. row = ReviewedRow(r, decision, t)
    BY <2>1 DEF Pg!ReviewedRow, ReviewedRow
  <2> QED BY <2>2, ReviewedRowFollows
<1>4. CASE \E success \in BOOLEAN : row = Pg!ExecutionRow(r, success, t)
  BY <1>4, ExecutionRowFollows DEF Pg!ExecutionRow, ExecutionRow, Pg!Outcome, Outcome,
       Pg!Schedule, Schedule, Pg!AttemptsAfter, AttemptsAfter
<1> QED BY <1>1, <1>2, <1>3, <1>4 DEF Pg!Changes, Pg!Decisions, Decisions, Pg!AwaitsExecution

\* A row the service computed, stored or not, is one of a stored request.
LEMMA ComputedRows ==
  ASSUME MapsOK, NEW row \in Pg!Computed
  PROVE  row \in Row /\ row.id \in DOMAIN requests
<1>1. PICK r \in seen, t \in 0..now : row \in Pg!Changes(r, t)
  BY DEF Pg!Computed
<1>2. r \in Row /\ t \in Int /\ r.id \in DOMAIN requests
  BY DEF MapsOK, SeenOK
<1>3. row \in Row /\ row.id = r.id
  BY <1>1, <1>2, ChangesFollow DEF Follows
<1> QED BY <1>2, <1>3

\* The map of the requests after a write.
LEMMA WriteKeeps ==
  ASSUME RequestsOK, SeenOK, NEW row \in Row,
         requests' = With(requests, row.id, row), seen' = seen \cup {row}
  PROVE  RequestsOK' /\ SeenOK'
<1>1. DOMAIN requests' = DOMAIN requests \cup {row.id} /\ row.id \in Ids
  BY DEF With, Row
<1>2. IsFiniteSet(DOMAIN requests')
  BY <1>1, FS_AddElement DEF RequestsOK
<1>3. requests' = [id \in DOMAIN requests' |-> requests'[id]]
  BY DEF With
<1>4. ASSUME NEW id \in DOMAIN requests'
      PROVE  requests'[id] \in Row /\ requests'[id].id = id
  <2>1. CASE id = row.id
    BY <1>1, <2>1 DEF With
  <2>2. CASE id # row.id
    <3>1. id \in DOMAIN requests /\ requests'[id] = requests[id]
      BY <1>1, <1>4, <2>2 DEF With
    <3> QED BY <3>1 DEF RequestsOK
  <2> QED BY <2>1, <2>2
<1>5. SeenOK'
  BY <1>1 DEF SeenOK
<1> QED BY <1>1, <1>2, <1>3, <1>4, <1>5 DEF RequestsOK

\* Appending to one of the slices: its k-th entry is new, nothing else is.
Grows(log, new, id, entry, k) ==
  /\ k \in DOMAIN new[id] /\ new[id][k] = entry
  /\ \A i \in Ids : \A n \in DOMAIN log[i] : n \in DOMAIN new[i] /\ new[i][n] = log[i][n]
  /\ \A i \in Ids : \A n \in DOMAIN new[i] : n \in DOMAIN log[i] \/ (i = id /\ n = k)

Appending(log, id, entry) == [log EXCEPT ![id] = Append(@, entry)]

LEMMA Appended ==
  ASSUME NEW S, NEW log \in [Ids -> Seq(S)], NEW id \in Ids, NEW entry \in S
  PROVE  /\ Appending(log, id, entry) \in [Ids -> Seq(S)]
         /\ Grows(log, Appending(log, id, entry), id, entry, Len(log[id]) + 1)
<1> DEFINE new == [log EXCEPT ![id] = Append(@, entry)]
<1>1. log[id] \in Seq(S) /\ Len(log[id]) \in Nat /\ DOMAIN log[id] = 1..Len(log[id])
  OBVIOUS
<1>2. new[id] = Append(log[id], entry) /\ \A i \in Ids : i # id => new[i] = log[i]
  OBVIOUS
<1>3. PICK n \in Nat : n = Len(log[id])
  BY <1>1
<1>4. /\ Append(log[id], entry) \in Seq(S)
      /\ DOMAIN Append(log[id], entry) = 1..n + 1
      /\ Append(log[id], entry)[n + 1] = entry
      /\ \A k \in 1..n : Append(log[id], entry)[k] = log[id][k]
  BY <1>1, <1>3
<1>5. 1..n + 1 = 1..n \cup {n + 1}
  OBVIOUS
<1>6. new \in [Ids -> Seq(S)]
  BY <1>4
<1>7. /\ DOMAIN new[id] = DOMAIN log[id] \cup {Len(log[id]) + 1}
      /\ \A k \in DOMAIN log[id] : new[id][k] = log[id][k]
      /\ new[id][Len(log[id]) + 1] = entry
  BY <1>1, <1>2, <1>3, <1>4, <1>5
<1>8. ASSUME NEW i \in Ids
      PROVE  /\ \A k \in DOMAIN log[i] : k \in DOMAIN new[i] /\ new[i][k] = log[i][k]
             /\ \A k \in DOMAIN new[i] : k \in DOMAIN log[i] \/ (i = id /\ k = Len(log[id]) + 1)
  BY <1>2, <1>7
<1> QED BY <1>6, <1>7, <1>8 DEF Grows, Appending

\* Records numbered from 1 on are as many as the last number.
LEMMA CountByWriter ==
  ASSUME NEW S, NEW n \in Nat,
         \A e \in S : e.writer \in 1..n,
         \A k \in 1..n : \E e \in S : e.writer = k,
         \A e, f \in S : e.writer = f.writer => e = f
  PROVE  Cardinality(S) = n
<1> DEFINE at == [k \in 1..n |-> CHOOSE e \in S : e.writer = k]
<1>1. \A k \in 1..n : at[k] \in S /\ at[k].writer = k
  OBVIOUS
<1>2. at \in [1..n -> S]
  BY <1>1
<1> HIDE DEF at
<1>3. \A k, l \in 1..n : at[k] = at[l] => k = l
  BY <1>1
<1>4. \A e \in S : \E k \in 1..n : at[k] = e
  BY <1>1
<1>5. at \in Bijection(1..n, S)
  <2>1. at \in Injection(1..n, S)
    BY <1>2, <1>3 DEF Injection, IsInjective
  <2>2. at \in Surjection(1..n, S)
    BY <1>2, <1>4 DEF Surjection
  <2> QED BY <2>1, <2>2 DEF Bijection
<1> QED BY <1>5, FS_CountingElements DEF ExistsBijection

-----------------------------------------------------------------------------
(* The tables the maps stand for. *)

AuditRecord(id, entry, n) ==
  [request |-> id, version |-> entry.version, action |-> entry.action,
   actor |-> entry.actor, writer |-> n]

LEMMA AuditMembers ==
  /\ \A e : e \in AuditTable <=>
        \E id \in Ids : \E n \in DOMAIN audit[id] : e = AuditRecord(id, audit[id][n], n)
  /\ \A e : e \in AuditTable' <=>
        \E id \in Ids : \E n \in DOMAIN audit'[id] : e = AuditRecord(id, audit'[id][n], n)
<1>1. \A e : e \in AuditTable <=>
        \E id \in Ids : \E n \in DOMAIN audit[id] : e = AuditRecord(id, audit[id][n], n)
  BY DEF AuditTable, Numbered, AuditRecord
<1>2. \A e : e \in AuditTable' <=>
        \E id \in Ids : \E n \in DOMAIN audit'[id] : e = AuditRecord(id, audit'[id][n], n)
  BY DEF AuditTable, Numbered, AuditRecord
<1> QED BY <1>1, <1>2

LEMMA AuditAppended ==
  ASSUME MapsOK, NEW row \in Row, NEW entry \in AuditEntry,
         audit' = AppendTo(audit, row, entry)
  PROVE  /\ audit' \in Log
         /\ AuditTable' = AuditTable \cup {AuditRecord(row.id, entry, Len(audit[row.id]) + 1)}
<1> DEFINE last == Len(audit[row.id]) + 1
<1>1. row.id \in Ids
  BY DEF Row
<1>2. audit \in Log /\ audit' = Appending(audit, row.id, entry)
  BY DEF MapsOK, AppendTo, Appending
<1>3. audit' \in Log /\ Grows(audit, audit', row.id, entry, last)
  BY <1>1, <1>2, Appended DEF Log
<1> HIDE DEF last
<1>4. ASSUME NEW e \in AuditTable
      PROVE  e \in AuditTable'
  <2>0. PICK i \in Ids : \E n \in DOMAIN audit[i] : e = AuditRecord(i, audit[i][n], n)
    BY <1>4, AuditMembers
  <2>1. PICK n \in DOMAIN audit[i] : e = AuditRecord(i, audit[i][n], n)
    BY <2>0
  <2>2. n \in DOMAIN audit'[i] /\ audit'[i][n] = audit[i][n]
    BY <1>3 DEF Grows
  <2> QED BY <2>1, <2>2, AuditMembers
<1>5. AuditRecord(row.id, entry, last) \in AuditTable'
  BY <1>1, <1>3, AuditMembers DEF Grows
<1>6. ASSUME NEW e \in AuditTable'
      PROVE  e \in AuditTable \cup {AuditRecord(row.id, entry, last)}
  <2>0. PICK i \in Ids : \E n \in DOMAIN audit'[i] : e = AuditRecord(i, audit'[i][n], n)
    BY <1>6, AuditMembers
  <2>1. PICK n \in DOMAIN audit'[i] : e = AuditRecord(i, audit'[i][n], n)
    BY <2>0
  <2>2. CASE n \in DOMAIN audit[i]
    BY <1>3, <2>1, <2>2, AuditMembers DEF Grows
  <2>3. CASE n \notin DOMAIN audit[i]
    <3>1. i = row.id /\ n = last
      BY <1>3, <2>1, <2>3 DEF Grows
    <3> QED BY <1>3, <2>1, <3>1 DEF Grows
  <2> QED BY <2>2, <2>3
<1> QED BY <1>3, <1>4, <1>5, <1>6 DEF last

LEMMA AuditCounted ==
  ASSUME MapsOK, NEW id \in Ids
  PROVE  Cardinality({e \in AuditTable : e.request = id}) = Len(audit[id])
<1> DEFINE S == {e \in AuditTable : e.request = id}
<1>1. Len(audit[id]) \in Nat /\ DOMAIN audit[id] = 1..Len(audit[id])
  BY DEF MapsOK, Log
<1>2. \A e \in S : e.writer \in DOMAIN audit[id]
  BY AuditMembers DEF AuditRecord
<1>3. ASSUME NEW k \in DOMAIN audit[id]
      PROVE  \E e \in S : e.writer = k
  <2>1. AuditRecord(id, audit[id][k], k) \in S
    BY AuditMembers DEF AuditRecord
  <2> QED BY <2>1 DEF AuditRecord
<1>4. \A e, f \in S : e.writer = f.writer => e = f
  <2>1. \A e \in S : \E n \in DOMAIN audit[id] : e = AuditRecord(id, audit[id][n], n)
    BY AuditMembers DEF AuditRecord
  <2>2. \A n : AuditRecord(id, audit[id][n], n).writer = n
    BY DEF AuditRecord
  <2> QED BY <2>1, <2>2
<1> HIDE DEF S
<1>5. Cardinality(S) = Len(audit[id])
  BY <1>1, <1>2, <1>3, <1>4, CountByWriter
<1> QED BY <1>5 DEF S

ReviewRecord(id, entry, n) ==
  [request |-> id, version |-> entry.version, decision |-> entry.decision,
   actor_id |-> entry.actor_id, writer |-> n]

LEMMA ReviewMembers ==
  /\ \A e : e \in ReviewTable <=>
        \E id \in Ids : \E n \in DOMAIN reviews[id] : e = ReviewRecord(id, reviews[id][n], n)
  /\ \A e : e \in ReviewTable' <=>
        \E id \in Ids : \E n \in DOMAIN reviews'[id] : e = ReviewRecord(id, reviews'[id][n], n)
<1>1. \A e : e \in ReviewTable <=>
        \E id \in Ids : \E n \in DOMAIN reviews[id] : e = ReviewRecord(id, reviews[id][n], n)
  BY DEF ReviewTable, Numbered, ReviewRecord
<1>2. \A e : e \in ReviewTable' <=>
        \E id \in Ids : \E n \in DOMAIN reviews'[id] : e = ReviewRecord(id, reviews'[id][n], n)
  BY DEF ReviewTable, Numbered, ReviewRecord
<1> QED BY <1>1, <1>2

LEMMA ReviewAppended ==
  ASSUME MapsOK, NEW row \in Row, NEW entry \in ReviewEntry,
         reviews' = AppendTo(reviews, row, entry)
  PROVE  /\ reviews' \in ReviewLog
         /\ ReviewTable' = ReviewTable \cup {ReviewRecord(row.id, entry, Len(reviews[row.id]) + 1)}
<1> DEFINE last == Len(reviews[row.id]) + 1
<1>1. row.id \in Ids
  BY DEF Row
<1>2. reviews \in ReviewLog /\ reviews' = Appending(reviews, row.id, entry)
  BY DEF MapsOK, AppendTo, Appending
<1>3. reviews' \in ReviewLog /\ Grows(reviews, reviews', row.id, entry, last)
  BY <1>1, <1>2, Appended DEF ReviewLog
<1> HIDE DEF last
<1>4. ASSUME NEW e \in ReviewTable
      PROVE  e \in ReviewTable'
  <2>0. PICK i \in Ids : \E n \in DOMAIN reviews[i] : e = ReviewRecord(i, reviews[i][n], n)
    BY <1>4, ReviewMembers
  <2>1. PICK n \in DOMAIN reviews[i] : e = ReviewRecord(i, reviews[i][n], n)
    BY <2>0
  <2>2. n \in DOMAIN reviews'[i] /\ reviews'[i][n] = reviews[i][n]
    BY <1>3 DEF Grows
  <2> QED BY <2>1, <2>2, ReviewMembers
<1>5. ReviewRecord(row.id, entry, last) \in ReviewTable'
  BY <1>1, <1>3, ReviewMembers DEF Grows
<1>6. ASSUME NEW e \in ReviewTable'
      PROVE  e \in ReviewTable \cup {ReviewRecord(row.id, entry, last)}
  <2>0. PICK i \in Ids : \E n \in DOMAIN reviews'[i] : e = ReviewRecord(i, reviews'[i][n], n)
    BY <1>6, ReviewMembers
  <2>1. PICK n \in DOMAIN reviews'[i] : e = ReviewRecord(i, reviews'[i][n], n)
    BY <2>0
  <2>2. CASE n \in DOMAIN reviews[i]
    BY <1>3, <2>1, <2>2, ReviewMembers DEF Grows
  <2>3. CASE n \notin DOMAIN reviews[i]
    <3>1. i = row.id /\ n = last
      BY <1>3, <2>1, <2>3 DEF Grows
    <3> QED BY <1>3, <2>1, <3>1 DEF Grows
  <2> QED BY <2>2, <2>3
<1> QED BY <1>3, <1>4, <1>5, <1>6 DEF last

LEMMA ReviewCounted ==
  ASSUME MapsOK, NEW id \in Ids
  PROVE  Cardinality({e \in ReviewTable : e.request = id}) = Len(reviews[id])
<1> DEFINE S == {e \in ReviewTable : e.request = id}
<1>1. Len(reviews[id]) \in Nat /\ DOMAIN reviews[id] = 1..Len(reviews[id])
  BY DEF MapsOK, ReviewLog
<1>2. \A e \in S : e.writer \in DOMAIN reviews[id]
  BY ReviewMembers DEF ReviewRecord
<1>3. ASSUME NEW k \in DOMAIN reviews[id]
      PROVE  \E e \in S : e.writer = k
  <2>1. ReviewRecord(id, reviews[id][k], k) \in S
    BY ReviewMembers DEF ReviewRecord
  <2> QED BY <2>1 DEF ReviewRecord
<1>4. \A e, f \in S : e.writer = f.writer => e = f
  <2>1. \A e \in S : \E n \in DOMAIN reviews[id] : e = ReviewRecord(id, reviews[id][n], n)
    BY ReviewMembers DEF ReviewRecord
  <2>2. \A n : ReviewRecord(id, reviews[id][n], n).writer = n
    BY DEF ReviewRecord
  <2> QED BY <2>1, <2>2
<1> HIDE DEF S
<1>5. Cardinality(S) = Len(reviews[id])
  BY <1>1, <1>2, <1>3, <1>4, CountByWriter
<1> QED BY <1>5 DEF S

JobRunRecord(id, entry, n) ==
  [request |-> id, version |-> entry.version, job_type |-> entry.job_type,
   status |-> entry.status, attempt |-> entry.attempt, writer |-> n]

LEMMA JobRunMembers ==
  /\ \A e : e \in JobRunTable <=>
        \E id \in Ids : \E n \in DOMAIN jobRuns[id] : e = JobRunRecord(id, jobRuns[id][n], n)
  /\ \A e : e \in JobRunTable' <=>
        \E id \in Ids : \E n \in DOMAIN jobRuns'[id] : e = JobRunRecord(id, jobRuns'[id][n], n)
<1>1. \A e : e \in JobRunTable <=>
        \E id \in Ids : \E n \in DOMAIN jobRuns[id] : e = JobRunRecord(id, jobRuns[id][n], n)
  BY DEF JobRunTable, Numbered, JobRunRecord
<1>2. \A e : e \in JobRunTable' <=>
        \E id \in Ids : \E n \in DOMAIN jobRuns'[id] : e = JobRunRecord(id, jobRuns'[id][n], n)
  BY DEF JobRunTable, Numbered, JobRunRecord
<1> QED BY <1>1, <1>2

LEMMA JobRunAppended ==
  ASSUME MapsOK, NEW row \in Row, NEW entry \in RunEntry,
         jobRuns' = AppendTo(jobRuns, row, entry)
  PROVE  /\ jobRuns' \in RunLog
         /\ JobRunTable' = JobRunTable \cup {JobRunRecord(row.id, entry, Len(jobRuns[row.id]) + 1)}
<1> DEFINE last == Len(jobRuns[row.id]) + 1
<1>1. row.id \in Ids
  BY DEF Row
<1>2. jobRuns \in RunLog /\ jobRuns' = Appending(jobRuns, row.id, entry)
  BY DEF MapsOK, AppendTo, Appending
<1>3. jobRuns' \in RunLog /\ Grows(jobRuns, jobRuns', row.id, entry, last)
  BY <1>1, <1>2, Appended DEF RunLog
<1> HIDE DEF last
<1>4. ASSUME NEW e \in JobRunTable
      PROVE  e \in JobRunTable'
  <2>0. PICK i \in Ids : \E n \in DOMAIN jobRuns[i] : e = JobRunRecord(i, jobRuns[i][n], n)
    BY <1>4, JobRunMembers
  <2>1. PICK n \in DOMAIN jobRuns[i] : e = JobRunRecord(i, jobRuns[i][n], n)
    BY <2>0
  <2>2. n \in DOMAIN jobRuns'[i] /\ jobRuns'[i][n] = jobRuns[i][n]
    BY <1>3 DEF Grows
  <2> QED BY <2>1, <2>2, JobRunMembers
<1>5. JobRunRecord(row.id, entry, last) \in JobRunTable'
  BY <1>1, <1>3, JobRunMembers DEF Grows
<1>6. ASSUME NEW e \in JobRunTable'
      PROVE  e \in JobRunTable \cup {JobRunRecord(row.id, entry, last)}
  <2>0. PICK i \in Ids : \E n \in DOMAIN jobRuns'[i] : e = JobRunRecord(i, jobRuns'[i][n], n)
    BY <1>6, JobRunMembers
  <2>1. PICK n \in DOMAIN jobRuns'[i] : e = JobRunRecord(i, jobRuns'[i][n], n)
    BY <2>0
  <2>2. CASE n \in DOMAIN jobRuns[i]
    BY <1>3, <2>1, <2>2, JobRunMembers DEF Grows
  <2>3. CASE n \notin DOMAIN jobRuns[i]
    <3>1. i = row.id /\ n = last
      BY <1>3, <2>1, <2>3 DEF Grows
    <3> QED BY <1>3, <2>1, <3>1 DEF Grows
  <2> QED BY <2>2, <2>3
<1> QED BY <1>3, <1>4, <1>5, <1>6 DEF last

LEMMA JobRunCounted ==
  ASSUME MapsOK, NEW id \in Ids
  PROVE  Cardinality({e \in JobRunTable : e.request = id}) = Len(jobRuns[id])
<1> DEFINE S == {e \in JobRunTable : e.request = id}
<1>1. Len(jobRuns[id]) \in Nat /\ DOMAIN jobRuns[id] = 1..Len(jobRuns[id])
  BY DEF MapsOK, RunLog
<1>2. \A e \in S : e.writer \in DOMAIN jobRuns[id]
  BY JobRunMembers DEF JobRunRecord
<1>3. ASSUME NEW k \in DOMAIN jobRuns[id]
      PROVE  \E e \in S : e.writer = k
  <2>1. JobRunRecord(id, jobRuns[id][k], k) \in S
    BY JobRunMembers DEF JobRunRecord
  <2> QED BY <2>1 DEF JobRunRecord
<1>4. \A e, f \in S : e.writer = f.writer => e = f
  <2>1. \A e \in S : \E n \in DOMAIN jobRuns[id] : e = JobRunRecord(id, jobRuns[id][n], n)
    BY JobRunMembers DEF JobRunRecord
  <2>2. \A n : JobRunRecord(id, jobRuns[id][n], n).writer = n
    BY DEF JobRunRecord
  <2> QED BY <2>1, <2>2
<1> HIDE DEF S
<1>5. Cardinality(S) = Len(jobRuns[id])
  BY <1>1, <1>2, <1>3, <1>4, CountByWriter
<1> QED BY <1>5 DEF S

LEMMA KeyMembers ==
  /\ \A e : e \in KeyTable <=>
        \E claim \in DOMAIN idempotency :
            e = [scope |-> claim[1], key |-> claim[2], fingerprint |-> idempotency[claim]]
  /\ \A e : e \in KeyTable' <=>
        \E claim \in DOMAIN idempotency' :
            e = [scope |-> claim[1], key |-> claim[2], fingerprint |-> idempotency'[claim]]
BY DEF KeyTable

\* A key is claimed in the map exactly if the table has a record of it.
LEMMA ClaimsAgree ==
  ASSUME MapsOK, NEW scope \in Ids, NEW key \in Keys
  PROVE  Pg!GetIdempotency(scope, key) = {} <=> <<scope, key>> \notin DOMAIN idempotency
<1>1. ASSUME NEW e \in KeyTable, e.scope = scope, e.key = key
      PROVE  <<scope, key>> \in DOMAIN idempotency
  <2>1. PICK claim \in DOMAIN idempotency :
            e = [scope |-> claim[1], key |-> claim[2], fingerprint |-> idempotency[claim]]
    BY KeyMembers
  <2>2. claim = <<claim[1], claim[2]>>
    BY DEF MapsOK
  <2> QED BY <1>1, <2>1, <2>2
<1>2. ASSUME <<scope, key>> \in DOMAIN idempotency
      PROVE  \E e \in KeyTable : e.scope = scope /\ e.key = key
  <2> DEFINE e == [scope |-> scope, key |-> key, fingerprint |-> idempotency[<<scope, key>>]]
  <2>1. e \in KeyTable
    BY <1>2, KeyMembers
  <2> QED BY <2>1
<1> QED BY <1>1, <1>2 DEF Pg!GetIdempotency

\* The same for the map after a claim.
LEMMA ClaimRecorded ==
  ASSUME MapsOK, NEW scope \in Ids, NEW key \in Keys, NEW fingerprint,
         <<scope, key>> \notin DOMAIN idempotency,
         idempotency' = With(idempotency, <<scope, key>>, fingerprint)
  PROVE  /\ DOMAIN idempotency' \subseteq Ids \X Keys
         /\ KeyTable' = KeyTable \cup {[scope |-> scope, key |-> key,
                                        fingerprint |-> fingerprint]}
<1> DEFINE claimed == <<scope, key>>
           new == [scope |-> scope, key |-> key, fingerprint |-> fingerprint]
<1>1. /\ DOMAIN idempotency' = DOMAIN idempotency \cup {claimed}
      /\ idempotency'[claimed] = fingerprint
      /\ \A claim \in DOMAIN idempotency : idempotency'[claim] = idempotency[claim]
  BY DEF With
<1>2. claimed[1] = scope /\ claimed[2] = key
  OBVIOUS
<1>3. DOMAIN idempotency' \subseteq Ids \X Keys
  BY <1>1 DEF MapsOK
<1> HIDE DEF claimed
<1>4. ASSUME NEW e \in KeyTable
      PROVE  e \in KeyTable'
  BY <1>1, <1>4, KeyMembers
<1>5. new \in KeyTable'
  BY <1>1, <1>2, KeyMembers
<1>6. ASSUME NEW e \in KeyTable'
      PROVE  e \in KeyTable \cup {new}
  BY <1>1, <1>2, <1>6, KeyMembers
<1> QED BY <1>3, <1>4, <1>5, <1>6

\* The table of the requests, as StoreContract sees it.
Table == [id \in Ids |-> IF id \in DOMAIN requests THEN requests[id] ELSE Nil]

LEMMA TableWritten ==
  ASSUME NEW row \in Row, requests' = With(requests, row.id, row)
  PROVE  Table' = [Table EXCEPT ![row.id] = row]
BY DEF With, Table, Row

LEMMA TablesKept ==
  /\ requests' = requests => Table' = Table
  /\ audit' = audit => AuditTable' = AuditTable
  /\ reviews' = reviews => ReviewTable' = ReviewTable
  /\ jobRuns' = jobRuns => JobRunTable' = JobRunTable
  /\ idempotency' = idempotency => KeyTable' = KeyTable
<1>1. requests' = requests => Table' = Table
  BY DEF Table
<1>2. audit' = audit => AuditTable' = AuditTable
  BY DEF AuditTable, Numbered
<1>3. reviews' = reviews => ReviewTable' = ReviewTable
  BY DEF ReviewTable, Numbered
<1>4. jobRuns' = jobRuns => JobRunTable' = JobRunTable
  BY DEF JobRunTable, Numbered
<1>5. idempotency' = idempotency => KeyTable' = KeyTable
  BY DEF KeyTable
<1> QED BY <1>1, <1>2, <1>3, <1>4, <1>5

-----------------------------------------------------------------------------
(* One method at a time: the maps keep their shape, and the tables they      *)
(* stand for change as StoreContract says.                                   *)

PgStep == Pg!Next \/ UNCHANGED Pg!contractVars

\* The module StoreContract counts as this one does.
LEMMA SameCardinality == \A S : Pg!Cardinality(S) = Cardinality(S)
BY DEF Pg!Cardinality, Cardinality

LEMMA CreateStep ==
  ASSUME MapsOK, NEW id \in Ids \ DOMAIN requests, NEW actor \in Actors,
         NEW target \in Targets, CreateRequest(DraftRow(id, actor, target))
  PROVE  MapsOK' /\ PgStep
<1> DEFINE row == DraftRow(id, actor, target)
<1>1. row \in Row /\ row.id = id
  BY DraftRowType
<1>2. /\ requests' = With(requests, row.id, row) /\ seen' = seen \cup {row}
      /\ answer' = "ok" /\ now' = now
      /\ audit' = audit /\ reviews' = reviews /\ jobRuns' = jobRuns
      /\ idempotency' = idempotency
  BY DEF CreateRequest, Stores, Answers
<1>3. row = Pg!DraftRow(id, actor, target)
  BY DEF Pg!DraftRow, DraftRow, Pg!NoReviewer, NoReviewer
<1> HIDE DEF row
<1>4. MapsOK'
  BY <1>1, <1>2, WriteKeeps DEF MapsOK
<1>5. Table[id] = Nil /\ Table' = [Table EXCEPT ![row.id] = row]
  BY <1>1, <1>2, TableWritten DEF Table
<1>6. Pg!Create(row)
  BY <1>1, <1>2, <1>5, TablesKept
     DEF Pg!Create, Pg!Exists, Pg!CreateRequest, Pg!Stores, Pg!Answers, Table
<1>7. actor \in Pg!Actors
  BY DEF Pg!Actors, Actors, Pg!Roles, Roles
<1> QED BY <1>3, <1>4, <1>6, <1>7 DEF PgStep, Pg!Next

LEMMA UpdateStep ==
  ASSUME MapsOK, NEW row \in Pg!Computed, UpdateRequest(row)
  PROVE  MapsOK' /\ PgStep
<1>1. row \in Row /\ row.id \in DOMAIN requests
  BY ComputedRows
<1>2. row.id \in DOMAIN requests /\ row.id \in Ids
  BY <1>1 DEF Row
<1>3. /\ now' = now /\ audit' = audit /\ reviews' = reviews /\ jobRuns' = jobRuns
      /\ idempotency' = idempotency /\ answer' = UpdateAnswer(row)
  BY DEF UpdateRequest, Answers
<1>4. Table[row.id] = requests[row.id] /\ Table[row.id] # Nil
  BY <1>2, NilAssumption DEF Table, MapsOK, RequestsOK
<1>5. CASE requests[row.id].version = row.version - 1
  <2>1. UpdateAnswer(row) = "ok"
    BY <1>2, <1>5 DEF UpdateAnswer
  <2>2. requests' = With(requests, row.id, row) /\ seen' = seen \cup {row}
    BY <2>1 DEF UpdateRequest, Stores
  <2>3. MapsOK'
    BY <1>1, <1>3, <2>2, WriteKeeps DEF MapsOK
  <2>4. Table' = [Table EXCEPT ![row.id] = row]
    BY <1>1, <2>2, TableWritten
  <2>5. Pg!Update(row)
    BY <1>3, <1>4, <1>5, <2>1, <2>2, <2>4, TablesKept
       DEF Pg!Update, Pg!UpdateRequest, Pg!UpdateMatches, Pg!Exists, Pg!Stores,
           Pg!Answers, Table
  <2> QED BY <2>3, <2>5 DEF PgStep, Pg!Next
<1>6. CASE requests[row.id].version # row.version - 1
  <2>1. UpdateAnswer(row) = "conflict"
    BY <1>2, <1>6 DEF UpdateAnswer
  <2>2. requests' = requests /\ seen' = seen
    BY <2>1 DEF UpdateRequest
  <2>3. MapsOK'
    BY <1>3, <2>2 DEF MapsOK, RequestsOK, SeenOK
  <2>4. Pg!Update(row)
    BY <1>3, <1>4, <1>6, <2>1, <2>2, TablesKept
       DEF Pg!Update, Pg!UpdateMatches, Pg!Exists, Pg!storeVars, Pg!Answers, Table
  <2> QED BY <2>3, <2>4 DEF PgStep, Pg!Next
<1> QED BY <1>5, <1>6

\* The three inserts.
LEMMA AuditStep ==
  ASSUME MapsOK, NEW row \in seen, AppendAudit(row)
  PROVE  MapsOK' /\ PgStep
<1> DEFINE entry == [version |-> row.version, action |-> row.status, actor |-> SystemActor]
<1>1. row \in Row /\ row.id \in Ids
  BY DEF MapsOK, SeenOK, Row
<1>2. entry \in AuditEntry
  BY <1>1 DEF Row, AuditEntry
<1>3. /\ audit' = AppendTo(audit, row, entry) /\ answer' = "ok" /\ now' = now
      /\ requests' = requests /\ reviews' = reviews /\ jobRuns' = jobRuns
      /\ idempotency' = idempotency /\ seen' = seen
  BY DEF AppendAudit, Answers
<1>4. /\ audit' \in Log
      /\ AuditTable' = AuditTable \cup {AuditRecord(row.id, entry, Len(audit[row.id]) + 1)}
  BY <1>1, <1>2, <1>3, AuditAppended
<1>5. MapsOK'
  BY <1>3, <1>4 DEF MapsOK, RequestsOK, SeenOK
<1>6. Pg!Numbered(AuditTable, row) = Len(audit[row.id]) + 1
  BY <1>1, AuditCounted, SameCardinality DEF Pg!Numbered
<1>7. Pg!AppendAudit(row, Pg!SystemActor, row.status, Pg!Numbered(AuditTable, row))
  BY <1>3, <1>4, <1>6, TablesKept
     DEF Pg!AppendAudit, Pg!SystemActor, SystemActor, AuditRecord, Table
<1>8. Pg!Append(row)
  BY <1>3, <1>7 DEF Pg!Append, Pg!Answers
<1> QED BY <1>5, <1>8 DEF PgStep, Pg!Next

LEMMA ReviewStep ==
  ASSUME MapsOK, NEW row \in seen, CreateReview(row)
  PROVE  MapsOK' /\ PgStep
<1> DEFINE entry == [version |-> row.version, decision |-> row.status,
                     actor_id |-> SystemActor.id]
<1>1. row \in Row /\ row.id \in Ids
  BY DEF MapsOK, SeenOK, Row
<1>2. entry \in ReviewEntry
  BY <1>1 DEF Row, ReviewEntry
<1>3. /\ reviews' = AppendTo(reviews, row, entry) /\ answer' = "ok" /\ now' = now
      /\ requests' = requests /\ audit' = audit /\ jobRuns' = jobRuns
      /\ idempotency' = idempotency /\ seen' = seen
  BY DEF CreateReview, Answers
<1>4. /\ reviews' \in ReviewLog
      /\ ReviewTable' = ReviewTable \cup {ReviewRecord(row.id, entry, Len(reviews[row.id]) + 1)}
  BY <1>1, <1>2, <1>3, ReviewAppended
<1>5. MapsOK'
  BY <1>3, <1>4 DEF MapsOK, RequestsOK, SeenOK
<1>6. Pg!Numbered(ReviewTable, row) = Len(reviews[row.id]) + 1
  BY <1>1, ReviewCounted, SameCardinality DEF Pg!Numbered
<1>7. Pg!CreateReview(row, Pg!SystemActor, row.status, Pg!Numbered(ReviewTable, row))
  BY <1>3, <1>4, <1>6, TablesKept
     DEF Pg!CreateReview, Pg!SystemActor, SystemActor, ReviewRecord, Table
<1>8. Pg!Append(row)
  BY <1>3, <1>7 DEF Pg!Append, Pg!Answers
<1> QED BY <1>5, <1>8 DEF PgStep, Pg!Next

LEMMA JobRunStep ==
  ASSUME MapsOK, NEW row \in seen \cup Pg!Results, AppendJobRun(row)
  PROVE  MapsOK' /\ PgStep
<1> DEFINE entry == [version |-> row.version, job_type |-> "execution",
                     status |-> row.status, attempt |-> row.execution_attempts]
<1>1. row \in Row /\ row.id \in Ids
  BY ComputedRows DEF Pg!Results, MapsOK, SeenOK, Row
<1>2. entry \in RunEntry
  BY <1>1 DEF Row, RunEntry
<1>3. /\ jobRuns' = AppendTo(jobRuns, row, entry) /\ answer' = "ok" /\ now' = now
      /\ requests' = requests /\ audit' = audit /\ reviews' = reviews
      /\ idempotency' = idempotency /\ seen' = seen
  BY DEF AppendJobRun, Answers
<1>4. /\ jobRuns' \in RunLog
      /\ JobRunTable' = JobRunTable \cup {JobRunRecord(row.id, entry, Len(jobRuns[row.id]) + 1)}
  BY <1>1, <1>2, <1>3, JobRunAppended
<1>5. MapsOK'
  BY <1>3, <1>4 DEF MapsOK, RequestsOK, SeenOK
<1>6. Pg!Numbered(JobRunTable, row) = Len(jobRuns[row.id]) + 1
  BY <1>1, JobRunCounted, SameCardinality DEF Pg!Numbered
<1>7. Pg!AppendJobRun(row, "execution", row.status, row.execution_attempts,
                      Pg!Numbered(JobRunTable, row))
  BY <1>3, <1>4, <1>6, TablesKept DEF Pg!AppendJobRun, JobRunRecord, Table
<1>8. Pg!AppendRun(row)
  BY <1>3, <1>7 DEF Pg!AppendRun, Pg!Answers
<1> QED BY <1>5, <1>8 DEF PgStep, Pg!Next

LEMMA ClaimStep ==
  ASSUME MapsOK, NEW id \in Ids, NEW key \in Keys, NEW fingerprint \in Users,
         CreateIdempotency(id, key, fingerprint)
  PROVE  MapsOK' /\ PgStep
<1>1. /\ now' = now /\ requests' = requests /\ audit' = audit /\ reviews' = reviews
      /\ jobRuns' = jobRuns /\ seen' = seen
  BY DEF CreateIdempotency, Answers
<1>2. CASE <<id, key>> \notin DOMAIN idempotency
  <2>1. /\ idempotency' = With(idempotency, <<id, key>>, fingerprint)
        /\ answer' = "ok"
    BY <1>2 DEF CreateIdempotency, Answers
  <2>2. /\ DOMAIN idempotency' \subseteq Ids \X Keys
        /\ KeyTable' = KeyTable \cup {[scope |-> id, key |-> key,
                                       fingerprint |-> fingerprint]}
    BY <1>2, <2>1, ClaimRecorded
  <2>3. MapsOK'
    BY <1>1, <2>2 DEF MapsOK, RequestsOK, SeenOK
  <2>4. Pg!CreateIdempotency(id, key, fingerprint)
    BY <1>1, <1>2, <2>2, ClaimsAgree, TablesKept DEF Pg!CreateIdempotency, Table
  <2> QED BY <1>1, <2>1, <2>3, <2>4 DEF PgStep, Pg!Next, Pg!Claim, Pg!Answers
<1>3. CASE <<id, key>> \in DOMAIN idempotency
  <2>1. idempotency' = idempotency /\ answer' = "conflict"
    BY <1>3 DEF CreateIdempotency, Answers
  <2>2. MapsOK'
    BY <1>1, <2>1 DEF MapsOK, RequestsOK, SeenOK
  <2>3. UNCHANGED Pg!storeVars /\ Pg!GetIdempotency(id, key) # {}
    BY <1>1, <1>3, <2>1, ClaimsAgree, TablesKept DEF Pg!storeVars, Table
  <2> QED BY <1>1, <2>1, <2>2, <2>3 DEF PgStep, Pg!Next, Pg!Claim, Pg!Answers
<1> QED BY <1>2, <1>3

LEMMA TickStep ==
  ASSUME MapsOK, Tick
  PROVE  MapsOK' /\ PgStep
<1>1. /\ now' = now + 1 /\ requests' = requests /\ audit' = audit /\ reviews' = reviews
      /\ jobRuns' = jobRuns /\ idempotency' = idempotency /\ seen' = seen
      /\ answer' = answer
  BY DEF Tick, maps
<1>2. MapsOK'
  BY <1>1 DEF MapsOK, RequestsOK, SeenOK
<1>3. Pg!Tick
  BY <1>1, TablesKept DEF Pg!Tick, Pg!storeVars, Table
<1> QED BY <1>2, <1>3 DEF PgStep, Pg!Next

LEMMA StepImplemented ==
  ASSUME MapsOK, [Next]_vars
  PROVE  MapsOK' /\ PgStep
<1>1. CASE UNCHANGED vars
  <2>1. /\ now' = now /\ requests' = requests /\ audit' = audit /\ reviews' = reviews
        /\ jobRuns' = jobRuns /\ idempotency' = idempotency /\ seen' = seen
        /\ answer' = answer
    BY <1>1 DEF vars, maps
  <2>2. MapsOK'
    BY <2>1 DEF MapsOK, RequestsOK, SeenOK
  <2>3. UNCHANGED Pg!contractVars
    BY <2>1, TablesKept DEF Pg!contractVars, Pg!storeVars, Table
  <2> QED BY <2>2, <2>3 DEF PgStep
<1>2. CASE Next
  BY <1>2, CreateStep, UpdateStep, AuditStep, ReviewStep, JobRunStep, ClaimStep, TickStep
     DEF Next
<1> QED BY <1>1, <1>2

LEMMA InitImplemented ==
  ASSUME Init
  PROVE  MapsOK /\ Pg!Init
<1>1. MapsOK
  <2>1. DOMAIN requests = {} /\ requests = [id \in DOMAIN requests |-> requests[id]]
    BY DEF Init
  <2>2. IsFiniteSet(DOMAIN requests)
    BY <2>1, FS_EmptySet
  <2>3. audit \in Log /\ reviews \in ReviewLog /\ jobRuns \in RunLog
    BY DEF Init, Log, ReviewLog, RunLog
  <2>4. DOMAIN idempotency = {} /\ seen = {} /\ now = 0
    BY DEF Init
  <2> QED BY <2>1, <2>2, <2>3, <2>4 DEF MapsOK, RequestsOK, SeenOK
<1>2. Table = [id \in Ids |-> Nil]
  BY DEF Init, Table
<1>3. AuditTable = {}
  BY DEF Init, AuditTable, Numbered
<1>4. ReviewTable = {}
  BY DEF Init, ReviewTable, Numbered
<1>5. JobRunTable = {}
  BY DEF Init, JobRunTable, Numbered
<1>6. KeyTable = {}
  BY DEF Init, KeyTable
<1>7. now = 0 /\ seen = {} /\ answer = "ok"
  BY DEF Init
<1> QED BY <1>1, <1>2, <1>3, <1>4, <1>5, <1>6, <1>7 DEF Pg!Init, Pg!StoreInit, Table

LEMMA MapsStayOK == Spec => []MapsOK
BY InitImplemented, StepImplemented, PTL DEF Spec

\* Whatever the service writes, the maps of the in-memory store change as the
\* tables of the Postgres store do, and every call is answered alike.
THEOREM MemoryStoreImplements == Spec => MemoryImplementsPostgres
<1>1. Init => Pg!Init
  BY InitImplemented
<1>2. MapsOK /\ [Next]_vars => [Pg!Next]_Pg!contractVars
  BY StepImplemented DEF PgStep
<1> QED BY <1>1, <1>2, MapsStayOK, PTL DEF Spec, Pg!Spec, MemoryImplementsPostgres

-----------------------------------------------------------------------------
(* The listings. *)

\* A condition left open selects everything in both stores (ListRequests).
THEOREM ListingsAgreeHolds == Spec => []ListingsAgree
<1>1. ListingsAgree
  BY DEF ListingsAgree, ListRequests, V!Selects, V!NoFilter
<1> QED BY <1>1, PTL

LEMMA RowsFacts ==
  ASSUME MapsOK
  PROVE  /\ Rows \subseteq Row /\ IsFiniteSet(Rows)
         /\ Pg!Rows = Rows
<1>1. Rows \subseteq Row
  BY DEF MapsOK, RequestsOK, Rows
<1>2. IsFiniteSet(Rows)
  <2>1. requests \in Surjection(DOMAIN requests, Rows)
    <3>1. requests \in [DOMAIN requests -> Rows]
      BY DEF MapsOK, RequestsOK, Rows
    <3>2. \A row \in Rows : \E id \in DOMAIN requests : requests[id] = row
      BY DEF Rows
    <3> QED BY <3>1, <3>2 DEF Surjection
  <2> QED BY <2>1, FS_Surjection DEF MapsOK, RequestsOK
<1>3. Pg!Rows = {Table[id] : id \in {i \in Ids : Table[i] # Nil}}
  BY DEF Pg!Rows, Pg!Exists, Table
<1>4. \A id \in Ids : Table[id] # Nil <=> id \in DOMAIN requests
  BY NilAssumption DEF Table, MapsOK, RequestsOK
<1>5. {i \in Ids : Table[i] # Nil} = DOMAIN requests
  BY <1>4 DEF MapsOK, RequestsOK
<1>6. \A id \in DOMAIN requests : Table[id] = requests[id]
  BY DEF Table, MapsOK, RequestsOK
<1> QED BY <1>1, <1>2, <1>3, <1>5, <1>6 DEF Rows

\* An execution is due in both stores at the same time, and what Postgres takes
\* of the due ones this store may take too (ListRequestsReadyForExecution).
THEOREM ExecutionsListedAlikeHolds == Spec => []ExecutionsListedAlike
<1>1. ASSUME MapsOK, NEW t \in 0..MaxTime, NEW limit \in 1..Cardinality(Ids)
      PROVE  LET here == ListRequestsReadyForExecution(t, limit)
                 there == Pg!ListRequestsReadyForExecution(t, limit)
             IN  there \subseteq here /\ (Cardinality(Ready(t)) <= limit => here = there)
  <2>1. limit \in Int /\ limit >= 1
    OBVIOUS
  <2>2. {r \in Pg!Rows : Pg!ReadyForExecution(r, t)} = Ready(t)
    BY <1>1, RowsFacts DEF Pg!ReadyForExecution, Pg!AwaitsExecution, Ready
  <2>3. IsFiniteSet(Ready(t)) /\ Cardinality(Ready(t)) \in Nat
    BY <1>1, RowsFacts, FS_Subset, FS_CardinalityType DEF Ready
  <2> DEFINE c == Cardinality(Ready(t))
             due == Ready(t)
  <2>4. Pg!ListRequestsReadyForExecution(t, limit) =
           {batch \in SUBSET due :
               /\ Cardinality(batch) = IF c < limit THEN c ELSE limit
               /\ \A r \in batch, q \in due \ batch :
                     r["next_execution_at"] <= q["next_execution_at"]}
    BY <2>2, SameCardinality DEF Pg!ListRequestsReadyForExecution, Pg!Batches
  <2>5. ListRequestsReadyForExecution(t, limit) =
           {batch \in SUBSET due : Cardinality(batch) = IF c < limit THEN c ELSE limit}
    BY <2>1 DEF ListRequestsReadyForExecution, Taken
  <2>6. ASSUME c <= limit, NEW batch \in SUBSET due,
               Cardinality(batch) = IF c < limit THEN c ELSE limit
        PROVE  batch = due
    <3>1. Cardinality(batch) = c
      BY <2>1, <2>3, <2>6
    <3> QED BY <2>3, <3>1, FS_Subset
  <2> HIDE DEF c, due
  <2>7. Pg!ListRequestsReadyForExecution(t, limit) \subseteq ListRequestsReadyForExecution(t, limit)
    BY <2>4, <2>5
  <2>8. ASSUME c <= limit
        PROVE  ListRequestsReadyForExecution(t, limit) = Pg!ListRequestsReadyForExecution(t, limit)
    BY <2>4, <2>5, <2>6, <2>8
  <2> QED BY <2>7, <2>8 DEF c
<1>2. MapsOK => ExecutionsListedAlike
  BY <1>1 DEF ExecutionsListedAlike
<1> QED BY <1>2, MapsStayOK, PTL

\* Only a request reminded exactly ReminderAfter ago is due in Postgres and not
\* here (ListRequestsNeedingReminder).
THEOREM RemindersListedAlikeHolds == Spec => []RemindersListedAlike
<1>1. ASSUME MapsOK, NEW t \in 0..MaxTime
      PROVE  NeedingReminder(t - ReminderAfter) =
                {r \in Rows : NeedsReminder(r, t) /\ r.last_reminded_at # t - ReminderAfter}
  <2>1. t - ReminderAfter \in Int
    BY ConfigAssumption
  <2>2. ASSUME NEW r \in Rows
        PROVE  r.submitted_at \in Times /\ r.last_reminded_at \in Times
    BY <1>1, RowsFacts DEF Row
  <2>3. PICK before \in Int : before = t - ReminderAfter
    BY <2>1
  <2>4. ASSUME NEW r \in Rows
        PROVE  (r.last_reminded_at # Nil => r.last_reminded_at < before) <=>
               /\ r.last_reminded_at # Nil => r.last_reminded_at <= before
               /\ r.last_reminded_at # before
    <3>1. CASE r.last_reminded_at = Nil
      BY <2>3, <3>1, NilAssumption
    <3>2. CASE r.last_reminded_at \in Int
      BY <2>3, <3>2, NilAssumption
    <3> QED BY <2>2, <3>1, <3>2 DEF Times
  <2> QED BY <2>3, <2>4 DEF NeedingReminder, NeedsReminder
<1>2. MapsOK => RemindersListedAlike
  BY <1>1 DEF RemindersListedAlike
<1> QED BY <1>2, MapsStayOK, PTL

=============================================================================
