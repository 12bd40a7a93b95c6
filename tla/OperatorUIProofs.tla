-------------------------- MODULE OperatorUIProofs --------------------------
(***************************************************************************)
(* What the page shows an actor stays within what the actor may see, and a *)
(* page at rest shows what it is about, for every set of requests, users   *)
(* and personas, any number of user events and of other people's steps.    *)
(* The first holds for answers in any order, the second if they come in    *)
(* the order of the questions.                                             *)
(***************************************************************************)
EXTENDS OperatorUI, RowProofs, SequenceTheorems

\* What a listing shows may be opened: every request in the answer to a
\* listing is one GetRequest and ListAudit would answer for the same actor.
\* The filter must name no requester, as the page's never does, or the actor
\* be no reviewer: to a reviewer who names a requester, ListRequests shows
\* requests GetRequest refuses.
THEOREM ListedIsReadable ==
    ASSUME NEW table, NEW actor \in Actors, NEW asked \in RequestFilters,
           asked.requester_id = NoFilter \/ actor.role # "reviewer"
    PROVE  \A id \in ListRequests(table, actor, asked) : Readable(table, actor, id)
<1> SUFFICES ASSUME NEW id \in ListRequests(table, actor, asked)
             PROVE  Readable(table, actor, id)
    OBVIOUS
<1> DEFINE r == table[id]
           f == EffectiveFilter(actor, asked)
<1>1. r # Nil /\ Selects(f, r)
    BY DEF ListRequests
<1>2. actor.id \in Users /\ actor.role \in Roles /\ actor.id # NoFilter
    BY UsersAssumption DEF Actors, NoFilter
<1>3. CASE actor.role = "employee"
    <2>1. f.requester_id = actor.id
        BY <1>3 DEF EffectiveFilter, RequestFilters
    <2> QED
        BY <1>1, <1>2, <2>1 DEF Selects, Readable, CanView
<1>4. CASE actor.role = "reviewer"
    <2>1. f.reviewer_id = actor.id
        BY <1>4 DEF EffectiveFilter, RequestFilters
    <2> QED
        BY <1>1, <1>2, <1>4, <2>1 DEF Selects, Readable, CanView
<1>5. CASE actor.role = "admin"
    BY <1>1, <1>5 DEF Readable, CanView
<1> QED
    BY <1>2, <1>3, <1>4, <1>5 DEF Roles

-----------------------------------------------------------------------------
(* What a lifecycle step leaves of what may be seen. *)

TableOK(table) ==
  /\ table \in [Ids -> Row \cup {Nil}]
  /\ \A id \in Ids : table[id] # Nil =>
        /\ table[id].id = id
        /\ table[id].status = "draft" => table[id].assigned_reviewer_id = NoReviewer

\* Who could see a request still can, and sees no earlier version of it.
Persists(old, new) ==
  /\ \A actor \in Actors, id \in Ids : Readable(old, actor, id) => Readable(new, actor, id)
  /\ \A id \in Ids : old[id] # Nil => new[id] # Nil /\ old[id].version <= new[id].version

\* A row that may replace another: the next version, in which the requester
\* stays, and so does a reviewer once there is one.
KeepsParties(new, old) ==
  /\ new.status # "draft"
  /\ new.version = old.version + 1
  /\ new.requester_id = old.requester_id
  /\ \/ old.status = "draft"
     \/ new.assigned_reviewer_id = old.assigned_reviewer_id

LEMMA OperationsKeepParties ==
  ASSUME NEW r \in Row, NEW t \in Int
  PROVE  /\ KeepsParties(SubmittedRow(r, t), r) \/ r.status # "draft"
         /\ \A decision \in Decisions : KeepsParties(ReviewedRow(r, decision, t), r)
         /\ r.status = "pending_review" => KeepsParties(RemindedRow(r, t), r)
         /\ \A success \in BOOLEAN : KeepsParties(ExecutionRow(r, success, t), r)
<1>1. KeepsParties(SubmittedRow(r, t), r) \/ r.status # "draft"
  BY DEF KeepsParties, SubmittedRow, Row
<1>2. ASSUME NEW decision \in Decisions
      PROVE  KeepsParties(ReviewedRow(r, decision, t), r)
  BY DEF KeepsParties, ReviewedRow, Row, Decisions
<1>3. ASSUME r.status = "pending_review"
      PROVE  KeepsParties(RemindedRow(r, t), r)
  BY <1>3 DEF KeepsParties, RemindedRow, Row
<1>4. ASSUME NEW success \in BOOLEAN
      PROVE  KeepsParties(ExecutionRow(r, success, t), r)
  BY DEF KeepsParties, ExecutionRow, Outcome, Row
<1> QED BY <1>1, <1>2, <1>3, <1>4

\* Writing such a row, or a new draft, takes nothing from anybody's sight.
LEMMA WritePersists ==
  ASSUME NEW table, TableOK(table), NEW row \in Row,
         \/ /\ table[row.id] = Nil
            /\ row.status = "draft"
            /\ row.assigned_reviewer_id = NoReviewer
         \/ /\ table[row.id] # Nil
            /\ KeepsParties(row, table[row.id])
  PROVE  /\ TableOK([table EXCEPT ![row.id] = row])
         /\ Persists(table, [table EXCEPT ![row.id] = row])
<1> DEFINE new == [table EXCEPT ![row.id] = row]
<1>1. row.id \in Ids
  BY DEF Row
<1>2. TableOK(new)
  BY <1>1 DEF TableOK, KeepsParties
<1>3. ASSUME NEW actor \in Actors, NEW id \in Ids, Readable(table, actor, id)
      PROVE  Readable(new, actor, id)
  <2>1. CASE id # row.id
    BY <1>1, <1>3, <2>1 DEF TableOK, Readable
  <2>2. CASE id = row.id
    <3>1. /\ new[id] = row /\ row # Nil
          /\ table[id] # Nil /\ table[id] \in Row
          /\ KeepsParties(row, table[id]) /\ CanView(actor, table[id])
      BY <1>1, <1>3, <2>2, NilAssumption DEF TableOK, Readable
    <3>2. actor.id # NoReviewer
      BY UsersAssumption DEF Actors, NoReviewer
    <3>3. table[id].status = "draft" => table[id].assigned_reviewer_id = NoReviewer
      BY <3>1 DEF TableOK
    <3>4. CanView(actor, row)
      BY <3>1, <3>2, <3>3 DEF CanView, KeepsParties
    <3> QED BY <3>1, <3>4 DEF Readable
  <2> QED BY <2>1, <2>2
<1>4. ASSUME NEW id \in Ids, table[id] # Nil
      PROVE  new[id] # Nil /\ table[id].version <= new[id].version
  <2>1. table[id].version \in Nat
    BY <1>4 DEF TableOK, Row
  <2>2. CASE id # row.id
    BY <1>1, <1>4, <2>1, <2>2 DEF TableOK
  <2>3. CASE id = row.id
    BY <1>1, <1>4, <2>1, <2>3, NilAssumption DEF TableOK, KeepsParties
  <2> QED BY <2>2, <2>3
<1> QED BY <1>2, <1>3, <1>4 DEF Persists

LEMMA SameTablePersists ==
  ASSUME NEW table, TableOK(table)
  PROVE  Persists(table, table)
BY DEF Persists, TableOK, Row

\* Module Lifecycle takes the rules from module Transitions.
LEMMA SameLifecycleRules ==
  /\ \A r, t : L!SubmittedRow(r, t) = SubmittedRow(r, t)
  /\ \A r, d, t : L!ReviewedRow(r, d, t) = ReviewedRow(r, d, t)
  /\ \A r, t : L!RemindedRow(r, t) = RemindedRow(r, t)
  /\ \A r, s, t : L!ExecutionRow(r, s, t) = ExecutionRow(r, s, t)
  /\ \A id, a, t : L!DraftRow(id, a, t) = DraftRow(id, a, t)
  /\ \A r, t : L!NeedsReminder(r, t) <=> NeedsReminder(r, t)
  /\ L!Actors = Actors
BY DEF L!SubmittedRow, SubmittedRow, L!ReviewedRow, ReviewedRow, L!RemindedRow,
       RemindedRow, L!ExecutionRow, ExecutionRow, L!DraftRow, DraftRow,
       L!NeedsReminder, NeedsReminder, L!Actors, Actors, L!Roles, Roles,
       L!AttemptsAfter, AttemptsAfter, L!Schedule, Schedule, L!Outcome, Outcome,
       L!NoReviewer, NoReviewer

LEMMA DraftIsUnassigned ==
  ASSUME NEW id \in Ids, NEW actor \in Actors, NEW target \in Targets
  PROVE  /\ DraftRow(id, actor, target) \in Row
         /\ DraftRow(id, actor, target).id = id
         /\ DraftRow(id, actor, target).status = "draft"
         /\ DraftRow(id, actor, target).assigned_reviewer_id = NoReviewer
BY DraftRowType DEF DraftRow

\* A step of other people or of the worker.
LEMMA LifecyclePersists ==
  ASSUME TableOK(requests), now \in Nat, L!Next
  PROVE  TableOK(requests') /\ now' \in Nat /\ Persists(requests, requests')
<1>1. CASE L!Tick
  BY <1>1, SameTablePersists DEF L!Tick
<1>2. ASSUME NEW id \in Ids, NEW row \in Row, L!Change(id, row), row.id = id,
             \/ /\ requests[id] = Nil
                /\ row.status = "draft"
                /\ row.assigned_reviewer_id = NoReviewer
             \/ /\ requests[id] # Nil
                /\ KeepsParties(row, requests[id])
      PROVE  TableOK(requests') /\ now' \in Nat /\ Persists(requests, requests')
  BY <1>2, WritePersists DEF L!Change
<1>3. ASSUME NEW id \in Ids, requests[id] # Nil
      PROVE  requests[id] \in Row /\ requests[id].id = id
  BY <1>3 DEF TableOK
<1>4. \A t \in 0..now : t \in Int
  OBVIOUS
<1>5. ASSUME NEW id \in Ids, L!Create(id)
      PROVE  \E row \in Row : L!Change(id, row) /\ row.id = id /\ requests[id] = Nil
                /\ row.status = "draft" /\ row.assigned_reviewer_id = NoReviewer
  BY <1>5, SameLifecycleRules, DraftIsUnassigned DEF L!Create
<1>6. ASSUME NEW id \in Ids, L!Submit(id)
      PROVE  \E row \in Row : L!Change(id, row) /\ row.id = id /\ requests[id] # Nil
                /\ KeepsParties(row, requests[id])
  <2>1. PICK t \in 0..now : L!Change(id, SubmittedRow(requests[id], t))
    BY <1>6, SameLifecycleRules DEF L!Submit
  <2>2. requests[id] # Nil /\ requests[id].status = "draft"
    BY <1>6 DEF L!Submit
  <2> QED BY <1>3, <1>4, <2>1, <2>2, SubmittedRowFollows, OperationsKeepParties DEF Follows
<1>7. ASSUME NEW id \in Ids, L!Review(id)
      PROVE  \E row \in Row : L!Change(id, row) /\ row.id = id /\ requests[id] # Nil
                /\ KeepsParties(row, requests[id])
  <2>1. PICK t \in 0..now, decision \in Decisions :
            L!Change(id, ReviewedRow(requests[id], decision, t))
    BY <1>7, SameLifecycleRules DEF L!Review, Decisions
  <2>2. requests[id] # Nil
    BY <1>7 DEF L!Review
  <2> QED BY <1>3, <1>4, <2>1, <2>2, ReviewedRowFollows, OperationsKeepParties DEF Follows
<1>8. ASSUME NEW id \in Ids, L!Remind(id)
      PROVE  \E row \in Row : L!Change(id, row) /\ row.id = id /\ requests[id] # Nil
                /\ KeepsParties(row, requests[id])
  <2>1. PICK t \in 0..now : /\ NeedsReminder(requests[id], t)
                            /\ L!Change(id, RemindedRow(requests[id], t))
    BY <1>8, SameLifecycleRules DEF L!Remind
  <2>2. requests[id] # Nil
    BY <1>8 DEF L!Remind
  <2>3. requests[id].status = "pending_review"
    BY <2>1 DEF NeedsReminder
  <2> QED BY <1>3, <1>4, <2>1, <2>2, <2>3, RemindedRowFollows, OperationsKeepParties DEF Follows
<1>9. ASSUME NEW id \in Ids, L!RecordExecution(id)
      PROVE  \E row \in Row : L!Change(id, row) /\ row.id = id /\ requests[id] # Nil
                /\ KeepsParties(row, requests[id])
  <2>1. PICK t \in 0..now, success \in BOOLEAN :
            L!Change(id, ExecutionRow(requests[id], success, t))
    BY <1>9, SameLifecycleRules DEF L!RecordExecution
  <2>2. requests[id] # Nil
    BY <1>9 DEF L!RecordExecution
  <2> QED BY <1>3, <1>4, <2>1, <2>2, ExecutionRowFollows, OperationsKeepParties DEF Follows
<1> QED BY <1>1, <1>2, <1>5, <1>6, <1>7, <1>8, <1>9 DEF L!Next

-----------------------------------------------------------------------------
(* The functions under way. *)

\* A version the table has gone through.
Stored(id, version, table) == table[id] # Nil /\ version <= table[id].version

\* The answer to a listing shows its actor nothing it may not open, a call
\* awaits only what it asked for, a load brings the request it was for, and a
\* served post has a row to show.
GoodFlight(f, table) ==
  /\ f.pending \subseteq FetchesOf(f.kind)
  /\ f.pending = {} /\ f.kind \in Posts =>
        f.row # Nil /\ Stored(f.row.id, f.row.version, table)
  /\ f.kind = "load" =>
        IF "request" \in f.pending THEN f.row = Nil
                                   ELSE f.row # Nil /\ f.row.id = f.id
  /\ \A id \in f.items : Readable(table, f.actor, id)

FlightsOK(fs, table) ==
  /\ fs \in Seq(Flight)
  /\ \A i \in DOMAIN fs : GoodFlight(fs[i], table)

LEMMA LaunchIsGood ==
  ASSUME NEW kind \in Posts \cup {"list", "load"}, NEW actor \in Personas,
         NEW id \in Ids \cup {Nil}, NEW status \in StatusFilters, NEW table,
         kind \notin {"list", "create"} => id # Nil
  PROVE  /\ Launch(kind, actor, id, status) \in Flight
         /\ GoodFlight(Launch(kind, actor, id, status), table)
BY DEF Launch, Flight, FlightRecord, GoodFlight, FetchesOf, Posts, Decisions

LEMMA AppendKeeps ==
  ASSUME NEW fs, NEW table, FlightsOK(fs, table), NEW f \in Flight, GoodFlight(f, table)
  PROVE  FlightsOK(Append(fs, f), table)
<1>1. Append(fs, f) \in Seq(Flight) /\ Len(Append(fs, f)) = Len(fs) + 1
  BY DEF FlightsOK
<1>2. ASSUME NEW i \in 1..Len(fs) + 1
      PROVE  GoodFlight(Append(fs, f)[i], table)
  BY <1>2 DEF FlightsOK
<1> QED BY <1>1, <1>2 DEF FlightsOK

LEMMA ReplaceKeeps ==
  ASSUME NEW fs, NEW table, FlightsOK(fs, table), NEW i \in DOMAIN fs,
         NEW f \in Flight, GoodFlight(f, table)
  PROVE  FlightsOK([fs EXCEPT ![i] = f], table)
<1> DEFINE new == [fs EXCEPT ![i] = f]
<1>1. new \in Seq(Flight) /\ DOMAIN new = DOMAIN fs
  BY DEF FlightsOK
<1>2. ASSUME NEW j \in DOMAIN fs
      PROVE  GoodFlight(new[j], table)
  BY DEF FlightsOK
<1> QED BY <1>1, <1>2 DEF FlightsOK

LEMMA RemoveKeeps ==
  ASSUME NEW fs, NEW table, FlightsOK(fs, table), NEW i \in DOMAIN fs
  PROVE  FlightsOK(RemoveAt(fs, i), table)
<1> DEFINE new == RemoveAt(fs, i)
<1>1. fs \in Seq(Flight) /\ i \in 1..Len(fs)
  BY DEF FlightsOK
<1>2. /\ new \in Seq(Flight)
      /\ \A j \in 1..Len(new) : \E k \in 1..Len(fs) : new[j] = fs[k]
  <2> DEFINE front == SubSeq(fs, 1, i - 1)
             back == SubSeq(fs, i + 1, Len(fs))
  <2>1. /\ front \in Seq(Flight) /\ Len(front) = i - 1
        /\ \A j \in 1..i - 1 : front[j] = fs[j]
    BY <1>1
  <2>2. /\ back \in Seq(Flight) /\ Len(back) = Len(fs) - i
        /\ \A j \in 1..Len(fs) - i : back[j] = fs[i + j]
    BY <1>1
  <2>3. new = front \o back
    BY DEF RemoveAt
  <2> HIDE DEF front, back, new
  <2>4. /\ new \in Seq(Flight) /\ Len(new) = Len(fs) - 1
        /\ \A j \in 1..Len(new) : new[j] = IF j <= i - 1 THEN front[j] ELSE back[j - i + 1]
    <3>1. /\ new \in Seq(Flight) /\ Len(new) = Len(front) + Len(back)
          /\ \A j \in 1..Len(front) + Len(back) :
                new[j] = IF j <= Len(front) THEN front[j] ELSE back[j - Len(front)]
      BY <2>1, <2>2, <2>3
    <3>2. /\ i \in Int /\ Len(fs) \in Int
          /\ Len(front) + Len(back) = Len(fs) - 1
          /\ \A j \in Int : j - Len(front) = j - i + 1
      BY <1>1, <2>1, <2>2
    <3>3. ASSUME NEW j \in 1..Len(new)
          PROVE  new[j] = IF j <= i - 1 THEN front[j] ELSE back[j - i + 1]
      <4>1. new[j] = IF j <= Len(front) THEN front[j] ELSE back[j - Len(front)]
        BY <3>1
      <4>2. Len(front) = i - 1 /\ j - Len(front) = j - i + 1
        BY <2>1, <3>1, <3>2
      <4> QED BY <4>1, <4>2
    <3> QED BY <3>1, <3>2, <3>3
  <2>5. ASSUME NEW j \in 1..Len(new)
        PROVE  new[j] = fs[j] \/ new[j] = fs[j + 1]
    <3>1. CASE j <= i - 1
      BY <1>1, <2>1, <2>4, <3>1
    <3>2. CASE j > i - 1
      <4>1. j - i + 1 \in 1..Len(fs) - i /\ i + (j - i + 1) = j + 1
        BY <1>1, <2>4, <3>2
      <4>2. new[j] = back[j - i + 1]
        BY <1>1, <2>4, <3>2
      <4>3. back[j - i + 1] = fs[i + (j - i + 1)]
        BY <2>2, <4>1
      <4> QED BY <4>1, <4>2, <4>3
    <3> QED BY <1>1, <2>4, <3>1, <3>2
  <2>6. ASSUME NEW j \in 1..Len(new)
        PROVE  j \in 1..Len(fs) /\ j + 1 \in 1..Len(fs)
    BY <1>1, <2>4
  <2> QED BY <2>4, <2>5, <2>6
<1> QED BY <1>1, <1>2 DEF FlightsOK

\* A step takes no version back.
LEMMA StaysStored ==
  ASSUME NEW old, NEW new, TableOK(old), TableOK(new), Persists(old, new),
         NEW id \in Ids, NEW version \in Nat, Stored(id, version, old)
  PROVE  Stored(id, version, new)
<1>1. old[id] # Nil /\ new[id] # Nil /\ old[id].version <= new[id].version
  BY DEF Stored, Persists
<1>2. old[id].version \in Nat /\ new[id].version \in Nat
  BY <1>1 DEF TableOK, Row
<1> QED BY <1>1, <1>2 DEF Stored

LEMMA FlightsStayGood ==
  ASSUME NEW old, NEW new, TableOK(old), TableOK(new), Persists(old, new),
         NEW fs, FlightsOK(fs, old)
  PROVE  FlightsOK(fs, new)
<1>1. ASSUME NEW i \in DOMAIN fs
      PROVE  GoodFlight(fs[i], new)
  <2>1. fs[i] \in Flight /\ GoodFlight(fs[i], old)
    BY DEF FlightsOK
  <2>2. fs[i].actor \in Actors /\ fs[i].items \subseteq Ids /\ fs[i].row \in Row \cup {Nil}
    BY <2>1, PageAssumption DEF Flight, FlightRecord
  <2>3. ASSUME fs[i].row # Nil, Stored(fs[i].row.id, fs[i].row.version, old)
        PROVE  Stored(fs[i].row.id, fs[i].row.version, new)
    BY <2>2, <2>3, StaysStored DEF Row
  <2>4. \A id \in fs[i].items : Readable(new, fs[i].actor, id)
    BY <2>1, <2>2 DEF GoodFlight, Persists
  <2> QED BY <2>1, <2>3, <2>4 DEF GoodFlight
<1> QED BY <1>1 DEF FlightsOK

-----------------------------------------------------------------------------
(* The page. *)

UIInv ==
  /\ PageTypeOK
  /\ TableOK(requests)
  /\ FlightsOK(flights, requests)
  /\ ListedCanBeOpened
  /\ acked.id # Nil => Stored(acked.id, acked.version, requests)

\* What a step of the page or of the service must show.
LEMMA StepKeeps ==
  ASSUME UIInv,
         TableOK(requests'), now' \in Nat, Persists(requests, requests'),
         FlightsOK(flights', requests'),
         persona' \in Personas, filter' \in StatusFilters, selected' \in Ids \cup {Nil},
         \/ list' = list
         \/ /\ list' \in [items : SUBSET Ids, actor : Personas, filter : StatusFilters]
            /\ \A id \in list'.items : Readable(requests, list'.actor, id),
         pane' \in [row : Row \cup {Nil}, actor : Personas \cup {Nil}],
         smooth' \in BOOLEAN, events' \in Nat, elsewhere' \in Nat,
         \/ acked' = acked
         \/ /\ acked' \in [id : Ids \cup {Nil}, version : Nat]
            /\ Stored(acked'.id, acked'.version, requests')
  PROVE  UIInv'
<1>1. list' \in [items : SUBSET Ids, actor : Personas, filter : StatusFilters]
  BY DEF UIInv, PageTypeOK
<1>6. acked' \in [id : Ids \cup {Nil}, version : Nat]
  BY DEF UIInv, PageTypeOK
<1>7. acked'.id # Nil => Stored(acked'.id, acked'.version, requests')
  BY <1>6, StaysStored DEF UIInv
<1>2. PageTypeOK'
  BY <1>1, <1>6 DEF PageTypeOK, TableOK, FlightsOK
<1>3. list'.actor \in Actors /\ list'.items \subseteq Ids
  BY <1>1, PageAssumption
<1>4. \A id \in list'.items : Readable(requests, list'.actor, id)
  BY DEF UIInv, ListedCanBeOpened
<1>5. \A id \in list'.items : Readable(requests', list'.actor, id)
  BY <1>3, <1>4 DEF Persists
<1> QED BY <1>2, <1>5, <1>7 DEF UIInv, ListedCanBeOpened

\* A user event starts one function and leaves the service alone.
LEMMA UserEventKeeps ==
  ASSUME UIInv, UserEvent
  PROVE  UIInv'
<1> USE DEF Event, Renewing, Start
<1>1. ASSUME Event, smooth' \in BOOLEAN, list' = list, pane' = pane,
             NEW kind \in Posts \cup {"list", "load"}, NEW id \in Ids \cup {Nil},
             kind \notin {"list", "create"} => id # Nil, NEW status \in StatusFilters,
             persona' \in Personas, filter' \in StatusFilters, selected' \in Ids \cup {Nil},
             flights' = Append(flights, Launch(kind, persona', id, status))
      PROVE  UIInv'
  <2>1. TableOK(requests') /\ Persists(requests, requests') /\ now' \in Nat
    BY <1>1, SameTablePersists DEF UIInv, PageTypeOK
  <2>2. FlightsOK(flights, requests')
    BY <1>1 DEF UIInv
  <2>3. FlightsOK(flights', requests')
    BY <1>1, <2>2, LaunchIsGood, AppendKeeps
  <2>4. /\ pane' \in [row : Row \cup {Nil}, actor : Personas \cup {Nil}]
        /\ acked' = acked /\ events' \in Nat /\ elsewhere' \in Nat
    BY <1>1 DEF UIInv, PageTypeOK
  <2> QED BY <1>1, <2>1, <2>3, <2>4, StepKeeps
<1>2. /\ persona \in Personas /\ filter \in StatusFilters
      /\ selected \in Ids \cup {Nil} /\ smooth \in BOOLEAN
      /\ NoFilter \in StatusFilters
  BY PageAssumption DEF UIInv, PageTypeOK
<1>3. ASSUME NEW id \in Ids, ClickCard(id)
      PROVE  UIInv'
  BY <1>1, <1>2, <1>3, PageAssumption DEF ClickCard
<1>4. ASSUME NEW actor \in Personas, SelectActor(actor)
      PROVE  UIInv'
  BY <1>1, <1>2, <1>4 DEF SelectActor
<1>5. ASSUME NEW status \in StatusFilters, Refresh(status)
      PROVE  UIInv'
  BY <1>1, <1>2, <1>5 DEF Refresh
<1>6. CASE CreateDraft
  BY <1>1, <1>2, <1>6 DEF CreateDraft, Posts
<1>7. ASSUME NEW op \in Posts, ClickAction(op)
      PROVE  UIInv'
  BY <1>1, <1>2, <1>7 DEF ClickAction
<1> QED BY <1>3, <1>4, <1>5, <1>6, <1>7 DEF UserEvent

\* The service answers one of the calls of a function under way.
LEMMA AnswerKeeps ==
  ASSUME UIInv, NEW i \in DOMAIN flights, NEW f \in Flight, Answer(i, f),
         GoodFlight(f, requests'), TableOK(requests'), Persists(requests, requests')
  PROVE  UIInv'
<1>1. FlightsOK(flights, requests')
  BY FlightsStayGood DEF UIInv
<1>2. FlightsOK(flights', requests')
  BY <1>1, ReplaceKeeps DEF Answer
<1>3. /\ now' \in Nat /\ persona' \in Personas /\ filter' \in StatusFilters
      /\ selected' \in Ids \cup {Nil} /\ list' = list
      /\ pane' \in [row : Row \cup {Nil}, actor : Personas \cup {Nil}]
      /\ smooth' \in BOOLEAN /\ acked' = acked
      /\ events' \in Nat /\ elsewhere' \in Nat
  BY DEF Answer, UIInv, PageTypeOK
<1> QED BY <1>2, <1>3, StepKeeps

LEMMA FlightFacts ==
  ASSUME UIInv, NEW i \in DOMAIN flights
  PROVE  /\ flights[i] \in Flight /\ flights[i] \in FlightRecord
         /\ GoodFlight(flights[i], requests)
         /\ flights[i].actor \in Actors
BY PageAssumption DEF UIInv, FlightsOK, Flight, FlightRecord

LEMMA QuietAnswerKeeps ==
  ASSUME UIInv, NEW i \in DOMAIN flights, NEW f \in Flight, Answer(i, f),
         GoodFlight(f, requests), UNCHANGED requests
  PROVE  UIInv'
<1>1. GoodFlight(f, requests') /\ TableOK(requests') /\ Persists(requests, requests')
  BY SameTablePersists DEF UIInv
<1> QED BY <1>1, AnswerKeeps

LEMMA RefusalKeeps ==
  ASSUME UIInv, NEW i \in DOMAIN flights, Refusal(i)
  PROVE  UIInv'
<1>1. FlightsOK(flights', requests')
  BY RemoveKeeps DEF Refusal, UIInv
<1>2. TableOK(requests') /\ Persists(requests, requests')
  BY SameTablePersists DEF Refusal, UIInv
<1>3. /\ now' \in Nat /\ persona' \in Personas /\ filter' \in StatusFilters
      /\ selected' \in Ids \cup {Nil} /\ list' = list
      /\ pane' \in [row : Row \cup {Nil}, actor : Personas \cup {Nil}]
      /\ smooth' \in BOOLEAN /\ acked' = acked
      /\ events' \in Nat /\ elsewhere' \in Nat
  BY DEF Refusal, UIInv, PageTypeOK
<1> QED BY <1>1, <1>2, <1>3, StepKeeps

LEMMA ServeListKeeps ==
  ASSUME UIInv, NEW i \in DOMAIN flights, ServeList(i)
  PROVE  UIInv'
<1> DEFINE query == [requester_id |-> NoFilter, reviewer_id |-> NoFilter,
                     status |-> flights[i].filter]
           items == ListRequests(requests, flights[i].actor, query)
           f == [flights[i] EXCEPT !.pending = {}, !.items = items]
<1>1. query \in RequestFilters
  BY FlightFacts, PageAssumption DEF RequestFilters, FlightRecord
<1>2. items \subseteq Ids
  BY DEF ListRequests
<1>3. \A id \in items : Readable(requests, flights[i].actor, id)
  BY <1>1, FlightFacts, ListedIsReadable
<1>4. flights[i].kind = "list"
  BY FlightFacts DEF ServeList, Awaits, GoodFlight, FetchesOf, FlightRecord, Posts, Decisions
<1> HIDE DEF items
<1>5. f \in Flight
  BY <1>2, FlightFacts DEF Flight, FlightRecord
<1>6. GoodFlight(f, requests)
  BY <1>3, <1>4, FlightFacts DEF GoodFlight, FlightRecord, Posts, Decisions
<1> QED BY <1>5, <1>6, QuietAnswerKeeps DEF ServeList, items

LEMMA ServeLoadKeeps ==
  ASSUME UIInv, NEW i \in DOMAIN flights, NEW fetch \in {"request", "audit"},
         ServeLoad(i, fetch)
  PROVE  UIInv'
<1> DEFINE row == IF fetch = "request" THEN requests[flights[i].id] ELSE flights[i].row
           f == [flights[i] EXCEPT !.pending = @ \ {fetch}, !.row = row]
<1>1. flights[i].kind = "load" /\ flights[i].id \in Ids
  BY FlightFacts DEF ServeLoad, Awaits, GoodFlight, FetchesOf, Flight, FlightRecord,
                     Posts, Decisions
<1>2. CASE Refusal(i)
  BY <1>2, RefusalKeeps
<1>3. CASE /\ Readable(requests, flights[i].actor, flights[i].id)
           /\ Answer(i, f) /\ UNCHANGED requests
  <2>1. row \in Row \cup {Nil}
    BY <1>1, FlightFacts DEF FlightRecord, UIInv, TableOK
  <2>4. fetch = "request" => row # Nil /\ row.id = flights[i].id
    BY <1>1, <1>3 DEF Readable, UIInv, TableOK
  <2>5. fetch = "audit" => row = flights[i].row
    OBVIOUS
  <2> HIDE DEF row
  <2>2. f \in Flight
    BY <2>1, FlightFacts DEF Flight, FlightRecord
  <2>3. GoodFlight(f, requests)
    BY <1>1, <2>4, <2>5, FlightFacts DEF GoodFlight, FlightRecord, Posts, Decisions
  <2> QED BY <1>3, <2>2, <2>3, QuietAnswerKeeps DEF row
<1> QED BY <1>2, <1>3 DEF ServeLoad

\* A call that changes the row of its request.
LEMMA CommitKeeps ==
  ASSUME UIInv, NEW i \in DOMAIN flights, flights[i].kind \in Posts,
         NEW row \in Row, Commit(i, row),
         \/ /\ requests[row.id] = Nil
            /\ row.status = "draft"
            /\ row.assigned_reviewer_id = NoReviewer
         \/ /\ requests[row.id] # Nil
            /\ KeepsParties(row, requests[row.id])
         \/ row = requests[row.id]
  PROVE  UIInv'
<1> DEFINE f == [flights[i] EXCEPT !.pending = {}, !.row = row]
<1>1. row \in Row /\ row # Nil /\ row.id \in Ids
  BY NilAssumption DEF Row
<1>2. requests' = [requests EXCEPT ![row.id] = row] /\ Answer(i, f)
  BY DEF Commit
<1>3. TableOK(requests') /\ Persists(requests, requests')
  <2>1. CASE row = requests[row.id]
    <3>1. requests' = requests
      BY <1>2, <2>1 DEF UIInv, TableOK
    <3> QED BY <3>1, SameTablePersists DEF UIInv
  <2> QED BY <1>2, <2>1, WritePersists DEF UIInv
<1>4. f \in Flight
  <2>1. PICK g : g = flights[i]
    OBVIOUS
  <2>2. g \in FlightRecord /\ (g.kind \notin {"list", "create"} => g.id # Nil)
    BY <2>1, FlightFacts DEF Flight
  <2>3. /\ [g EXCEPT !.pending = {}, !.row = row] \in FlightRecord
        /\ [g EXCEPT !.pending = {}, !.row = row].kind = g.kind
        /\ [g EXCEPT !.pending = {}, !.row = row].id = g.id
    BY <1>1, <2>2 DEF FlightRecord
  <2> QED BY <2>1, <2>2, <2>3 DEF Flight
<1>5. \A id \in f.items : Readable(requests', f.actor, id)
  <2>1. f.actor \in Actors /\ f.items \subseteq Ids
    BY <1>4, PageAssumption DEF Flight, FlightRecord
  <2>2. \A id \in f.items : Readable(requests, f.actor, id)
    BY FlightFacts DEF GoodFlight, FlightRecord
  <2> QED BY <1>3, <2>1, <2>2 DEF Persists
<1>6. GoodFlight(f, requests')
  <2>1. requests'[row.id] = row /\ row.version \in Nat
    BY <1>1, <1>2 DEF UIInv, TableOK, Row
  <2>2. f.pending = {} /\ f.row = row /\ f.kind \in Posts
    BY FlightFacts DEF FlightRecord
  <2>3. Stored(row.id, row.version, requests')
    BY <1>1, <2>1 DEF Stored
  <2> HIDE DEF f
  <2> QED BY <1>1, <1>5, <2>2, <2>3 DEF GoodFlight, Posts, Decisions
<1> QED BY <1>2, <1>3, <1>4, <1>6, AnswerKeeps

LEMMA ServePostKeeps ==
  ASSUME UIInv, NEW i \in DOMAIN flights,
         ServeCreate(i) \/ ServeSubmit(i) \/ \E op \in Decisions : ServeDecision(i, op)
  PROVE  UIInv'
<1> DEFINE r == requests[flights[i].id]
<1>0. flights[i].kind \in Posts
  BY FlightFacts DEF ServeCreate, ServeSubmit, ServeDecision, Awaits, GoodFlight,
                     FetchesOf, FlightRecord, Posts, Decisions
<1>1. ASSUME NEW op \in {"submit"} \cup Decisions, Awaits(i, op), r # Nil
      PROVE  r \in Row /\ r.id = flights[i].id /\ now \in Int /\ r = requests[r.id]
  <2>1. flights[i].id \in Ids
    BY <1>1, FlightFacts DEF Awaits, GoodFlight, FetchesOf, Flight, FlightRecord,
                             Posts, Decisions
  <2> QED BY <1>1, <2>1 DEF UIInv, TableOK, PageTypeOK
<1>2. CASE ServeCreate(i)
  <2>1. PICK id \in Ids, target \in Targets :
            requests[id] = Nil /\ Commit(i, DraftRow(id, flights[i].actor, target))
    BY <1>2 DEF ServeCreate
  <2> QED BY <1>0, <2>1, FlightFacts, DraftIsUnassigned, CommitKeeps
<1>3. CASE ServeSubmit(i)
  <2>1. CASE Refusal(i)
    BY <2>1, RefusalKeeps
  <2>2. CASE AcceptsSubmit(flights[i].actor, r) /\ Commit(i, SubmittedRow(r, now))
    <3>1. r # Nil /\ r.status = "draft"
      BY <2>2 DEF AcceptsSubmit
    <3>2. r \in Row /\ r = requests[r.id] /\ now \in Int
      BY <1>1, <1>3, <3>1 DEF ServeSubmit
    <3>3. /\ SubmittedRow(r, now) \in Row /\ SubmittedRow(r, now).id = r.id
          /\ KeepsParties(SubmittedRow(r, now), r)
      BY <3>1, <3>2, SubmittedRowFollows, OperationsKeepParties DEF Follows
    <3> QED BY <1>0, <2>2, <3>1, <3>2, <3>3, CommitKeeps
  <2> QED BY <1>3, <2>1, <2>2 DEF ServeSubmit
<1>4. ASSUME NEW op \in Decisions, ServeDecision(i, op)
      PROVE  UIInv'
  <2>1. CASE Refusal(i)
    BY <2>1, RefusalKeeps
  <2>2. CASE Decided(r, op) /\ Commit(i, r)
    <3>1. r \in Row /\ r = requests[r.id]
      BY <1>1, <1>4, <2>2 DEF ServeDecision, Decided
    <3> QED BY <1>0, <2>2, <3>1, CommitKeeps
  <2>3. CASE AcceptsDecision(flights[i].actor, r) /\ Commit(i, ReviewedRow(r, op, now))
    <3>1. r # Nil
      BY <2>3 DEF AcceptsDecision
    <3>2. r \in Row /\ r = requests[r.id] /\ now \in Int
      BY <1>1, <1>4, <3>1 DEF ServeDecision
    <3>3. /\ ReviewedRow(r, op, now) \in Row /\ ReviewedRow(r, op, now).id = r.id
          /\ KeepsParties(ReviewedRow(r, op, now), r)
      BY <3>2, ReviewedRowFollows, OperationsKeepParties DEF Follows
    <3> QED BY <1>0, <2>3, <3>1, <3>2, <3>3, CommitKeeps
  <2> QED BY <1>4, <2>1, <2>2, <2>3 DEF ServeDecision
<1> QED BY <1>2, <1>3, <1>4

LEMMA ServeKeeps ==
  ASSUME UIInv, NEW i \in DOMAIN flights, Serve(i)
  PROVE  UIInv'
BY ServeListKeeps, ServeLoadKeeps, ServePostKeeps, RefusalKeeps DEF Serve, Break

\* An answer comes back: its function ends, and may start another one.
LEMMA TakeKeeps ==
  ASSUME UIInv, NEW i \in DOMAIN flights, Take(i)
  PROVE  UIInv'
<1> DEFINE f == flights[i]
           rest == RemoveAt(flights, i)
<1>1. /\ requests' = requests /\ now' \in Nat /\ persona' \in Personas
      /\ persona' = persona /\ filter' = filter
      /\ filter' \in StatusFilters /\ smooth' \in BOOLEAN
      /\ events' \in Nat /\ elsewhere' \in Nat
  BY DEF Take, TakeList, TakeLoad, TakePost, Answered, UIInv, PageTypeOK
<1>2. TableOK(requests') /\ Persists(requests, requests')
  BY <1>1, SameTablePersists DEF UIInv
<1>3. FlightsOK(rest, requests')
  BY <1>1, RemoveKeeps DEF UIInv
<1>4. ASSUME NEW kind \in Posts \cup {"list", "load"}, NEW id \in Ids \cup {Nil},
             kind \notin {"list", "create"} => id # Nil, NEW status \in StatusFilters
      PROVE  FlightsOK(Append(rest, Launch(kind, persona, id, status)), requests')
  <2>1. persona \in Personas
    BY <1>1
  <2>2. /\ Launch(kind, persona, id, status) \in Flight
        /\ GoodFlight(Launch(kind, persona, id, status), requests')
    BY <1>4, <2>1, LaunchIsGood
  <2> HIDE DEF rest
  <2> QED BY <1>3, <2>2, AppendKeeps
<1>5. f \in FlightRecord /\ GoodFlight(f, requests)
  BY FlightFacts
<1>6. /\ selected \in Ids \cup {Nil}
      /\ pane \in [row : Row \cup {Nil}, actor : Personas \cup {Nil}]
      /\ acked \in [id : Ids \cup {Nil}, version : Nat]
  BY DEF UIInv, PageTypeOK
<1>7. filter \in StatusFilters /\ NoFilter \in StatusFilters
  BY <1>1, PageAssumption
<1>8. CASE TakeList(i)
  <2>1. list' = [items |-> f.items, actor |-> f.actor, filter |-> f.filter]
    BY <1>8 DEF TakeList
  <2>2. /\ list' \in [items : SUBSET Ids, actor : Personas, filter : StatusFilters]
        /\ \A id \in list'.items : Readable(requests, list'.actor, id)
    BY <1>5, <2>1 DEF FlightRecord, GoodFlight
  <2>3. acked' = acked
    BY <1>8 DEF TakeList
  <2>4. CASE /\ selected' = Nil
             /\ pane' = EmptyPane
             /\ flights' = rest
    <3>1. pane' \in [row : Row \cup {Nil}, actor : Personas \cup {Nil}]
      BY <2>4 DEF EmptyPane
    <3> QED BY <1>1, <1>2, <1>3, <1>6, <2>2, <2>3, <2>4, <3>1, StepKeeps
  <2>5. ASSUME NEW id \in f.items, selected' = id, pane' = pane,
               flights' = Append(rest, Launch("load", persona, id, NoFilter))
        PROVE  UIInv'
    <3>1. id \in Ids /\ id # Nil
      BY <1>5, PageAssumption DEF FlightRecord
    <3>2. FlightsOK(flights', requests')
      BY <1>4, <1>7, <2>5, <3>1
    <3> QED BY <1>1, <1>2, <1>6, <2>2, <2>3, <2>5, <3>1, <3>2, StepKeeps
  <2> QED BY <1>8, <2>4, <2>5 DEF TakeList
<1>9. CASE TakeLoad(i)
  <2>1. pane' \in [row : Row \cup {Nil}, actor : Personas \cup {Nil}]
    BY <1>1, <1>5, <1>9 DEF TakeLoad, FlightRecord
  <2> QED BY <1>1, <1>2, <1>3, <1>6, <1>9, <2>1, StepKeeps DEF TakeLoad
<1>10. CASE TakePost(i)
  <2>1. f.row \in Row /\ Stored(f.row.id, f.row.version, requests')
    BY <1>1, <1>5, <1>10 DEF TakePost, Answered, GoodFlight, FlightRecord
  <2>2. /\ acked' \in [id : Ids \cup {Nil}, version : Nat]
        /\ Stored(acked'.id, acked'.version, requests')
        /\ selected' \in Ids \cup {Nil}
    BY <1>6, <1>10, <2>1 DEF TakePost, Row
  <2>3. FlightsOK(flights', requests')
    BY <1>4, <1>7, <1>10 DEF TakePost
  <2>4. list' = list /\ pane' = pane
    BY <1>10 DEF TakePost
  <2> QED BY <1>1, <1>2, <1>6, <2>2, <2>3, <2>4, StepKeeps
<1> QED BY <1>8, <1>9, <1>10 DEF Take

LEMMA ElsewhereKeeps ==
  ASSUME UIInv, Elsewhere
  PROVE  UIInv'
<1>1. TableOK(requests') /\ now' \in Nat /\ Persists(requests, requests')
  BY LifecyclePersists DEF Elsewhere, UIInv, PageTypeOK
<1>2. FlightsOK(flights', requests')
  BY <1>1, FlightsStayGood DEF Elsewhere, pageVars, UIInv
<1>3. /\ persona' \in Personas /\ filter' \in StatusFilters
      /\ selected' \in Ids \cup {Nil} /\ list' = list
      /\ pane' \in [row : Row \cup {Nil}, actor : Personas \cup {Nil}]
      /\ smooth' \in BOOLEAN /\ acked' = acked
      /\ events' \in Nat /\ elsewhere' \in Nat
  BY DEF Elsewhere, pageVars, UIInv, PageTypeOK
<1> QED BY <1>1, <1>2, <1>3, StepKeeps

LEMMA UIInit ==
  ASSUME Init
  PROVE  UIInv
<1> DEFINE first == Launch("list", persona, Nil, filter)
<1>1. /\ requests = [id \in Ids |-> Nil] /\ now = 0 /\ flights = <<first>>
      /\ persona \in Personas /\ filter \in StatusFilters
  BY DEF Init, L!Init, PageInit
<1>2. TableOK(requests)
  BY <1>1 DEF TableOK
<1>3. first \in Flight /\ GoodFlight(first, requests)
  BY <1>1, LaunchIsGood
<1>4. FlightsOK(flights, requests)
  <2> HIDE DEF first
  <2>1. flights \in Seq(Flight) /\ DOMAIN flights = {1} /\ flights[1] = first
    BY <1>1, <1>3
  <2> QED BY <1>3, <2>1 DEF FlightsOK
<1>5. PageTypeOK
  BY <1>1, <1>4 DEF Init, PageInit, PageTypeOK, FlightsOK, EmptyPane
<1>6. ListedCanBeOpened
  BY DEF Init, PageInit, ListedCanBeOpened
<1>7. acked.id = Nil
  BY DEF Init, PageInit
<1> QED BY <1>2, <1>4, <1>5, <1>6, <1>7 DEF UIInv

LEMMA UIInvariant == Spec => []UIInv
<1>1. UIInv /\ [Next]_vars => UIInv'
  <2> SUFFICES ASSUME UIInv, [Next]_vars
               PROVE  UIInv'
    OBVIOUS
  <2>1. CASE UNCHANGED vars
    BY <2>1 DEF vars, serviceVars, pageVars, UIInv, PageTypeOK, ListedCanBeOpened
  <2>2. CASE Next
    BY <2>2, UserEventKeeps, ServeKeeps, TakeKeeps, ElsewhereKeeps DEF Next
  <2> QED BY <2>1, <2>2
<1> QED BY <1>1, UIInit, PTL DEF Spec

-----------------------------------------------------------------------------

\* The page's variables keep their types whatever comes back in whatever order:
\* no call about a request goes out without one (the tests for a selection in
\* submitSelected, reviewSelected and loadSelectedRequest).
THEOREM PageTypeCorrect == Spec => []PageTypeOK
<1>1. UIInv => PageTypeOK
  BY DEF UIInv
<1> QED BY <1>1, UIInvariant, PTL

\* Whatever the page lists for an actor, ListRequests had selected it for that
\* actor, and GetRequest and ListAudit answer for it at any later time.
THEOREM ListedCanBeOpenedHolds == Spec => []ListedCanBeOpened
<1>1. UIInv => ListedCanBeOpened
  BY DEF UIInv
<1> QED BY <1>1, UIInvariant, PTL

-----------------------------------------------------------------------------
(* Where the page is going.  As long as the answers come in order and none   *)
(* fails, either something under way ends in a fresh list, or the list is    *)
(* fresh and at most loads are under way, the last of them for the           *)
(* selection.                                                                *)

\* A listing of what the page is about, or a change, which ends in one.
Renews(f) == \/ f.kind \in Posts
             \/ f.kind = "list" /\ f.actor = persona /\ f.filter = filter

Renewal == \E m \in DOMAIN flights :
              /\ Renews(flights[m])
              /\ \A k \in DOMAIN flights : k > m => flights[k].kind = "load"

\* The row is at least as recent as the last acknowledged change.
UpToDate(row) == selected = acked.id => acked.version <= row.version

Settling ==
  /\ list.actor = persona /\ list.filter = filter
  /\ \A k \in DOMAIN flights : flights[k].kind = "load"
  /\ \/ selected = Nil /\ list.items = {}
     \/ /\ selected \in list.items
        /\ flights = <<>> =>
              /\ pane.row # Nil /\ pane.row.id = selected /\ pane.actor = persona
              /\ UpToDate(pane.row)
        /\ flights # <<>> =>
              LET f == flights[Len(flights)]
              IN  f.id = selected /\ (f.row # Nil => UpToDate(f.row))

ComingFresh == smooth => Renewal \/ Settling

LEMMA HeadRemoved ==
  ASSUME NEW fs \in Seq(Flight), 1 \in DOMAIN fs
  PROVE  /\ RemoveAt(fs, 1) \in Seq(Flight)
         /\ Len(RemoveAt(fs, 1)) = Len(fs) - 1
         /\ \A j \in 1..Len(fs) - 1 : RemoveAt(fs, 1)[j] = fs[j + 1]
<1> DEFINE back == SubSeq(fs, 2, Len(fs))
<1>1. SubSeq(fs, 1, 1 - 1) = <<>>
  OBVIOUS
<1>0. Len(fs) \in Nat /\ Len(fs) >= 1
  OBVIOUS
<1>2. /\ back \in Seq(Flight) /\ Len(back) = Len(fs) - 1
      /\ \A j \in 1..Len(fs) - 1 : back[j] = fs[j + 1]
  <2>1. \A k \in 2..Len(fs) : fs[k] \in Flight
    BY <1>0
  <2>2. /\ back \in Seq(Flight)
        /\ Len(back) = IF 2 <= Len(fs) THEN Len(fs) - 2 + 1 ELSE 0
        /\ \A j \in 1..Len(fs) - 2 + 1 : back[j] = fs[2 + j - 1]
    BY <1>0, <2>1, SubSeqProperties
  <2> HIDE DEF back
  <2>3. Len(back) = Len(fs) - 1
    <3>1. CASE 2 <= Len(fs)
      <4>1. Len(back) = Len(fs) - 2 + 1
        BY <2>2, <3>1
      <4> QED BY <1>0, <4>1
    <3>2. CASE Len(fs) = 1
      BY <2>2, <3>2
    <3>3. 2 <= Len(fs) \/ Len(fs) = 1
      <4>1. PICK n \in Nat : n = Len(fs) /\ n >= 1
        BY <1>0
      <4>2. 2 <= n \/ n = 1
        BY <4>1
      <4> QED BY <4>1, <4>2
    <3> QED BY <3>1, <3>2, <3>3
  <2>4. ASSUME NEW j \in 1..Len(fs) - 1
        PROVE  back[j] = fs[j + 1]
    <3>1. j \in 1..Len(fs) - 2 + 1 /\ 2 + j - 1 = j + 1
      BY <1>0
    <3> QED BY <2>2, <3>1
  <2> QED BY <2>2, <2>3, <2>4
<1>3. RemoveAt(fs, 1) = <<>> \o back
  BY <1>1 DEF RemoveAt
<1> HIDE DEF back
<1>4. RemoveAt(fs, 1) = back
  BY <1>2, <1>3
<1> QED BY <1>2, <1>4

LEMMA UserEventFresh ==
  ASSUME UIInv, ComingFresh, UserEvent
  PROVE  ComingFresh'
<1> USE DEF Event, Renewing, Start
<1>1. flights \in Seq(Flight) /\ Len(flights) \in Nat
  BY DEF UIInv, PageTypeOK
<1>2. ASSUME NEW f, flights' = Append(flights, f)
      PROVE  /\ Len(flights') = Len(flights) + 1 /\ DOMAIN flights' = 1..Len(flights) + 1
             /\ flights'[Len(flights) + 1] = f
             /\ \A k \in 1..Len(flights) : flights'[k] = flights[k]
             /\ flights' # <<>>
  BY <1>1, <1>2
<1>3. ASSUME NEW kind, NEW id, NEW status,
             flights' = Append(flights, Launch(kind, persona', id, status)),
             kind \in Posts \/ (kind = "list" /\ status = filter')
      PROVE  ComingFresh'
  <2>0. PICK m : m = Len(flights) + 1
    OBVIOUS
  <2>1. m \in DOMAIN flights' /\ \A k \in DOMAIN flights' : ~(k > m)
    BY <1>1, <1>2, <1>3, <2>0
  <2>2. flights'[m] = Launch(kind, persona', id, status)
    BY <1>2, <1>3, <2>0
  <2>3. Renews(flights[m])'
    <3>1. /\ flights'[m].kind = kind /\ flights'[m].actor = persona'
          /\ flights'[m].filter = status
      BY <2>2 DEF Launch
    <3> QED BY <1>3, <3>1 DEF Renews
  <2> QED BY <2>1, <2>3 DEF ComingFresh, Renewal
<1>4. ASSUME NEW id \in Ids, ClickCard(id), smooth'
      PROVE  Renewal' \/ Settling'
  <2> DEFINE f == Launch("load", persona, id, NoFilter)
  <2>1. flights' = Append(flights, f) /\ f.kind = "load" /\ f.id = id /\ f.row = Nil
    BY <1>4 DEF ClickCard, Launch
  <2>2. /\ persona' = persona /\ filter' = filter /\ list' = list /\ pane' = pane
        /\ selected' = id /\ id \in list.items /\ smooth = smooth' /\ acked' = acked
    BY <1>4 DEF ClickCard
  <2> HIDE DEF f
  <2>3. CASE Renewal
    <3>1. PICK m \in DOMAIN flights :
              /\ Renews(flights[m])
              /\ \A k \in DOMAIN flights : k > m => flights[k].kind = "load"
      BY <2>3 DEF Renewal
    <3>2. m \in 1..Len(flights) /\ m \in DOMAIN flights' /\ flights'[m] = flights[m]
      BY <1>1, <1>2, <2>1
    <3>3. ASSUME NEW k \in DOMAIN flights', k > m
          PROVE  flights'[k].kind = "load"
      <4>1. k = Len(flights) + 1 \/ k \in DOMAIN flights
        BY <1>1, <1>2, <2>1
      <4> QED BY <1>1, <1>2, <2>1, <3>1, <3>3, <4>1
    <3>4. Renews(flights[m])'
      BY <2>2, <3>1, <3>2 DEF Renews
    <3> QED BY <3>2, <3>3, <3>4 DEF Renewal
  <2>4. CASE Settling
    <3>1. ASSUME NEW k \in DOMAIN flights'
          PROVE  flights'[k].kind = "load"
      <4>1. k = Len(flights) + 1 \/ k \in DOMAIN flights
        BY <1>1, <1>2, <2>1
      <4> QED BY <1>1, <1>2, <2>1, <2>4, <4>1 DEF Settling
    <3>2. flights'[Len(flights')] = f /\ flights' # <<>>
      BY <1>2, <2>1
    <3> QED BY <2>1, <2>2, <2>4, <3>1, <3>2 DEF Settling
  <2> QED BY <1>4, <2>2, <2>3, <2>4 DEF ComingFresh
<1>5. ASSUME NEW actor \in Personas, SelectActor(actor)
      PROVE  ComingFresh'
  BY <1>3, <1>5 DEF SelectActor
<1>6. ASSUME NEW status \in StatusFilters, Refresh(status)
      PROVE  ComingFresh'
  BY <1>3, <1>6 DEF Refresh
<1>7. CASE CreateDraft
  <2>1. flights' = Append(flights, Launch("create", persona', Nil, NoFilter))
    BY <1>7 DEF CreateDraft
  <2> QED BY <1>3, <2>1 DEF Posts
<1>8. ASSUME NEW op \in Posts, ClickAction(op)
      PROVE  ComingFresh'
  <2>1. flights' = Append(flights, Launch(op, persona', selected, NoFilter))
    BY <1>8 DEF ClickAction
  <2> QED BY <1>3, <1>8, <2>1
<1> QED BY <1>4, <1>5, <1>6, <1>7, <1>8 DEF UserEvent, ComingFresh

\* The answer to a call leaves its function what it was; a load has the row it
\* had or the one in the table.
LEMMA AnswerFresh ==
  ASSUME UIInv, ComingFresh, NEW i \in DOMAIN flights, NEW f, Answer(i, f),
         f.kind = flights[i].kind, f.actor = flights[i].actor,
         f.filter = flights[i].filter, f.id = flights[i].id,
         f.kind = "load" => f.row = flights[i].row \/ f.row = requests[f.id]
  PROVE  ComingFresh'
<1>1. /\ flights \in Seq(Flight) /\ flights' = [flights EXCEPT ![i] = f]
      /\ DOMAIN flights' = DOMAIN flights /\ Len(flights') = Len(flights)
      /\ flights # <<>> /\ flights' # <<>> /\ Len(flights) \in DOMAIN flights
  BY DEF UIInv, PageTypeOK, Answer
<1>2. ASSUME NEW k \in DOMAIN flights
      PROVE  /\ flights'[k].kind = flights[k].kind /\ flights'[k].actor = flights[k].actor
             /\ flights'[k].filter = flights[k].filter /\ flights'[k].id = flights[k].id
             /\ flights'[k].kind = "load" => \/ flights'[k].row = flights[k].row
                                             \/ flights'[k].row = requests[flights[k].id]
  BY <1>1
<1>3. /\ persona' = persona /\ filter' = filter /\ list' = list /\ pane' = pane
      /\ selected' = selected /\ smooth' = smooth /\ acked' = acked
  BY DEF Answer
<1>4. ASSUME Renewal
      PROVE  Renewal'
  <2>1. PICK m \in DOMAIN flights :
            /\ Renews(flights[m])
            /\ \A k \in DOMAIN flights : k > m => flights[k].kind = "load"
    BY <1>4 DEF Renewal
  <2>2. Renews(flights[m])'
    BY <1>2, <1>3, <2>1 DEF Renews
  <2>3. \A k \in DOMAIN flights' : k > m => flights'[k].kind = "load"
    BY <1>1, <1>2, <2>1
  <2> QED BY <1>1, <2>2, <2>3 DEF Renewal
<1>5. ASSUME Settling
      PROVE  Settling'
  <2>1. \A k \in DOMAIN flights' : flights'[k].kind = "load"
    BY <1>1, <1>2, <1>5 DEF Settling
  <2>2. PICK n : n = Len(flights) /\ n = Len(flights') /\ n \in DOMAIN flights
    BY <1>1
  <2>3. ASSUME selected \in list.items, flights'[n].row # Nil
        PROVE  flights'[n].id = selected /\ UpToDate(flights[n].row)'
    <3>1. flights[n].id = selected /\ (flights[n].row # Nil => UpToDate(flights[n].row))
      BY <1>1, <1>5, <2>2, <2>3, PageAssumption DEF Settling, UIInv, PageTypeOK
    <3>2. CASE flights'[n].row = flights[n].row
      BY <1>2, <1>3, <2>2, <2>3, <3>1, <3>2 DEF UpToDate
    <3>3. CASE flights'[n].row = requests[selected]
      <4>1. selected \in Ids /\ selected # Nil
        BY <2>3, PageAssumption DEF UIInv, PageTypeOK
      <4>2. selected = acked.id => acked.version <= requests[selected].version
        BY <4>1 DEF UIInv, Stored
      <4> QED BY <1>2, <1>3, <2>2, <3>1, <3>3, <4>2 DEF UpToDate
    <3> QED BY <1>2, <2>1, <1>1, <2>2, <3>1, <3>2, <3>3
  <2>4. ASSUME selected \in list.items
        PROVE  flights'[n].id = selected
    BY <1>1, <1>2, <1>5, <2>2, <2>4, PageAssumption DEF Settling, UIInv, PageTypeOK
  <2> QED BY <1>1, <1>3, <1>5, <2>1, <2>2, <2>3, <2>4 DEF Settling
<1> QED BY <1>3, <1>4, <1>5 DEF ComingFresh

\* What a function awaits tells what it is.
LEMMA AwaitedKind ==
  ASSUME UIInv, NEW i \in DOMAIN flights
  PROVE  /\ Awaits(i, "list") => flights[i].kind = "list"
         /\ \A op \in Posts : Awaits(i, op) => flights[i].kind = op
         /\ \A fetch \in {"request", "audit"} : Awaits(i, fetch) => flights[i].kind = "load"
BY FlightFacts DEF Awaits, GoodFlight, FetchesOf, FlightRecord, Posts, Decisions

LEMMA ServeFresh ==
  ASSUME UIInv, ComingFresh, NEW i \in DOMAIN flights, Serve(i)
  PROVE  ComingFresh'
<1>1. CASE Refusal(i)
  BY <1>1 DEF Refusal, ComingFresh
<1>2. flights[i] \in FlightRecord
  BY FlightFacts
<1>3. ASSUME NEW row, Commit(i, row), NEW op \in Posts, Awaits(i, op)
      PROVE  ComingFresh'
  <2>1. flights[i].kind = op
    BY <1>3, AwaitedKind
  <2> QED BY <1>2, <1>3, <2>1, AnswerFresh DEF Commit, FlightRecord, Posts, Decisions
<1>4. CASE ServeList(i)
  <2>1. flights[i].kind = "list"
    BY <1>4, AwaitedKind DEF ServeList
  <2> QED BY <1>2, <1>4, <2>1, AnswerFresh DEF ServeList, FlightRecord
<1>5. ASSUME NEW fetch \in {"request", "audit"}, ServeLoad(i, fetch)
      PROVE  ComingFresh'
  <2>1. flights[i].kind = "load"
    BY <1>5, AwaitedKind DEF ServeLoad
  <2> QED BY <1>1, <1>2, <1>5, <2>1, AnswerFresh DEF ServeLoad, FlightRecord
<1>6. CASE ServeCreate(i)
  BY <1>3, <1>6 DEF ServeCreate, Posts
<1>7. CASE ServeSubmit(i)
  BY <1>1, <1>3, <1>7 DEF ServeSubmit, Posts
<1>8. ASSUME NEW op \in Decisions, ServeDecision(i, op)
      PROVE  ComingFresh'
  BY <1>1, <1>3, <1>8 DEF ServeDecision, Posts
<1> QED BY <1>1, <1>4, <1>5, <1>6, <1>7, <1>8 DEF Serve, Break

\* What is left of n functions when the oldest one ends, and with the function
\* that it starts.
IsRest(rest, n) ==
  /\ Len(rest) = n - 1 /\ DOMAIN rest = 1..n - 1
  /\ \A k \in 1..n - 1 : rest[k] = flights[k + 1]

IsRestAnd(fs, f, n) ==
  /\ Len(fs) = n /\ DOMAIN fs = 1..n
  /\ fs[n] = f
  /\ \A k \in 1..n - 1 : fs[k] = flights[k + 1]

LEMMA RestFacts ==
  ASSUME UIInv, 1 \in DOMAIN flights, NEW n \in Nat, n = Len(flights)
  PROVE  /\ IsRest(RemoveAt(flights, 1), n)
         /\ \A f : IsRestAnd(Append(RemoveAt(flights, 1), f), f, n)
<1> DEFINE rest == RemoveAt(flights, 1)
<1>1. /\ rest \in Seq(Flight) /\ Len(rest) = n - 1
      /\ \A j \in 1..n - 1 : rest[j] = flights[j + 1]
  BY HeadRemoved DEF UIInv, PageTypeOK
<1> HIDE DEF rest
<1>3. DOMAIN rest = 1..n - 1
  BY <1>1
<1>4. ASSUME NEW f
      PROVE  IsRestAnd(Append(rest, f), f, n)
  <2>1. /\ Len(Append(rest, f)) = Len(rest) + 1
        /\ DOMAIN Append(rest, f) = 1..Len(rest) + 1
        /\ Append(rest, f)[Len(rest) + 1] = f
        /\ \A k \in 1..Len(rest) : Append(rest, f)[k] = rest[k]
    BY <1>1
  <2>2. Len(rest) + 1 = n
    BY <1>1
  <2> QED BY <1>1, <2>1, <2>2 DEF IsRestAnd
<1> QED BY <1>1, <1>3, <1>4 DEF rest, IsRest

\* A renewal further on survives the end of the oldest function.
LEMMA RenewalSurvives ==
  ASSUME UIInv, 1 \in DOMAIN flights, persona' = persona, filter' = filter,
         NEW n \in Nat, n = Len(flights),
         \/ IsRest(flights', n)
         \/ \E f : f.kind = "load" /\ IsRestAnd(flights', f, n),
         NEW m \in DOMAIN flights, m # 1, Renews(flights[m]),
         \A k \in DOMAIN flights : k > m => flights[k].kind = "load"
  PROVE  Renewal'
<1>1. m \in Nat /\ m - 1 \in 1..n - 1 /\ DOMAIN flights = 1..n
  BY DEF UIInv, PageTypeOK
<1>2. ASSUME NEW k \in 1..n - 1
      PROVE  k \in DOMAIN flights' /\ flights'[k] = flights[k + 1]
  BY <1>1 DEF IsRest, IsRestAnd
<1>3. ASSUME NEW k \in DOMAIN flights', k > m - 1
      PROVE  flights'[k].kind = "load"
  <2>1. CASE k \in 1..n - 1
    <3>1. k + 1 \in DOMAIN flights /\ k + 1 > m
      BY <1>1, <1>3, <2>1
    <3> QED BY <1>2, <2>1, <3>1
  <2>2. CASE k \notin 1..n - 1
    <3>1. PICK f : f.kind = "load" /\ IsRestAnd(flights', f, n)
      BY <1>3, <2>2 DEF IsRest
    <3>2. DOMAIN flights' = 1..n /\ flights'[n] = f
      BY <3>1 DEF IsRestAnd
    <3>3. k = n
      BY <1>1, <1>3, <2>2, <3>2
    <3> QED BY <3>1, <3>2, <3>3
  <2> QED BY <2>1, <2>2
<1>4. PICK l : l = m - 1
  OBVIOUS
<1>5. l \in DOMAIN flights' /\ flights'[l] = flights[m]
  BY <1>1, <1>2, <1>4
<1>6. Renews(flights[l])'
  BY <1>5 DEF Renews
<1> QED BY <1>3, <1>4, <1>5, <1>6 DEF Renewal

LEMMA TakeFresh ==
  ASSUME UIInv, ComingFresh, NEW i \in DOMAIN flights, Take(i)
  PROVE  ComingFresh'
<1> SUFFICES ASSUME smooth'
             PROVE  Renewal' \/ Settling'
  BY DEF ComingFresh
<1>1. i = 1 /\ smooth /\ persona' = persona /\ filter' = filter
      /\ flights[1].pending = {} /\ 1 \in DOMAIN flights
  BY DEF Take, TakeList, TakeLoad, TakePost, Answered
<1>2. flights[1] \in FlightRecord /\ GoodFlight(flights[1], requests)
  BY <1>1, FlightFacts
<1>0. PICK n \in Nat : n = Len(flights)
  BY DEF UIInv, PageTypeOK
<1>3. flights \in Seq(Flight) /\ DOMAIN flights = 1..n /\ n >= 1
  BY <1>0, <1>1 DEF UIInv, PageTypeOK
<1>4. CASE TakePost(1)
  <2> DEFINE f == Launch("list", persona, Nil, filter)
  <2>1. IsRestAnd(flights', f, n)
    BY <1>0, <1>1, <1>4, RestFacts DEF TakePost
  <2>3. DOMAIN flights' = 1..n /\ flights'[n] = f /\ n \in 1..n
    BY <1>3, <2>1 DEF IsRestAnd
  <2>4. Renews(flights[n])'
    BY <1>1, <2>3 DEF Renews, Launch
  <2> QED BY <1>3, <2>3, <2>4 DEF Renewal
<1>5. CASE TakeLoad(1)
  <2>1. flights[1].kind = "load" /\ IsRest(flights', n)
        /\ pane' = [row |-> flights[1].row, actor |-> persona]
        /\ selected' = selected /\ list' = list /\ acked' = acked
    BY <1>0, <1>1, <1>5, RestFacts DEF TakeLoad, Answered
  <2>2. ASSUME Renewal
        PROVE  Renewal'
    <3>1. PICK m \in DOMAIN flights :
              /\ Renews(flights[m])
              /\ \A k \in DOMAIN flights : k > m => flights[k].kind = "load"
      BY <2>2 DEF Renewal
    <3>2. m # 1
      BY <2>1, <3>1 DEF Renews, Posts, Decisions
    <3> QED BY <1>0, <1>1, <2>1, <3>1, <3>2, RenewalSurvives
  <2>3. ASSUME Settling
        PROVE  Settling'
    <3>1. ASSUME NEW k \in DOMAIN flights'
          PROVE  flights'[k].kind = "load"
      <4>1. k \in 1..n - 1 /\ flights'[k] = flights[k + 1] /\ k + 1 \in DOMAIN flights
        BY <1>3, <2>1 DEF IsRest
      <4> QED BY <2>3, <4>1 DEF Settling
    <3>3. ASSUME selected \in list.items
          PROVE  /\ flights[n].id = selected
                 /\ flights[n].row # Nil => UpToDate(flights[n].row)
      <4>1. flights # <<>> /\ selected # Nil
        BY <1>1, <3>3, PageAssumption DEF UIInv, PageTypeOK
      <4> QED BY <1>0, <2>3, <4>1 DEF Settling
    <3>4. ASSUME selected \in list.items, flights' = <<>>
          PROVE  /\ pane'.row # Nil /\ pane'.row.id = selected' /\ pane'.actor = persona'
                 /\ UpToDate(pane.row)'
      <4>1. n = 1
        BY <1>3, <2>1, <3>4 DEF IsRest
      <4>2. flights[1].row # Nil /\ flights[1].row.id = flights[1].id
        BY <1>1, <1>2, <2>1 DEF GoodFlight
      <4> QED BY <1>1, <2>1, <3>3, <3>4, <4>1, <4>2 DEF UpToDate
    <3>5. ASSUME selected \in list.items, flights' # <<>>
          PROVE  (LET f == flights[Len(flights)]
                  IN  f.id = selected /\ (f.row # Nil => UpToDate(f.row)))'
      <4>1. flights'[Len(flights')] = flights[n]
        <5>1. Len(flights') = n - 1 /\ flights' \in Seq(Flight)
          BY <1>1, <1>3, <1>5, <2>1, HeadRemoved DEF IsRest, TakeLoad
        <5>2. n - 1 \in 1..n - 1 /\ n - 1 + 1 = n
          BY <1>3, <3>5, <5>1
        <5> QED BY <2>1, <5>1, <5>2 DEF IsRest
      <4> QED BY <2>1, <3>3, <3>5, <4>1 DEF UpToDate
    <3> QED BY <1>1, <2>1, <2>3, <3>1, <3>4, <3>5 DEF Settling
  <2> QED BY <1>1, <2>2, <2>3 DEF ComingFresh
<1>6. CASE TakeList(1)
  <2> DEFINE f == flights[1]
             load(id) == Launch("load", persona, id, NoFilter)
  <2>1. /\ f.kind = "list" /\ acked' = acked
        /\ list' = [items |-> f.items, actor |-> f.actor, filter |-> f.filter]
    BY <1>6 DEF TakeList, Answered
  <2>2. \/ f.items = {} /\ selected' = Nil /\ IsRest(flights', n)
        \/ \E id \in f.items : selected' = id /\ IsRestAnd(flights', load(id), n)
    <3> HIDE DEF load
    <3>1. \/ f.items = {} /\ selected' = Nil /\ flights' = RemoveAt(flights, 1)
          \/ \E id \in f.items : selected' = id /\ flights' = Append(RemoveAt(flights, 1), load(id))
      BY <1>6 DEF TakeList, load
    <3> QED BY <1>0, <1>1, <3>1, RestFacts
  <2>3. \A id : load(id).kind = "load" /\ load(id).id = id /\ load(id).row = Nil
    BY DEF Launch
  <2> HIDE DEF load
  <2>4. PICK m \in DOMAIN flights :
            /\ Renews(flights[m])
            /\ \A k \in DOMAIN flights : k > m => flights[k].kind = "load"
    BY <1>1, <2>1 DEF ComingFresh, Renewal, Settling
  <2>5. CASE m # 1
    BY <1>0, <1>1, <2>2, <2>3, <2>4, <2>5, RenewalSurvives
  <2>6. CASE m = 1
    <3>1. f.actor = persona /\ f.filter = filter
      BY <2>1, <2>4, <2>6 DEF Renews, Posts, Decisions
    <3>2. ASSUME NEW k \in 1..n - 1
          PROVE  flights[k + 1].kind = "load"
      BY <1>3, <2>4, <2>6
    <3>3. CASE f.items = {} /\ selected' = Nil /\ IsRest(flights', n)
      <4>1. \A k \in DOMAIN flights' : flights'[k].kind = "load"
        BY <3>2, <3>3 DEF IsRest
      <4> QED BY <1>1, <2>1, <3>1, <3>3, <4>1 DEF Settling
    <3>4. ASSUME NEW id \in f.items, selected' = id, IsRestAnd(flights', load(id), n)
          PROVE  Settling'
      <4>1. /\ DOMAIN flights' = 1..n /\ Len(flights') = n
            /\ flights'[n] = load(id) /\ flights' # <<>>
            /\ \A k \in 1..n - 1 : flights'[k] = flights[k + 1]
        BY <1>3, <3>4 DEF IsRestAnd
      <4>2. ASSUME NEW k \in DOMAIN flights'
            PROVE  flights'[k].kind = "load"
        <5>1. k = n \/ k \in 1..n - 1
          BY <1>3, <4>1
        <5> QED BY <2>3, <3>2, <4>1, <5>1
      <4> QED BY <1>1, <2>1, <2>3, <3>1, <3>4, <4>1, <4>2 DEF Settling
    <3> QED BY <2>2, <3>3, <3>4
  <2> QED BY <2>5, <2>6
<1> QED BY <1>1, <1>4, <1>5, <1>6 DEF Take

LEMMA PageStaysFresh == Spec => [](UIInv /\ ComingFresh)
<1>1. ASSUME Init
      PROVE  ComingFresh
  <2>1. flights = <<Launch("list", persona, Nil, filter)>>
    BY <1>1 DEF Init, PageInit
  <2>2. DOMAIN flights = {1} /\ flights[1] = Launch("list", persona, Nil, filter)
    BY <2>1
  <2>3. Renews(flights[1])
    BY <2>2 DEF Renews, Launch
  <2> QED BY <2>2, <2>3 DEF ComingFresh, Renewal
<1>2. UIInv /\ ComingFresh /\ [Next]_vars => ComingFresh'
  <2> SUFFICES ASSUME UIInv, ComingFresh, [Next]_vars
               PROVE  ComingFresh'
    OBVIOUS
  <2>1. CASE UNCHANGED pageVars
    BY <2>1 DEF pageVars, ComingFresh, Renewal, Renews, Settling, UpToDate
  <2>2. CASE Next
    BY <2>1, <2>2, UserEventFresh, ServeFresh, TakeFresh DEF Next, Elsewhere
  <2> QED BY <2>1, <2>2 DEF vars
<1> QED BY <1>1, <1>2, UIInvariant, PTL DEF Spec

\* A page that nothing is under way for shows its actor's list for its filter
\* and one of the listed requests, with that actor's buttons (loadRequests goes
\* on to loadSelectedRequest), if since it last asked for a list at rest every
\* answer came in order and none failed.
THEOREM SettledPageHolds == Spec => []SettledPage
<1>1. ASSUME UIInv, ComingFresh, Quiet, smooth
      PROVE  Settling
  <2>1. DOMAIN flights = {}
    BY <1>1 DEF Quiet
  <2> QED BY <1>1, <2>1 DEF ComingFresh, Renewal
<1>2. UIInv /\ ComingFresh => SettledPage
  <2> SUFFICES ASSUME UIInv, ComingFresh, Quiet, smooth
               PROVE  /\ list.actor = persona /\ list.filter = filter
                      /\ selected = Nil <=> list.items = {}
                      /\ selected # Nil => /\ selected \in list.items
                                           /\ pane.row # Nil
                                           /\ pane.row.id = selected
                                           /\ pane.actor = persona
    BY DEF SettledPage
  <2>1. Settling /\ flights = <<>>
    BY <1>1 DEF Quiet
  <2>2. Nil \notin list.items
    BY PageAssumption DEF UIInv, PageTypeOK
  <2> QED BY <2>1, <2>2 DEF Settling
<1> QED BY <1>2, PageStaysFresh, PTL

\* Under the same condition the pane does not show the request of the last
\* acknowledged change as it was before (refreshAll after every post).
THEOREM AckedIsShownHolds == Spec => []AckedIsShown
<1>1. UIInv /\ ComingFresh => AckedIsShown
  <2> SUFFICES ASSUME UIInv, ComingFresh, Quiet, smooth, acked.id # Nil, acked.id = selected
               PROVE  pane.row.version >= acked.version
    BY DEF AckedIsShown
  <2>1. DOMAIN flights = {} /\ flights = <<>>
    BY DEF Quiet
  <2>2. Settling
    BY <2>1 DEF ComingFresh, Renewal
  <2>3. pane.row # Nil /\ acked.version <= pane.row.version
    BY <2>1, <2>2 DEF Settling, UpToDate
  <2>4. pane.row.version \in Nat /\ acked.version \in Nat
    BY <2>3 DEF UIInv, PageTypeOK, Row
  <2> QED BY <2>3, <2>4
<1> QED BY <1>1, PageStaysFresh, PTL

\* A button renderDetail enables, the service honours as long as the request is
\* as shown, save for the admin's own requests.
THEOREM OfferedIsAllowedHolds == Spec => []OfferedIsAllowed
<1>1. OfferedIsAllowed
  <2> SUFFICES ASSUME NEW op \in Posts, Offers(op), requests[pane.row.id] = pane.row
               PROVE  CASE op = "submit"    -> AcceptsSubmit(pane.actor, pane.row)
                        [] op \in Decisions -> \/ AcceptsDecision(pane.actor, pane.row)
                                               \/ /\ pane.actor.role = "admin"
                                                  /\ pane.row.requester_id = pane.actor.id
    BY DEF OfferedIsAllowed
  <2>1. CASE op = "submit"
    BY <2>1 DEF Offers, AcceptsSubmit, OwnsOrAdmin, Decisions
  <2>2. CASE op \in Decisions
    BY <2>2 DEF Offers, AcceptsDecision, MayDecide, CanReview, Decisions
  <2> QED BY <2>1, <2>2 DEF Offers
<1> QED BY <1>1, PTL

=============================================================================
