------------------------------ MODULE Visibility -----------------------------
(***************************************************************************)
(* Who sees what: the reads of internal/application/service.go and the     *)
(* query behind them.  They change nothing; an answer is a function of the *)
(* actor, the filter and the table at the moment of the statement.         *)
(***************************************************************************)
EXTENDS Transitions

NoFilter == ""        \* an absent or blank query parameter

\* RequestFilter, as handleListRequests reads it from the query.
RequestFilters == [requester_id : Users \cup {NoFilter},
                   reviewer_id  : Users \cup {NoFilter},
                   status       : Statuses \cup {NoFilter}]

CanView(actor, r) ==
    \/ actor.role = "admin"
    \/ r.requester_id = actor.id
    \/ actor.role = "reviewer" /\ r.assigned_reviewer_id = actor.id

FaultyEffectiveFilter(actor, filter) == filter

\* ListRequests: an employee lists their own requests; a reviewer who asks
\* for nobody's requests in particular lists those assigned to them.
EffectiveFilter(actor, filter) ==
    CASE actor.role = "employee" ->
             [filter EXCEPT !.requester_id = actor.id, !.reviewer_id = NoFilter]
      [] actor.role = "reviewer" /\ filter.requester_id = NoFilter ->
             [filter EXCEPT !.reviewer_id = actor.id]
      [] OTHER -> filter

Selects(filter, r) ==
    /\ filter.requester_id \in {NoFilter, r.requester_id}
    /\ filter.reviewer_id \in {NoFilter, r.assigned_reviewer_id}
    /\ filter.status \in {NoFilter, r.status}

\* The identifiers in the answer to a listing, over a table as in Store.
ListRequests(table, actor, filter) ==
    {id \in Ids : table[id] # Nil /\ Selects(EffectiveFilter(actor, filter), table[id])}

\* GetRequest and, in front of the log, ListAudit: the row, or a refusal.
Readable(table, actor, id) == table[id] # Nil /\ CanView(actor, table[id])

=============================================================================
