----------------------------- MODULE OperatorUI -----------------------------
(***************************************************************************)
(* The operator page (internal/transport/http/ui/assets/app.js) in one     *)
(* browser, over the service as module Lifecycle describes it.  Every user *)
(* event starts an asynchronous function whose HTTP calls are served, and  *)
(* whose answers come back, in any order; the code between two awaits is   *)
(* one step.  The functions under way are a sequence in the order they     *)
(* were started.                                                           *)
(***************************************************************************)
EXTENDS Visibility, SequencesExt

CONSTANTS
    Personas,         \* the persona cards, and the actor of the page's query
    StatusFilters,    \* the options of the status filter
    MaxEvents,        \* bound on what the user does
    MaxElsewhere      \* bound on what others do meanwhile

ASSUME PageAssumption ==
    /\ Nil \notin Ids
    /\ Personas \subseteq Actors
    /\ StatusFilters \subseteq Statuses \cup {NoFilter}
    /\ NoFilter \in StatusFilters

VARIABLES
    requests, now,    \* the service
    persona,          \* state.actor
    filter,           \* the value of the status filter
    selected,         \* state.selectedRequestId, Nil for ""
    list,             \* state.requests, with the actor and filter it is for
    pane,             \* the detail pane: the row it shows, and the actor its
                      \* buttons were enabled for
    flights,          \* the functions awaiting an answer
    smooth,           \* history: since a list was asked for with nothing else
                      \* under way, all answers came in order and none failed
    acked,            \* history: the last change the page was told of
    events,           \* history: how much the user has done
    elsewhere         \* history: and how much others have

serviceVars == <<requests, now>>
pageVars == <<persona, filter, selected, list, pane, flights, smooth, acked, events>>
vars == <<serviceVars, pageVars, elsewhere>>

L == INSTANCE Lifecycle

Posts == {"create", "submit"} \cup Decisions

\* loadSelectedRequest awaits two answers, every other function one.
FetchesOf(kind) == IF kind = "load" THEN {"request", "audit"} ELSE {kind}

FlightRecord == [kind    : Posts \cup {"list", "load"},
                 actor   : Personas,
                 id      : Ids \cup {Nil},
                 filter  : StatusFilters,         \* of a listing
                 pending : SUBSET (Posts \cup {"list", "request", "audit"}),
                 row     : Row \cup {Nil},       \* what the answer says
                 items   : SUBSET Ids]

\* All but listings and creations are about a request.
Flight == {f \in FlightRecord : f.kind \notin {"list", "create"} => f.id # Nil}

Launch(kind, actor, id, status) ==
    [kind |-> kind, actor |-> actor, id |-> id, filter |-> status,
     pending |-> FetchesOf(kind), row |-> Nil, items |-> {}]

EmptyPane == [row |-> Nil, actor |-> Nil]

\* hydrateFromQuery, bindEvents and the first loadRequests.
PageInit ==
    /\ persona \in Personas
    /\ filter \in StatusFilters
    /\ selected = Nil
    /\ list = [items |-> {}, actor |-> persona, filter |-> filter]
    /\ pane = EmptyPane
    /\ flights = <<Launch("list", persona, Nil, filter)>>
    /\ smooth = TRUE
    /\ acked = [id |-> Nil, version |-> 0]
    /\ events = 0
    /\ elsewhere = 0

Init == L!Init /\ PageInit

-----------------------------------------------------------------------------
(* What the user does. *)

Event == events < MaxEvents /\ events' = events + 1 /\ UNCHANGED <<requests, now, acked, elsewhere>>

Start(flight) == flights' = Append(flights, flight)

\* An event that leads to a fresh list.
Renewing == smooth' = (smooth \/ flights = <<>>)

ClickCard(id) ==
    /\ Event
    /\ id \in list.items
    /\ selected' = id
    /\ Start(Launch("load", persona, id, NoFilter))
    /\ UNCHANGED <<persona, filter, list, pane, smooth>>

SelectActor(actor) ==
    /\ Event /\ Renewing
    /\ persona' = actor
    /\ selected' = Nil
    /\ Start(Launch("list", actor, Nil, filter))
    /\ UNCHANGED <<filter, list, pane>>

\* A change of the filter, or the refresh button.
Refresh(status) ==
    /\ Event /\ Renewing
    /\ filter' = status
    /\ Start(Launch("list", persona, Nil, status))
    /\ UNCHANGED <<persona, selected, list, pane>>

CreateDraft ==
    /\ Event /\ Renewing
    /\ Start(Launch("create", persona, Nil, NoFilter))
    /\ UNCHANGED <<persona, filter, selected, list, pane>>

FaultyOffers(op) ==      \* reviewers may decide whatever is pending
    /\ pane.row # Nil
    /\ \/ op = "submit" /\ pane.row.status = "draft"
          /\ pane.row.requester_id = pane.actor.id
       \/ op \in Decisions /\ pane.row.status = "pending_review"
          /\ pane.actor.role \in {"admin", "reviewer"}

\* renderDetail: the buttons that are enabled.
Offers(op) ==
    /\ pane.row # Nil
    /\ \/ /\ op = "submit"
          /\ pane.row.status = "draft"
          /\ pane.row.requester_id = pane.actor.id
       \/ /\ op \in Decisions
          /\ pane.row.status = "pending_review"
          /\ \/ pane.actor.role = "admin"
             \/ /\ pane.actor.role = "reviewer"
                /\ pane.row.assigned_reviewer_id = pane.actor.id
                /\ pane.row.requester_id # pane.actor.id

FaultyClickAction(op) ==      \* no test for a selection
    /\ Event /\ Renewing
    /\ Offers(op)
    /\ Start(Launch(op, persona, selected, NoFilter))
    /\ UNCHANGED <<persona, filter, selected, list, pane>>

\* submitSelected, reviewSelected: the buttons follow the pane, the call goes
\* to the selection.
ClickAction(op) ==
    /\ Event /\ Renewing
    /\ Offers(op)
    /\ selected # Nil
    /\ Start(Launch(op, persona, selected, NoFilter))
    /\ UNCHANGED <<persona, filter, selected, list, pane>>

-----------------------------------------------------------------------------
(* The service serves a call. *)

Awaits(i, fetch) == fetch \in flights[i].pending

Answer(i, flight) ==
    /\ flights' = [flights EXCEPT ![i] = flight]
    /\ UNCHANGED <<now, persona, filter, selected, list, pane, smooth, acked, events, elsewhere>>

\* A rejected promise ends in a toast or, after a click on a card, nowhere, and
\* changes nothing, whenever it comes back; Promise.all is rejected by the
\* first of its two.
Refusal(i) ==
    /\ smooth' = FALSE
    /\ flights' = RemoveAt(flights, i)
    /\ UNCHANGED <<requests, now, persona, filter, selected, list, pane, acked, events, elsewhere>>

ServeList(i) ==
    /\ Awaits(i, "list")
    /\ UNCHANGED requests
    /\ Answer(i, [flights[i] EXCEPT
           !.pending = {},
           !.items = ListRequests(requests, flights[i].actor,
                         [requester_id |-> NoFilter, reviewer_id |-> NoFilter,
                          status |-> flights[i].filter])])

\* handleGetRequest and handleAudit, in either order.
ServeLoad(i, fetch) ==
    /\ Awaits(i, fetch)
    /\ LET f == flights[i]
           readable == Readable(requests, f.actor, f.id)
       IN  \/ ~readable /\ Refusal(i)
           \/ /\ readable
              /\ UNCHANGED requests
              /\ Answer(i, [f EXCEPT !.pending = @ \ {fetch},
                                     !.row = IF fetch = "request" THEN requests[f.id] ELSE @])

\* A call that changes the row, or finds it changed already.
Commit(i, row) ==
    /\ requests' = [requests EXCEPT ![row.id] = row]
    /\ Answer(i, [flights[i] EXCEPT !.pending = {}, !.row = row])

ServeCreate(i) ==
    /\ Awaits(i, "create")
    /\ \E id \in Ids, target \in Targets :
           /\ requests[id] = Nil
           /\ Commit(i, DraftRow(id, flights[i].actor, target))

\* The methods start with GetRequest: a request that is not there is refused.
AcceptsSubmit(actor, r) == r # Nil /\ r.status = "draft" /\ OwnsOrAdmin(actor, r)

AcceptsDecision(actor, r) ==
    r # Nil /\ r.status = "pending_review" /\ MayDecide(actor, r)

Decided(r, op) == r # Nil /\ r.status = op

ServeSubmit(i) ==
    /\ Awaits(i, "submit")
    /\ LET r == requests[flights[i].id]
           accepted == AcceptsSubmit(flights[i].actor, r)
       IN  \/ ~accepted /\ Refusal(i)
           \/ accepted /\ Commit(i, SubmittedRow(r, now))

ServeDecision(i, op) ==
    /\ Awaits(i, op)
    /\ LET r == requests[flights[i].id]
           accepted == AcceptsDecision(flights[i].actor, r)
       IN  \/ Decided(r, op) /\ Commit(i, r)
           \/ ~Decided(r, op) /\ ~accepted /\ Refusal(i)
           \/ accepted /\ Commit(i, ReviewedRow(r, op, now))

\* The store or the network fails, before or after the call was served.
Break(i) == Refusal(i)

-----------------------------------------------------------------------------
(* An answer comes back. *)

Answered(i, kinds) ==
    /\ flights[i].pending = {}
    /\ flights[i].kind \in kinds
    /\ smooth' = (smooth /\ i = 1)
    /\ UNCHANGED <<requests, now, persona, filter, events, elsewhere>>

FaultyTakeList(i) ==      \* the pane is loaded only for a new selection
    /\ Answered(i, {"list"})
    /\ UNCHANGED acked
    /\ LET f == flights[i]
       IN  /\ list' = [items |-> f.items, actor |-> f.actor, filter |-> f.filter]
           /\ \/ /\ f.items = {}
                 /\ selected' = Nil
                 /\ pane' = EmptyPane
                 /\ flights' = RemoveAt(flights, i)
              \/ /\ selected \in f.items
                 /\ flights' = RemoveAt(flights, i)
                 /\ UNCHANGED <<selected, pane>>
              \/ /\ selected \notin f.items
                 /\ \E id \in f.items :
                       /\ selected' = id
                       /\ flights' = Append(RemoveAt(flights, i),
                                            Launch("load", persona, id, NoFilter))
                 /\ UNCHANGED pane

\* loadRequests: the selection stays if the list has it and goes to the first
\* item if not; then its request and log are loaded.
TakeList(i) ==
    /\ Answered(i, {"list"})
    /\ UNCHANGED acked
    /\ LET f == flights[i]
       IN  /\ list' = [items |-> f.items, actor |-> f.actor, filter |-> f.filter]
           /\ \/ /\ f.items = {}
                 /\ selected' = Nil
                 /\ pane' = EmptyPane
                 /\ flights' = RemoveAt(flights, i)
              \/ \E id \in IF selected \in f.items THEN {selected} ELSE f.items :
                    /\ selected' = id
                    /\ flights' = Append(RemoveAt(flights, i),
                                         Launch("load", persona, id, NoFilter))
                    /\ UNCHANGED pane

\* loadSelectedRequest shows what it asked for, whatever is selected by now.
TakeLoad(i) ==
    /\ Answered(i, {"load"})
    /\ pane' = [row |-> flights[i].row, actor |-> persona]
    /\ flights' = RemoveAt(flights, i)
    /\ UNCHANGED <<selected, list, acked>>

FaultyTakePost(i) ==      \* a toast and no fresh list
    /\ Answered(i, Posts)
    /\ acked' = [id |-> flights[i].row.id, version |-> flights[i].row.version]
    /\ flights' = RemoveAt(flights, i)
    /\ UNCHANGED <<selected, list, pane>>

TakePost(i) ==
    /\ Answered(i, Posts)
    /\ acked' = [id |-> flights[i].row.id, version |-> flights[i].row.version]
    /\ selected' = IF flights[i].kind = "create" THEN flights[i].row.id ELSE selected
    /\ flights' = Append(RemoveAt(flights, i), Launch("list", persona, Nil, filter))
    /\ UNCHANGED <<list, pane>>

-----------------------------------------------------------------------------

UserEvent ==
    \/ \E id \in Ids : ClickCard(id)
    \/ \E actor \in Personas : SelectActor(actor)
    \/ \E status \in StatusFilters : Refresh(status)
    \/ CreateDraft
    \/ \E op \in Posts : ClickAction(op)

Serve(i) ==
    \/ ServeList(i)
    \/ \E fetch \in {"request", "audit"} : ServeLoad(i, fetch)
    \/ ServeCreate(i)
    \/ ServeSubmit(i)
    \/ \E op \in Decisions : ServeDecision(i, op)
    \/ Break(i)

Take(i) == TakeList(i) \/ TakeLoad(i) \/ TakePost(i)

\* Other people and the worker go on meanwhile.
Elsewhere ==
    /\ elsewhere < MaxElsewhere
    /\ elsewhere' = elsewhere + 1
    /\ L!Next
    /\ UNCHANGED pageVars

Next ==
    \/ UserEvent
    \/ \E i \in DOMAIN flights : Serve(i) \/ Take(i)
    \/ Elsewhere

Spec == Init /\ [][Next]_vars

-----------------------------------------------------------------------------
(* Properties *)

\* Every variable of the page keeps its type; in particular a call about a
\* request never goes out without one.
PageTypeOK ==
    /\ requests \in [Ids -> Row \cup {Nil}]
    /\ now \in Nat
    /\ persona \in Personas
    /\ filter \in StatusFilters
    /\ selected \in Ids \cup {Nil}
    /\ list \in [items : SUBSET Ids, actor : Personas, filter : StatusFilters]
    /\ pane \in [row : Row \cup {Nil}, actor : Personas \cup {Nil}]
    /\ flights \in Seq(Flight)
    /\ smooth \in BOOLEAN
    /\ acked \in [id : Ids \cup {Nil}, version : Nat]
    /\ events \in Nat
    /\ elsewhere \in Nat

\* What the list shows an actor can be opened by that actor, then and at any
\* later time, whatever others do to the request meanwhile.
ListedCanBeOpened ==
    \A id \in list.items : Readable(requests, list.actor, id)

Quiet == flights = <<>>

\* With nothing under way any more, and no answer out of order or failed, the
\* list is for the current actor and filter, the selection is one of its
\* items, and the pane shows the selection with buttons for the current actor.
SettledPage ==
    Quiet /\ smooth =>
        /\ list.actor = persona
        /\ list.filter = filter
        /\ selected = Nil <=> list.items = {}
        /\ selected # Nil => /\ selected \in list.items
                             /\ pane.row # Nil
                             /\ pane.row.id = selected
                             /\ pane.actor = persona

\* A page at rest does not show the request of the last acknowledged change
\* as it was before that change.
AckedIsShown ==
    Quiet /\ smooth /\ acked.id # Nil /\ acked.id = selected =>
        pane.row.version >= acked.version

\* What an enabled button offers, the service accepts while the request is as
\* shown, but for one case: the page offers admins to decide their own requests,
\* which the service refuses.  The converse does not hold and is not said: the
\* service lets admins submit the drafts of others, and the page has no button.
OfferedIsAllowed ==
    \A op \in Posts :
        Offers(op) /\ requests[pane.row.id] = pane.row =>
            CASE op = "submit"    -> AcceptsSubmit(pane.actor, pane.row)
              [] op \in Decisions -> \/ AcceptsDecision(pane.actor, pane.row)
                                     \/ /\ pane.actor.role = "admin"
                                        /\ pane.row.requester_id = pane.actor.id

=============================================================================
