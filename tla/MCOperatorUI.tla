---------------------------- MODULE MCOperatorUI ----------------------------
(***************************************************************************)
(* The page of three personas while other people and the worker act on the *)
(* requests it shows.  r1 waits for its review when the page is opened.    *)
(***************************************************************************)
EXTENDS OperatorUI

CONSTANTS r1, r2

Ann == [id |-> "ann", role |-> "employee"]
Rob == [id |-> "rob", role |-> "reviewer"]
Ada == [id |-> "ada", role |-> "admin"]

MCPersonas == {Ann, Rob, Ada}

Waiting(id) == SubmittedRow(DraftRow(id, Ann, "vpn"), 0)

\* The page when its first list and request have come back.
Settled ==
    /\ persona \in Personas
    /\ filter \in StatusFilters
    /\ selected = r1
    /\ list = [items |-> {r1}, actor |-> persona, filter |-> filter]
    /\ pane = [row |-> Waiting(r1), actor |-> persona]
    /\ flights = <<>>
    /\ smooth = TRUE
    /\ acked = [id |-> Nil, version |-> 0]
    /\ events = 0
    /\ elsewhere = 0

OpenedInit ==
    /\ requests = [id \in Ids |-> IF id = r1 THEN Waiting(r1) ELSE Nil]
    /\ now = 0
    /\ Settled

OpenedSpec == OpenedInit /\ [][Next]_vars

=============================================================================
