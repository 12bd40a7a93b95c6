------------------------------- MODULE System -------------------------------
(***************************************************************************)
(* The whole service: the HTTP calls, the workers and the failures around  *)
(* one Postgres database (cmd/server/main.go).                             *)
(***************************************************************************)
EXTENDS Handlers, Worker

CONSTANTS
    MaxTime,          \* bound on the clock
    MaxFaults         \* bound on store errors, lost answers and restarts

ASSUME BoundsAssumption == MaxTime \in Nat /\ MaxFaults \in Nat

\* A goroutine serves a request of a client or runs the worker, never both.
ASSUME WritersAssumption == Calls \cap Workers = {}

VARIABLE faults       \* how many failures there have been

vars == <<storeVars, now, calls, workers, executions, faults>>

Init ==
    /\ StoreInit
    /\ HandlersInit
    /\ WorkerInit
    /\ faults = 0

CallStep(c) == HandlerStep(c) /\ UNCHANGED <<now, workers, executions, faults>>

WorkStep(w) == WorkerStep(w) /\ UNCHANGED <<now, calls, faults>>

Tick ==
    /\ now < MaxTime
    /\ now' = now + 1
    /\ UNCHANGED <<storeVars, calls, workers, executions, faults>>

Fault == faults < MaxFaults /\ faults' = faults + 1

CallFault(c) ==
    /\ Fault
    /\ StoreError(c) \/ ReplyLost(c)
    /\ UNCHANGED <<now, workers, executions>>

WorkFault(w) ==
    /\ Fault
    /\ WorkerStoreError(w) \/ WorkerReplyLost(w)
    /\ UNCHANGED <<now, calls>>

\* A process stops at any point and starts again: its calls are cut off and
\* its worker begins with a fresh pass.  What the database holds stays.  Which
\* process serves a call is left open, so that some calls go with each worker,
\* and all of them with all workers.
Restart ==
    /\ Fault
    /\ \E gone \in (SUBSET Workers \ {{}}) \cup {Workers} :
       \E cut \in SUBSET {c \in Calls : InFlight(c)} :
           /\ gone = Workers => \A c \in Calls : InFlight(c) => c \in cut
           /\ calls' = [c \in Calls |-> IF c \in cut THEN Dropped(c) ELSE calls[c]]
           /\ workers' = [w \in Workers |-> IF w \in gone THEN IdleWorker ELSE workers[w]]
    /\ UNCHANGED <<storeVars, now, executions>>

Next ==
    \/ \E c \in Calls : CallStep(c) \/ CallFault(c)
    \/ \E w \in Workers : WorkStep(w) \/ WorkFault(w)
    \/ Tick
    \/ Restart

Spec == Init /\ [][Next]_vars

\* main starts the worker's goroutine and the loop of Worker.Start never
\* ends on its own: a worker that can take a step takes one.
FairSpec == Spec /\ \A w \in Workers : WF_vars(WorkStep(w))

=============================================================================
