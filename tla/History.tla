------------------------------- MODULE History ------------------------------
(***************************************************************************)
(* Module System with a memory of what the table does not keep: the rows   *)
(* it has held, and which call or worker wrote each version.  The history  *)
(* is only recorded; no step of the system depends on it.                  *)
(***************************************************************************)
EXTENDS Properties

VARIABLES
    seen,             \* every row that was ever stored
    writes            \* who wrote which version of which request

WriteEntry(id, version, writer) ==
    [request |-> id, version |-> version, writer |-> writer]

\* The goroutine that takes the step.
TakesStep(a) ==
    \/ a \in Calls /\ calls'[a] # calls[a]
    \/ a \in Workers /\ workers'[a] # workers[a]

Record ==
    /\ seen' = seen \cup Rows'
    /\ writes' = writes \cup
          {WriteEntry(id, requests'[id].version, a) :
               id \in {i \in Ids : requests'[i] # requests[i]},
               a \in {b \in Writers : TakesStep(b)}}

RecordedSpec ==
    Init /\ seen = Rows /\ writes = {} /\ [][Next /\ Record]_<<vars, seen, writes>>

\* A call that was refused has changed no request: whoever wrote a version of
\* one is under way, was answered with success or with a server error, or was
\* cut off.  A conflict is found by the very statement that would have written,
\* and every other refusal comes before it, whatever other calls, lost answers
\* and restarts happen between the statements of the call.
RefusalsChangeNothing ==
    \A e \in writes : e.writer \in Calls =>
        calls[e.writer].result \in {"none", "ok", "error", "lost"}

=============================================================================
