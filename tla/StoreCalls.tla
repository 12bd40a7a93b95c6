------------------------------ MODULE StoreCalls -----------------------------
(***************************************************************************)
(* The calls module System makes of its store, against those module        *)
(* StoreContract lets a repository expect.  The in-memory store implements *)
(* the contract; that the contract covers the service is stated here.      *)
(***************************************************************************)
EXTENDS History

Contract == INSTANCE StoreContract WITH Keys <- {}, answer <- "ok"

-----------------------------------------------------------------------------
(* What a call or a worker has in hand for its next store call. *)

CallExpected(call, stored, computed) ==
    /\ call.pc \in {"lookup", "claim", "recheck", "reload", "replayLookup",
                    "replayClaim", "review", "audit", "auditAssigned"}
          => call.row \in stored
    /\ call.pc = "update" => call.row \in computed

WorkerExpected(worker, stored, computed, results) ==
    /\ worker.batch \subseteq stored
    /\ worker.pc = "remind" =>
          \A r \in worker.batch : RemindedRow(r, worker.pass) \in computed
    /\ worker.pc \in {"remindAudit", "remindJob", "executeAudit"} => worker.row \in stored
    /\ worker.pc \in {"executeUpdate", "executeAudit", "executeJob"} =>
          worker.row \in results

\* Whatever a goroutine hands to the store, the contract lets a repository
\* expect it, however old the row is and whatever failed before: an update is
\* one change of a row that was once stored, reviews and audit entries are about
\* rows that were stored, and a job run may be about one that never was, as
\* ProcessDueExecutions drops the error of applyExecutionResult.
StoreCallsExpected ==
    /\ \A c \in Calls : CallExpected(calls[c], seen, Contract!Computed)
    /\ \A w \in Workers :
           WorkerExpected(workers[w], seen, Contract!Computed, Contract!Results)

=============================================================================
