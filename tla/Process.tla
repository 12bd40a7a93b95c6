------------------------------- MODULE Process ------------------------------
(***************************************************************************)
(* The life of a server process (cmd/server/main.go): the start-up steps,  *)
(* migrations among them, the HTTP server and the goroutine of the worker  *)
(* (jobs/worker.go) beside main, and the way down after a signal or a      *)
(* failed listener.  A process that is over is started again with the      *)
(* same environment on the same database.                                  *)
(*                                                                         *)
(* Calls and passes are those of Handlers and Worker, seen from outside:   *)
(* here a call is in flight or not, and a pass calls the executor for each *)
(* listed request and then records it.  A statement of the worker fails    *)
(* once its context is cancelled; other store errors are System's.  A call *)
(* holds a connection of the pool while a statement of it runs, and nobody *)
(* cancels the context of a call.                                          *)
(***************************************************************************)
EXTENDS Config

CONSTANTS
    Environments,     \* the environments to be started in
    Files,            \* the embedded migrations are 1..Files, by name
    MaxDue,           \* bound on the requests that are due
    MaxCalls          \* bound on the calls in flight

ASSUME ProcessAssumption ==
    /\ Environments \subseteq Environment
    /\ Files \in Nat
    /\ MaxDue \in Nat
    /\ MaxCalls \in Nat

VARIABLES
    env,              \* the environment, fixed
    applied,          \* the database: the migrations it has seen
    phase,            \* where main is
    next,             \* RunMigrations: the next file
    cancelled,        \* ctx of signal.NotifyContext is done
    listener,         \* "new", "open" or "shut"
    inFlight,         \* calls being handled
    holding,          \* those of them that hold a connection of the pool
    expired,          \* Shutdown's ten seconds are over
    worker,           \* where the worker's goroutine is, "none" without one
    left,             \* listed requests its pass has not come to
    unrecorded        \* executions of this process without their update

calls == <<inFlight, holding>>
vars == <<env, applied, phase, next, cancelled, listener, inFlight, holding,
          expired, worker, left, unrecorded>>

Over == {"failed", "panicked", "killed", "ended"}

Phases == {"load", "tracing", "connect", "migrate", "serve", "drain", "close",
           "flush"} \cup Over

settings == Settings(Load(env))

Init ==
    /\ env \in Environments
    /\ applied = {}
    /\ phase = "load"
    /\ next = 1
    /\ cancelled = FALSE
    /\ listener = "new"
    /\ inFlight = 0
    /\ holding = 0
    /\ expired = FALSE
    /\ worker = "none"
    /\ left = 0
    /\ unrecorded = 0

At(p) == phase = p

\* The process is gone, with its goroutines and its calls.
Exit(end) ==
    /\ phase' = end
    /\ listener' = "shut"
    /\ inFlight' = 0
    /\ holding' = 0
    /\ worker' = "none"
    /\ left' = 0
    /\ UNCHANGED <<env, next, cancelled, expired, unrecorded>>

Goto(p) ==
    /\ phase' = p
    /\ UNCHANGED <<env, next, cancelled, calls, worker, left, unrecorded>>

-----------------------------------------------------------------------------
(* main, on the way up: any error is fatal, and skips what was deferred.   *)

LoadConfig ==
    /\ At("load")
    /\ UNCHANGED applied
    /\ \/ Accepts(Load(env)) /\ Goto("tracing") /\ UNCHANGED <<listener, expired>>
       \/ ~Accepts(Load(env)) /\ Exit("failed")

\* observability.Setup: nothing can fail while tracing is disabled.
Setup ==
    /\ At("tracing")
    /\ UNCHANGED applied
    /\ \/ Goto("connect") /\ UNCHANGED <<listener, expired>>
       \/ Load(env).Enabled /\ Exit("failed")

\* pgxpool.New and Ping
Connect ==
    /\ At("connect")
    /\ UNCHANGED applied
    /\ \/ ~cancelled /\ Goto("migrate") /\ UNCHANGED <<listener, expired>>
       \/ Exit("failed")

FaultyMigrate ==      \* the error is logged and the next file is tried
    /\ At("migrate")
    /\ next <= Files
    /\ next' = next + 1
    /\ applied' \in {applied, applied \cup {next}}
    /\ UNCHANGED <<env, phase, cancelled, listener, calls, expired, worker,
                   left, unrecorded>>

\* RunMigrations, one file: a single Exec, so the file applies as a whole or
\* not at all, and on a database that has it nothing changes (IF NOT EXISTS).
\* An error may have come after the effect.
Migrate ==
    /\ At("migrate")
    /\ next <= Files
    /\ \/ /\ ~cancelled
          /\ applied' = applied \cup {next}
          /\ next' = next + 1
          /\ UNCHANGED <<env, phase, cancelled, listener, calls, expired,
                         worker, left, unrecorded>>
       \/ applied' \in {applied, applied \cup {next}} /\ Exit("failed")

Serve ==
    /\ At("migrate")
    /\ next > Files
    /\ phase' = "serve"
    /\ worker' = "starting"
    /\ UNCHANGED <<env, applied, next, cancelled, listener, calls, expired,
                   left, unrecorded>>

-----------------------------------------------------------------------------
(* main, on the way down: Shutdown, then what was deferred, last first.    *)

BeginShutdown ==
    /\ At("serve")
    /\ cancelled
    /\ Goto("drain")
    /\ listener' = "shut"
    /\ UNCHANGED <<applied, expired>>

\* The context of Shutdown: ten seconds after it began
Expire ==
    /\ At("drain")
    /\ ~expired
    /\ expired' = TRUE
    /\ UNCHANGED <<env, applied, phase, next, cancelled, listener, calls, worker,
                   left, unrecorded>>

FaultyDrain ==      \* Shutdown is given a context without a deadline
    /\ At("drain")
    /\ inFlight = 0
    /\ Goto("close")
    /\ UNCHANGED <<applied, listener, expired>>

FaultyCloseDrain ==      \* server.Close in place of Shutdown
    /\ At("drain")
    /\ Goto("close")
    /\ UNCHANGED <<applied, listener, expired>>

\* Shutdown returns when no call is left or when its context is done.
Drain ==
    /\ At("drain")
    /\ inFlight = 0 \/ expired
    /\ Goto("close")
    /\ UNCHANGED <<applied, listener, expired>>

\* pool.Close waits until every connection is given back, however long a
\* statement takes.
Close ==
    /\ At("close")
    /\ holding = 0
    /\ Goto("flush")
    /\ UNCHANGED <<applied, listener, expired>>

\* shutdownTracing, at most five seconds, and the end of main
Flush == At("flush") /\ Exit("ended") /\ UNCHANGED applied

MainStep ==
    \/ LoadConfig \/ Setup \/ Connect \/ Migrate \/ Serve
    \/ BeginShutdown \/ Drain \/ Close \/ Flush

-----------------------------------------------------------------------------
(* The HTTP server *)

\* ListenAndServe: a failure, at once or later, calls stop, which cancels the
\* context; connections it has accepted are served until Shutdown.  After
\* Shutdown has begun it returns ErrServerClosed.
Listen ==
    /\ At("serve")
    /\ \/ listener = "new" /\ listener' = "open" /\ UNCHANGED cancelled
       \/ listener = "new" /\ listener' = "shut" /\ cancelled' = TRUE
       \/ listener = "open" /\ cancelled' = TRUE /\ UNCHANGED listener
    /\ UNCHANGED <<env, applied, phase, next, calls, expired, worker, left,
                   unrecorded>>

\* A call comes in, takes a connection for a statement unless the pool is
\* closed, gives it back, and ends; it may take as long as it likes.
Call ==
    /\ \/ listener = "open" /\ inFlight < MaxCalls /\ inFlight' = inFlight + 1
          /\ UNCHANGED holding
       \/ holding < inFlight /\ phase \in {"serve", "drain"}
          /\ holding' = holding + 1 /\ UNCHANGED inFlight
       \/ holding > 0 /\ holding' = holding - 1 /\ UNCHANGED inFlight
       \/ holding < inFlight /\ inFlight' = inFlight - 1 /\ UNCHANGED holding
    /\ UNCHANGED <<env, applied, phase, next, cancelled, listener, expired, worker,
                   left, unrecorded>>

-----------------------------------------------------------------------------
(* Worker.Start *)

WorkerGoto(pc, n) ==
    /\ worker' = pc
    /\ left' = n
    /\ UNCHANGED <<env, applied, phase, next, cancelled, listener, calls, expired>>

\* time.NewTicker panics on an interval that is not positive, and a panic in
\* any goroutine ends the process.
StartTicker ==
    /\ worker = "starting"
    /\ \/ settings.PollInterval > 0 /\ WorkerGoto("poll", 0) /\ UNCHANGED unrecorded
       \/ settings.PollInterval <= 0 /\ Exit("panicked") /\ UNCHANGED applied

FaultyPoll ==      \* the listing is given a context of its own
    /\ worker = "poll"
    /\ UNCHANGED unrecorded
    /\ \E n \in 0..MaxDue :
           /\ n <= settings.BatchSize
           /\ WorkerGoto(IF n = 0 THEN "wait" ELSE "execute", n)

\* Worker.run up to the listing of ProcessDueExecutions; none is listed by a
\* statement whose context is done.
Poll ==
    /\ worker = "poll"
    /\ UNCHANGED unrecorded
    /\ \E n \in 0..MaxDue :
           /\ n <= settings.BatchSize
           /\ cancelled => n = 0
           /\ WorkerGoto(IF n = 0 THEN "wait" ELSE "execute", n)

\* Execute does not look at its context.
Execute ==
    /\ worker = "execute"
    /\ unrecorded' = unrecorded + 1
    /\ WorkerGoto("record", left - 1)

FaultyRecord ==      \* one request too many is taken from the batch
    /\ worker = "record"
    /\ unrecorded' = IF cancelled THEN unrecorded ELSE unrecorded - 1
    /\ WorkerGoto("execute", left)

\* applyExecutionResult: its error is dropped and the loop goes on.
Record ==
    /\ worker = "record"
    /\ unrecorded' = IF cancelled THEN unrecorded ELSE unrecorded - 1
    /\ WorkerGoto(IF left = 0 THEN "wait" ELSE "execute", left)

\* The select of Start: with both channels ready it takes either.
Wait ==
    /\ worker = "wait"
    /\ UNCHANGED unrecorded
    /\ \/ WorkerGoto("poll", 0)
       \/ cancelled /\ WorkerGoto("none", 0)

WorkerStep == StartTicker \/ Poll \/ Execute \/ Record \/ Wait

-----------------------------------------------------------------------------
(* What happens to a process *)

\* SIGINT or SIGTERM, once NotifyContext has been called
Signal ==
    /\ phase \notin Over \cup {"load"}
    /\ ~cancelled
    /\ cancelled' = TRUE
    /\ UNCHANGED <<env, applied, phase, next, listener, calls, expired, worker,
                   left, unrecorded>>

Kill == phase \notin Over /\ Exit("killed") /\ UNCHANGED applied

Restart ==
    /\ phase \in Over
    /\ phase' = "load"
    /\ next' = 1
    /\ cancelled' = FALSE
    /\ listener' = "new"
    /\ expired' = FALSE
    /\ unrecorded' = 0
    /\ UNCHANGED <<env, applied, calls, worker, left>>

Next == MainStep \/ Expire \/ Listen \/ Call \/ WorkerStep \/ Signal \/ Kill \/ Restart

Spec == Init /\ [][Next]_vars

\* main's own statements end, and time passes for Shutdown: pings and migrations
\* answer or fail, and pool.Close returns once it may.  Nothing is assumed of
\* calls, of the database under them, or of the worker.
FairSpec == Spec /\ WF_vars(MainStep) /\ WF_vars(Expire)

-----------------------------------------------------------------------------
(* Properties. *)

\* The variables have their types.
ProcessTypeOK ==
    /\ env \in Environments
    /\ applied \subseteq 1..Files
    /\ phase \in Phases
    /\ next \in 1..(Files + 1)
    /\ cancelled \in BOOLEAN
    /\ listener \in {"new", "open", "shut"}
    /\ inFlight \in 0..MaxCalls
    /\ holding \in 0..inFlight
    /\ expired \in BOOLEAN
    /\ worker \in {"none", "starting", "poll", "execute", "record", "wait"}
    /\ left \in 0..MaxDue
    /\ unrecorded \in Nat

\* "Startup applies the embedded SQL migration set automatically" (runbook):
\* no call is taken and no worker runs before the schema is complete, however
\* often a start-up was cut off or failed in the middle of it.
ServesMigrated ==
    listener = "open" \/ inFlight > 0 \/ worker # "none" => applied = 1..Files

\* A process that serves was given settings the other modules can assume: Load
\* and the constructors let no others through.
ServesSoundly == worker # "none" => Sound(settings)

\* Calls that have begun are not cut off: main takes the pool from under them,
\* or ends, only after the ten seconds of Shutdown.  Without that, they are lost
\* only with the whole process, killed or brought down by the worker's panic.
CallsCutOffForCause ==
    [][phase' # phase /\ phase' \in {"close", "flush"} \cup Over /\ inFlight > 0
           => expired \/ phase' \in {"killed", "panicked"}]_vars

\* Nobody waits for the worker, and its loop goes on after the cancellation with
\* store calls that fail: a shutdown leaves at most the batch in hand executed
\* without a record, to be provisioned again after the restart.
UnrecordedAtMostBatch ==
    phase # "load" => unrecorded <= settings.BatchSize

\* A process that was told to stop, or whose listener failed, ends, though a
\* call may never return and the worker is in the middle of a batch, unless it
\* is at pool.Close for ever, with a call that never gives its connection back.
SignalledProcessEnds ==
    cancelled ~> (phase \in Over \/ [](At("close") /\ holding > 0))

=============================================================================
