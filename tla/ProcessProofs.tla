---------------------------- MODULE ProcessProofs ----------------------------
(***************************************************************************)
(* Proofs about the settings and the life of a process, for every set of   *)
(* environments, number of migrations and batch.                           *)
(***************************************************************************)
EXTENDS Process, TLAPS

\* The constructors fill in what is missing of a configuration of the right type:
\* NewWorker never keeps a batch size that is not positive.
LEMMA SettingsSound ==
    ASSUME NEW cfg, cfg.DefaultReviewerID \in Names \cup {Blank},
           cfg.ReminderAfter \in Int, cfg.ExecutionRetryBase \in Int,
           cfg.WorkerPollInterval \in Int, cfg.WorkerBatchSize \in Int
    PROVE  /\ Settings(cfg).BatchSize \in Nat \ {0}
           /\ cfg.ExecutionMaxAttempts \in Nat \ {0} => Sound(Settings(cfg))
<1>1. TrimSpace(cfg.DefaultReviewerID) \in Names \cup {""}
    BY ValuesAssumption DEF TrimSpace
<1>2. /\ Settings(cfg).DefaultReviewer = TrimSpace(cfg.DefaultReviewerID)
      /\ Settings(cfg).ReminderAfter = cfg.ReminderAfter
      /\ Settings(cfg).RetryBase = cfg.ExecutionRetryBase
      /\ Settings(cfg).MaxAttempts = cfg.ExecutionMaxAttempts
      /\ Settings(cfg).PollInterval = cfg.WorkerPollInterval
      /\ Settings(cfg).BatchSize = IF cfg.WorkerBatchSize <= 0 THEN 25
                                   ELSE cfg.WorkerBatchSize
    BY DEF Settings
<1>3. Settings(cfg).BatchSize \in Nat \ {0}
    BY <1>2
<1> QED
    BY <1>1, <1>2, <1>3 DEF Sound

\* Load reads every variable as a value of its type.
LEMMA LoadTyped ==
    ASSUME NEW e \in Environment
    PROVE  /\ Load(e).DefaultReviewerID \in Names \cup {Blank}
           /\ Load(e).ReminderAfter \in Int
           /\ Load(e).ExecutionRetryBase \in Int
           /\ Load(e).ExecutionMaxAttempts \in Int
           /\ Load(e).WorkerPollInterval \in Int
           /\ Load(e).WorkerBatchSize \in Int
<1>1. /\ e.DEFAULT_REVIEWER_ID \in Strings
      /\ e.REMINDER_AFTER \in Int \cup {Unset, Junk}
      /\ e.EXECUTION_RETRY_BASE \in Int \cup {Unset, Junk}
      /\ e.EXECUTION_MAX_ATTEMPTS \in Int \cup {Unset, Junk}
      /\ e.WORKER_POLL_INTERVAL \in Int \cup {Unset, Junk}
      /\ e.WORKER_BATCH_SIZE \in Int \cup {Unset, Junk}
    BY DEF Environment
<1>2. getEnv(e.DEFAULT_REVIEWER_ID, "reviewer-1") \in Names \cup {Blank}
    BY <1>1, ValuesAssumption DEF getEnv, Strings
<1>3. /\ Parsed(e.REMINDER_AFTER, 1800) \in Int
      /\ Parsed(e.EXECUTION_RETRY_BASE, 15) \in Int
      /\ Parsed(e.EXECUTION_MAX_ATTEMPTS, 3) \in Int
      /\ Parsed(e.WORKER_POLL_INTERVAL, 10) \in Int
      /\ Parsed(e.WORKER_BATCH_SIZE, 25) \in Int
    BY <1>1 DEF Parsed
<1> QED
    BY <1>2, <1>3 DEF Load

\* Whatever the environment holds, settings that Load accepts are settings the
\* modules of the workflow assume (config.Load, NewService, NewWorker): their
\* theorems hold of every server that comes up.
THEOREM AcceptedIsSound ==
    \A e \in Environment : Accepts(Load(e)) => Sound(Settings(Load(e)))
<1> SUFFICES ASSUME NEW e \in Environment, Accepts(Load(e))
             PROVE  Sound(Settings(Load(e)))
    OBVIOUS
<1> DEFINE cfg == Load(e)
<1>1. cfg.ExecutionMaxAttempts > 0
    BY Zenon DEF Accepts
<1>2. /\ cfg.DefaultReviewerID \in Names \cup {Blank}
      /\ cfg.ReminderAfter \in Int
      /\ cfg.ExecutionRetryBase \in Int
      /\ cfg.ExecutionMaxAttempts \in Int
      /\ cfg.WorkerPollInterval \in Int
      /\ cfg.WorkerBatchSize \in Int
    BY LoadTyped
<1> HIDE DEF cfg
<1>3. cfg.ExecutionMaxAttempts \in Nat \ {0}
    BY <1>1, <1>2
<1>4. Sound(Settings(cfg))
    BY <1>2, <1>3, SettingsSound
<1> QED
    BY <1>4 DEF cfg

\* The settings of a process, accepted or not.
LEMMA ProcessSettings ==
    ASSUME env \in Environments
    PROVE  /\ settings.BatchSize \in Nat \ {0}
           /\ Accepts(Load(env)) => Sound(settings)
<1>1. env \in Environment
    BY ProcessAssumption
<1> DEFINE cfg == Load(env)
<1>2. /\ cfg.DefaultReviewerID \in Names \cup {Blank}
      /\ cfg.ReminderAfter \in Int
      /\ cfg.ExecutionRetryBase \in Int
      /\ cfg.WorkerPollInterval \in Int
      /\ cfg.WorkerBatchSize \in Int
    BY <1>1, LoadTyped
<1>3. Accepts(cfg) => Sound(Settings(cfg))
    BY <1>1, AcceptedIsSound
<1>4. settings = Settings(cfg)
    BY DEF settings
<1> HIDE DEF cfg
<1>5. Settings(cfg).BatchSize \in Nat \ {0}
    BY <1>2, SettingsSound
<1>6. QED
    BY <1>2, <1>3, <1>4, <1>5 DEF cfg

-----------------------------------------------------------------------------
(* The inductive invariant. *)

Starting == {"load", "tracing", "connect", "migrate"}
Up == {"serve", "drain", "close", "flush"}

\* On the way up there is nothing but main, and the files before the next one
\* are in the database; after that all of them are.
StartingInv ==
    /\ phase \in Starting => worker = "none" /\ inFlight = 0 /\ left = 0 /\ unrecorded = 0
    /\ phase \in {"load", "tracing", "connect"} => next = 1
    /\ phase = "migrate" => 1..(next - 1) \subseteq applied
    /\ phase \in Up => applied = 1..Files
    /\ phase \notin Over \cup {"load"} => Accepts(Load(env))

\* Calls and the worker live while main is up, calls come in only before the
\* shutdown, and main leaves one behind only when Shutdown's time was over.
RunningInv ==
    /\ worker # "none" \/ inFlight > 0 => phase \in Up
    /\ listener = "open" => phase = "serve"
    /\ phase \in {"close", "flush"} /\ inFlight > 0 => expired

\* What the worker still has in hand, and what of it is recorded.
WorkerInv ==
    /\ worker = "execute" => left > 0
    /\ worker \notin {"execute", "record"} => left = 0
    /\ ~cancelled /\ worker \in {"starting", "poll", "execute", "wait"} => unrecorded = 0
    /\ ~cancelled /\ worker = "record" => unrecorded = 1
    /\ worker = "record" => unrecorded > 0
    /\ unrecorded + left <= settings.BatchSize

ProcessInv ==
    /\ ProcessTypeOK
    /\ StartingInv
    /\ RunningInv
    /\ WorkerInv

LEMMA InitInv == Init => ProcessInv
<1> SUFFICES ASSUME Init PROVE ProcessInv
    OBVIOUS
<1>1. settings.BatchSize \in Nat \ {0}
    BY ProcessSettings DEF Init
<1>2. ProcessTypeOK
  <2>1. env \in Environments /\ applied \subseteq 1..Files /\ phase \in Phases
      BY DEF Init, Phases
  <2>2. cancelled \in BOOLEAN /\ expired \in BOOLEAN
      BY DEF Init
  <2>3. /\ next \in 1..(Files + 1) /\ inFlight \in 0..MaxCalls /\ holding \in 0..inFlight
        /\ left \in 0..MaxDue /\ unrecorded \in Nat
      BY ProcessAssumption DEF Init
  <2>4. listener \in {"new", "open", "shut"} /\ worker \in {"none", "starting", "poll", "execute", "record", "wait"}
      BY DEF Init
  <2> QED
      BY <2>1, <2>2, <2>3, <2>4 DEF ProcessTypeOK
<1>3. StartingInv
    BY DEF Init, StartingInv, Starting, Up, Over
<1>4. RunningInv
    BY DEF Init, RunningInv
<1>5. WorkerInv
    BY <1>1 DEF Init, WorkerInv
<1> QED
    BY <1>2, <1>3, <1>4, <1>5 DEF ProcessInv

\* The settings never change while a process, or the next one, runs.
LEMMA SettingsKept ==
    ASSUME ProcessInv, [Next]_vars
    PROVE  env' = env /\ settings' = settings
<1>1. env' = env
    BY Zenon DEF Next, MainStep, WorkerStep, vars, Exit, Goto, WorkerGoto, LoadConfig,
        Setup, Connect, Migrate, Serve, BeginShutdown, Drain, Close, Flush, Expire, Listen,
        Call, StartTicker, Poll, Execute, Record, Wait, Signal, Kill, Restart
<1> QED
    BY <1>1 DEF settings

\* Every step keeps the invariant.
LEMMA StepInv == ProcessInv /\ [Next]_vars => ProcessInv'
<1> SUFFICES ASSUME ProcessInv, [Next]_vars
             PROVE  ProcessInv'
    OBVIOUS
<1>a. /\ env' = env /\ settings' = settings
      /\ settings.BatchSize \in Nat \ {0}
      /\ Files \in Nat /\ MaxDue \in Nat /\ MaxCalls \in Nat
    BY SettingsKept, ProcessSettings, ProcessAssumption DEF ProcessInv, ProcessTypeOK
<1>b. Accepts(Load(env))' = Accepts(Load(env))
    BY <1>a
<1> USE DEF ProcessInv, ProcessTypeOK, StartingInv, RunningInv, WorkerInv, Phases, Over,
            Starting, Up, At, calls
<1>1. CASE LoadConfig
    BY <1>a, <1>b, <1>1 DEF LoadConfig, Exit, Goto
<1>2. CASE Setup
    BY <1>a, <1>b, <1>2 DEF Setup, Exit, Goto
<1>3. CASE Connect
  <2>1. ProcessTypeOK'
      BY <1>a, <1>b, <1>3 DEF Connect, Exit, Goto
  <2>2. StartingInv'
      BY <1>a, <1>b, <1>3 DEF Connect, Exit, Goto
  <2>3. RunningInv'
      BY <1>a, <1>b, <1>3 DEF Connect, Exit, Goto
  <2>4. WorkerInv'
      BY <1>a, <1>b, <1>3 DEF Connect, Exit, Goto
  <2> QED
      BY <2>1, <2>2, <2>3, <2>4
<1>4. CASE Migrate
  <2>1. ProcessTypeOK'
      <3>0. next \in 1..Files
          BY <1>a, <1>4 DEF Migrate
      <3>a. applied' \subseteq 1..Files
          BY <3>0, <1>4 DEF Migrate, Exit
      <3>b. next' \in 1..(Files + 1)
          BY <1>a, <3>0, <1>4 DEF Migrate, Exit
      <3>1. applied' \subseteq 1..Files /\ next' \in 1..(Files + 1)
          BY <3>a, <3>b
      <3>2. cancelled' \in BOOLEAN /\ expired' \in BOOLEAN
          BY <1>4 DEF Migrate, Exit
      <3> QED
          BY <1>a, <1>4, <3>1, <3>2 DEF Migrate, Exit
  <2>2. StartingInv'
      BY <1>a, <1>b, <1>4 DEF Migrate, Exit
  <2>3. RunningInv'
      BY <1>a, <1>b, <1>4 DEF Migrate, Exit
  <2>4. WorkerInv'
      BY <1>a, <1>b, <1>4 DEF Migrate, Exit
  <2> QED
      BY <2>1, <2>2, <2>3, <2>4
<1>5. CASE Serve
  <2>1. applied = 1..Files
      <3>1. next = Files + 1
          BY <1>a, <1>5 DEF Serve
      <3>2. 1..Files \subseteq applied
          BY <1>a, <1>5, <3>1 DEF Serve
      <3> QED
          BY <3>2, Zenon
  <2>2. ProcessTypeOK'
      BY <1>a, <1>b, <1>5, <2>1 DEF Serve
  <2>3. StartingInv'
      BY <1>a, <1>b, <1>5, <2>1 DEF Serve
  <2>4. RunningInv'
      BY <1>a, <1>b, <1>5, <2>1 DEF Serve
  <2>5. WorkerInv'
      BY <1>a, <1>b, <1>5, <2>1 DEF Serve
  <2> QED
      BY <2>2, <2>3, <2>4, <2>5
<1>6. CASE BeginShutdown
    BY <1>a, <1>b, <1>6 DEF BeginShutdown, Goto
<1>7. CASE Drain
  <2>1. ProcessTypeOK'
      BY <1>a, <1>b, <1>7 DEF Drain, Goto
  <2>2. StartingInv'
      BY <1>a, <1>b, <1>7 DEF Drain, Goto
  <2>3. RunningInv'
      BY <1>a, <1>b, <1>7 DEF Drain, Goto
  <2>4. WorkerInv'
      BY <1>a, <1>b, <1>7 DEF Drain, Goto
  <2> QED
      BY <2>1, <2>2, <2>3, <2>4
<1>8. CASE Close
    BY <1>a, <1>b, <1>8 DEF Close, Goto
<1>9. CASE Flush
    BY <1>a, <1>b, <1>9 DEF Flush, Exit
<1>10. CASE Listen
    BY <1>a, <1>b, <1>10 DEF Listen
<1>11. CASE Call
    BY <1>a, <1>b, <1>11 DEF Call
<1>12. CASE StartTicker
  <2>1. ProcessTypeOK'
      BY <1>a, <1>b, <1>12 DEF StartTicker, Exit, WorkerGoto
  <2>2. StartingInv'
      BY <1>a, <1>b, <1>12 DEF StartTicker, Exit, WorkerGoto
  <2>3. RunningInv'
      BY <1>a, <1>b, <1>12 DEF StartTicker, Exit, WorkerGoto
  <2>4. WorkerInv'
      BY <1>a, <1>b, <1>12 DEF StartTicker, Exit, WorkerGoto
  <2> QED
      BY <2>1, <2>2, <2>3, <2>4
<1>13. CASE Poll
    BY <1>a, <1>b, <1>13 DEF Poll, WorkerGoto
<1>14. CASE Execute
    BY <1>a, <1>b, <1>14 DEF Execute, WorkerGoto
<1>15. CASE Record
    BY <1>a, <1>b, <1>15 DEF Record, WorkerGoto
<1>16. CASE Wait
    BY <1>a, <1>b, <1>16 DEF Wait, WorkerGoto
<1>17. CASE Signal
    BY <1>a, <1>b, <1>17 DEF Signal
<1>18. CASE Kill
    BY <1>a, <1>b, <1>18 DEF Kill, Exit
<1>19. CASE Restart
  <2>1. ProcessTypeOK'
      <3>1. applied' \subseteq 1..Files /\ next' \in 1..(Files + 1)
          BY <1>a, <1>19 DEF Restart
      <3>2. cancelled' \in BOOLEAN /\ expired' \in BOOLEAN
          BY <1>19 DEF Restart
      <3> QED
          BY <1>a, <1>19, <3>1, <3>2 DEF Restart
  <2>2. StartingInv'
      BY <1>a, <1>b, <1>19 DEF Restart
  <2>3. RunningInv'
      BY <1>a, <1>b, <1>19 DEF Restart
  <2>4. WorkerInv'
      BY <1>a, <1>b, <1>19 DEF Restart
  <2> QED
      BY <2>1, <2>2, <2>3, <2>4
<1>20. CASE Expire
    BY <1>a, <1>b, <1>20 DEF Expire
<1>21. CASE UNCHANGED vars
    BY <1>a, <1>b, <1>21 DEF vars
<1> QED
    BY <1>1, <1>2, <1>3, <1>4, <1>5, <1>6, <1>7, <1>8, <1>9, <1>10, <1>11, <1>12, <1>13, <1>14, <1>15, <1>16, <1>17, <1>18, <1>19, <1>20, <1>21 DEF Next, MainStep, WorkerStep

-----------------------------------------------------------------------------
LEMMA InvHolds == Spec => []ProcessInv
<1>1. ProcessInv /\ [Next]_vars => ProcessInv'
    BY StepInv
<1> QED
    BY InitInv, <1>1, PTL DEF Spec

\* Every variable of a server process keeps its type (cmd/server/main.go).
THEOREM ProcessTypeCorrect == Spec => []ProcessTypeOK
<1>1. ProcessInv => ProcessTypeOK
    BY DEF ProcessInv
<1> QED
    BY <1>1, InvHolds, PTL

\* No call is taken and no worker runs on a schema that is not complete, for any
\* number of migrations, failures and restarts (RunMigrations before the server).
THEOREM ServesMigratedHolds == Spec => []ServesMigrated
<1>1. ProcessInv => ServesMigrated
    BY DEF ProcessInv, StartingInv, RunningInv, ServesMigrated, Up
<1> QED
    BY <1>1, InvHolds, PTL

\* What serves has sound settings (config.Load before everything else).
THEOREM ServesSoundlyHolds == Spec => []ServesSoundly
<1>1. ProcessInv => ServesSoundly
  <2> SUFFICES ASSUME ProcessInv, worker # "none"
               PROVE  Sound(settings)
      BY DEF ServesSoundly
  <2>1. Accepts(Load(env))
      BY DEF ProcessInv, StartingInv, RunningInv, Up, Over
  <2> QED
      BY <2>1, ProcessSettings DEF ProcessInv, ProcessTypeOK
<1> QED
    BY <1>1, InvHolds, PTL

\* Whatever way main goes down, a call that has begun keeps the pool and the
\* process for the ten seconds of Shutdown (the deferred calls of main).
THEOREM CallsCutOffForCauseHolds == Spec => CallsCutOffForCause
<1> DEFINE Step == phase' # phase /\ phase' \in {"close", "flush"} \cup Over /\ inFlight > 0
                       => expired \/ phase' \in {"killed", "panicked"}
<1>1. ProcessInv /\ [Next]_vars => [Step]_vars
  <2> SUFFICES ASSUME ProcessInv, Next, phase' # phase, inFlight > 0,
                      phase' \in {"close", "flush"} \cup Over
               PROVE  expired \/ phase' \in {"killed", "panicked"}
      OBVIOUS
  <2>1. phase \in Up /\ (phase \in {"close", "flush"} => expired)
      BY DEF ProcessInv, RunningInv
  <2>2. phase \in {"serve", "drain", "close", "flush"}
      BY <2>1 DEF Up
  <2>3. phase = "serve" \/ phase = "drain" \/ expired
      BY <2>1, <2>2
  <2>4. CASE phase = "serve"
      BY <2>4 DEF Next, MainStep, WorkerStep, At, Over, Goto, Exit, WorkerGoto, LoadConfig,
          Setup, Connect, Migrate, Serve, BeginShutdown, Drain, Close, Flush, Expire, Listen,
          Call, StartTicker, Poll, Execute, Record, Wait, Signal, Kill, Restart
  <2>5. CASE phase = "drain"
      BY <2>5 DEF Next, MainStep, WorkerStep, At, Over, Goto, Exit, WorkerGoto, LoadConfig,
          Setup, Connect, Migrate, Serve, BeginShutdown, Drain, Close, Flush, Expire, Listen,
          Call, StartTicker, Poll, Execute, Record, Wait, Signal, Kill, Restart
  <2> QED
      BY <2>3, <2>4, <2>5
<1>2. CallsCutOffForCause <=> [][Step]_vars
    BY DEF CallsCutOffForCause
<1> QED
    BY <1>1, <1>2, InvHolds, PTL DEF Spec

\* A shutdown leaves at most one batch executed and unrecorded, whatever the size
\* of the batch and wherever the signal hits it (ProcessDueExecutions).
THEOREM UnrecordedAtMostBatchHolds == Spec => []UnrecordedAtMostBatch
<1>1. ProcessInv => UnrecordedAtMostBatch
  <2> SUFFICES ASSUME ProcessInv
               PROVE  unrecorded <= settings.BatchSize
      BY DEF UnrecordedAtMostBatch
  <2>1. settings.BatchSize \in Nat \ {0}
      BY ProcessSettings DEF ProcessInv, ProcessTypeOK
  <2>2. unrecorded \in Nat /\ left \in Nat /\ unrecorded + left <= settings.BatchSize
      BY ProcessAssumption DEF ProcessInv, ProcessTypeOK, WorkerInv
  <2> QED
      BY <2>1, <2>2
<1> QED
    BY <1>1, InvHolds, PTL

=============================================================================
