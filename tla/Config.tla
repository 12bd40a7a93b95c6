------------------------------- MODULE Config -------------------------------
(***************************************************************************)
(* What the environment makes of the server's settings: config.Load and    *)
(* its helpers (internal/config/config.go), and what NewService and        *)
(* NewWorker do to the values they are handed.  Durations are in seconds,  *)
(* the sample ratio in per cent.                                           *)
(***************************************************************************)
EXTENDS Integers

CONSTANTS
    Names,            \* non-blank strings
    Unset,            \* a variable that is absent or empty
    Blank,            \* a string of white space
    Junk,             \* a string that does not parse
    NaN               \* what ParseFloat makes of "NaN"

ASSUME ValuesAssumption ==
    /\ {"reviewer-1", "review-workflow"} \subseteq Names
    /\ Names \subseteq STRING \ {""}
    /\ {Unset, Blank, Junk, NaN} \cap (Names \cup Int \cup BOOLEAN \cup {""}) = {}
    /\ Unset \notin {Blank, Junk, NaN}

Strings == Names \cup {Unset, Blank}

Environment ==
    [DATABASE_URL                : Strings,
     DEFAULT_REVIEWER_ID         : Strings,
     REMINDER_AFTER              : Int \cup {Unset, Junk},
     EXECUTION_RETRY_BASE        : Int \cup {Unset, Junk},
     EXECUTION_MAX_ATTEMPTS      : Int \cup {Unset, Junk},
     WORKER_POLL_INTERVAL        : Int \cup {Unset, Junk},
     WORKER_BATCH_SIZE           : Int \cup {Unset, Junk},
     OTEL_ENABLED                : BOOLEAN \cup {Unset, Junk},
     OTEL_SERVICE_NAME           : Strings,
     OTEL_EXPORTER_OTLP_ENDPOINT : Strings,
     OTEL_SAMPLE_RATIO           : Int \cup {Unset, Junk, NaN}]

getEnv(value, fallback) == IF value = Unset THEN fallback ELSE value

\* mustDuration, mustInt, mustBool and mustFloat: "must" never fails.
Parsed(value, fallback) == IF value \in {Unset, Junk} THEN fallback ELSE value

TrimSpace(value) == IF value \in {Unset, Blank} THEN "" ELSE value

Load(env) ==
    [DatabaseURL          |-> env.DATABASE_URL,
     DefaultReviewerID    |-> getEnv(env.DEFAULT_REVIEWER_ID, "reviewer-1"),
     ReminderAfter        |-> Parsed(env.REMINDER_AFTER, 1800),
     ExecutionRetryBase   |-> Parsed(env.EXECUTION_RETRY_BASE, 15),
     ExecutionMaxAttempts |-> Parsed(env.EXECUTION_MAX_ATTEMPTS, 3),
     WorkerPollInterval   |-> Parsed(env.WORKER_POLL_INTERVAL, 10),
     WorkerBatchSize      |-> Parsed(env.WORKER_BATCH_SIZE, 25),
     Enabled              |-> Parsed(env.OTEL_ENABLED, FALSE),
     ServiceName          |-> getEnv(env.OTEL_SERVICE_NAME, "review-workflow"),
     ExporterEndpoint     |-> TrimSpace(env.OTEL_EXPORTER_OTLP_ENDPOINT),
     SampleRatio          |-> Parsed(env.OTEL_SAMPLE_RATIO, 100)]

FaultyAccepts(cfg) ==      \* "<" for "<=" in the check of the attempts
    /\ cfg.DefaultReviewerID # Unset
    /\ cfg.DatabaseURL # Unset
    /\ cfg.ExecutionMaxAttempts >= 0
    /\ cfg.ServiceName # Unset
    /\ cfg.SampleRatio # NaN => cfg.SampleRatio \in 0..100
    /\ cfg.Enabled => cfg.ExporterEndpoint # ""

\* The checks at the end of Load.  A comparison with NaN is false, so that NaN
\* passes for a ratio; a name is never empty after its fallback.
Accepts(cfg) ==
    /\ cfg.DefaultReviewerID # Unset
    /\ cfg.DatabaseURL # Unset
    /\ cfg.ExecutionMaxAttempts > 0
    /\ cfg.ServiceName # Unset
    /\ cfg.SampleRatio # NaN => cfg.SampleRatio \in 0..100
    /\ cfg.Enabled => cfg.ExporterEndpoint # ""

\* NewService and NewWorker: the constants of Transitions and Worker.
Settings(cfg) ==
    [DefaultReviewer |-> TrimSpace(cfg.DefaultReviewerID),
     ReminderAfter   |-> cfg.ReminderAfter,
     RetryBase       |-> cfg.ExecutionRetryBase,
     MaxAttempts     |-> cfg.ExecutionMaxAttempts,
     PollInterval    |-> cfg.WorkerPollInterval,
     BatchSize       |-> IF cfg.WorkerBatchSize <= 0 THEN 25 ELSE cfg.WorkerBatchSize]

\* What Transitions and Worker assume of their constants, and no more: the
\* reviewer may be the empty string, durations may be negative, and the poll
\* interval is not looked at by anyone before the ticker.
Sound(settings) ==
    /\ settings.DefaultReviewer \in Names \cup {""}
    /\ settings.ReminderAfter \in Int
    /\ settings.RetryBase \in Int
    /\ settings.MaxAttempts \in Nat \ {0}
    /\ settings.PollInterval \in Int
    /\ settings.BatchSize \in Nat \ {0}

=============================================================================
