------------------------------ MODULE MCProcess ------------------------------
(***************************************************************************)
(* Environments that differ where Load, the constructors or the ticker do  *)
(* something with the value; two migrations; two due requests too many for *)
(* the smallest batch.                                                     *)
(***************************************************************************)
EXTENDS Process

MCNames == {"reviewer-1", "review-workflow", "url"}

MCEnvironments ==
    [DATABASE_URL                : {Unset, "url"},
     DEFAULT_REVIEWER_ID         : {Unset, Blank},
     REMINDER_AFTER              : {Unset, -1},
     EXECUTION_RETRY_BASE        : {Junk},
     EXECUTION_MAX_ATTEMPTS      : {Junk, 0, 1},
     WORKER_POLL_INTERVAL        : {Unset, Junk, 0},
     WORKER_BATCH_SIZE           : {0, 1, 2},
     OTEL_ENABLED                : {Unset, TRUE},
     OTEL_SERVICE_NAME           : {Unset},
     OTEL_EXPORTER_OTLP_ENDPOINT : {Blank, "url"},
     OTEL_SAMPLE_RATIO           : {101, NaN}]

=============================================================================
