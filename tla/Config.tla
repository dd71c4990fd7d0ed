------------------------------- MODULE Config -------------------------------
(***************************************************************************)
(* The configuration of the batcher (config.rs): how the variables of the  *)
(* environment become the values the program runs with, and which          *)
(* environments it refuses to start with.                                  *)
(*                                                                         *)
(* A variable is unset, blank, given with a text that does not parse as    *)
(* what it should be, or given with a value.  A byte size is given as a    *)
(* record of a number and a suffix.  Times are in seconds.  The settings   *)
(* that only name an endpoint or a credential are not kept: of them, it    *)
(* matters whether the required ones are there.                            *)
(***************************************************************************)
EXTENDS Integers

Unset == [kind |-> "unset"]
Blank == [kind |-> "blank"]
Unparsable == [kind |-> "unparsable"]
Given(v) == [kind |-> "given", value |-> v]

(* optional: is there a text other than blanks?  required: an error if not.  *)
IsSome(x) == x.kind \in {"unparsable", "given"}

(* A text that does not parse costs a warning and counts as not given.  Any  *)
(* text is a string, so string falls back on its default in the same cases.  *)
parse(x, default) == IF x.kind = "given" THEN x.value ELSE default

\* Mutant of PanicsAsSeconds: any number is taken as a duration.
NegativeIsADuration(x) == FALSE

(* seconds: Duration::from_secs_f64 panics on a number that is no duration.  *)
(* Such are the negative ones, and of what parses as an f64 also NaN, the    *)
(* infinities and what overflows a Duration: here, a negative number stands  *)
(* for all of them.                                                          *)
PanicsAsSeconds(x) == x.kind = "given" /\ x.value < 0

ByteFactor(suffix) ==
    CASE suffix \in {"", "b"}         -> 1
      [] suffix \in {"k", "kb", "kib"} -> 1024
      [] suffix \in {"m", "mb", "mib"} -> 1024 * 1024
      [] suffix \in {"g", "gb", "gib"} -> 1024 * 1024 * 1024

(* bytes_env and parse_bytes; a suffix it does not know is Unparsable.       *)
bytes_env(x, default) ==
    IF x.kind = "given" THEN x.value.number * ByteFactor(x.value.suffix) ELSE default

(* A text that is none of these, a misspelt one included, means FALSE.       *)
bool_env(x, default) ==
    IF IsSome(x) THEN x.kind = "given" /\ x.value \in {"1", "true", "yes", "on"} ELSE default

-----------------------------------------------------------------------------
(* IcebergConfig::from_env and Config::from_env: an error, or a panic, ends  *)
(* the start of the process.                                                 *)
IcebergEnvOk(env) == IsSome(env.GARAGE_ACCESS_KEY) /\ IsSome(env.GARAGE_SECRET_KEY)

BatcherEnvOk(env) ==
    /\ IcebergEnvOk(env)
    /\ IsSome(env.NATS_URL)
    /\ ~PanicsAsSeconds(env.BATCHER_ACK_WAIT_SECS)
    /\ ~PanicsAsSeconds(env.BATCHER_FETCH_EXPIRES_SECS)
    /\ ~PanicsAsSeconds(env.BATCH_FLUSH_INTERVAL_SECS)

IcebergConfig(env) == [table |-> parse(env.ICEBERG_TABLE, "trades")]

NatsConfig(env) ==
    [subject_filter |-> parse(env.TRADES_SUBJECT_FILTER, "exchange.*"),
     consumer       |-> parse(env.BATCHER_CONSUMER, "iceberg-batcher"),
     ack_wait       |-> parse(env.BATCHER_ACK_WAIT_SECS, 300),
     fetch_batch    |-> parse(env.BATCHER_FETCH_BATCH, 2000),
     fetch_expires  |-> parse(env.BATCHER_FETCH_EXPIRES_SECS, 2)]

BatchConfig(env) ==
    [max_records    |-> parse(env.BATCH_MAX_RECORDS, 50000),
     max_bytes      |-> bytes_env(env.BATCH_MAX_BYTES, 32 * 1024 * 1024),
     flush_interval |-> parse(env.BATCH_FLUSH_INTERVAL_SECS, 30),
     dedup          |-> bool_env(env.BATCH_DEDUP, TRUE)]

=============================================================================
