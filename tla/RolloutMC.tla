----------------------------- MODULE RolloutMC -----------------------------
(***************************************************************************)
(* Environments a pod or a tool of this deployment is given: the deployed  *)
(* ConfigMap, edits of it that a reviewer would let through, and three     *)
(* that the batcher refuses.                                               *)
(***************************************************************************)
EXTENDS Rollout

Size(n, suffix) == Given([number |-> n, suffix |-> suffix])

Deployed ==
    [GARAGE_ACCESS_KEY          |-> Given("key"),
     GARAGE_SECRET_KEY          |-> Given("secret"),
     NATS_URL                   |-> Given("nats"),
     TRADES_SUBJECT_FILTER      |-> Given("exchange.*"),
     BATCHER_CONSUMER           |-> Given("iceberg-batcher"),
     BATCHER_ACK_WAIT_SECS      |-> Given(3900),
     BATCHER_FETCH_BATCH        |-> Given(2000),
     BATCHER_FETCH_EXPIRES_SECS |-> Given(2),
     ICEBERG_TABLE              |-> Given("trades"),
     BATCH_MAX_RECORDS          |-> Given(50000),
     BATCH_MAX_BYTES            |-> Size(64, "mib"),
     BATCH_FLUSH_INTERVAL_SECS  |-> Given(900),
     BATCH_DEDUP                |-> Given("true")]

MCEnvs ==
    {Deployed,
     \* Pulls larger than a batch; the ack_wait does not parse, and the default
     \* is far below the interval.
     [Deployed EXCEPT !.BATCHER_ACK_WAIT_SECS = Unparsable,
                      !.BATCHER_FETCH_BATCH = Given(60000),
                      !.BATCH_MAX_BYTES = Unset],
     \* A narrower filter, and nothing else.
     [Deployed EXCEPT !.TRADES_SUBJECT_FILTER = Given("exchange.binance")],
     \* The destination of a rewrite, given to a tool or to the pod; no NATS.
     [Deployed EXCEPT !.ICEBERG_TABLE = Given("trades_repaired"), !.NATS_URL = Blank],
     \* Another consumer.
     [Deployed EXCEPT !.BATCHER_CONSUMER = Given("replay"),
                      !.BATCH_FLUSH_INTERVAL_SECS = Unset, !.BATCH_DEDUP = Unparsable],
     \* No duration, of an interval of the policy and of one of the pull.
     [Deployed EXCEPT !.BATCH_FLUSH_INTERVAL_SECS = Given(-1)],
     [Deployed EXCEPT !.BATCHER_FETCH_EXPIRES_SECS = Given(-1)]}

=============================================================================
