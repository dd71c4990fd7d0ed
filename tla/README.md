# Formal models of the crypto lakehouse

TLA+ modules, TLC configurations and TLAPS proofs for the Rust programs under
`rustapps/`. The pipeline takes trades from an exchange's websocket to an
Apache Iceberg table:

```
exchange ws -> crypto-collector -> JetStream stream -> crypto-batcher -> Iceberg table
                                                                            ^
                                        crypto-backfill / crypto-dedup -----+
```

The heart of it is `crypto-batcher`: a process without state of its own that
reads an at-least-once stream and must put every trade into the table, once.
It is modelled in most detail. The tools that append to the same table and the
collector at the other end of the pipeline are modelled each by itself.

## 1. Inventory

| Component | State it keeps | Operations | Hard part | What makes it correct |
|---|---|---|---|---|
| Accumulator (`batcher.rs`) | rows, ack handles, dedup keys of the batch, bytes, age | `push`, `due`/`trigger_now`, `time_to_flush`, `take` | state that outlives its batch; thresholds | a handle always stands for a buffered row; batches bounded by the policy; the timer runs exactly while rows wait |
| Run loop, `flush` (`batcher.rs`) | the batch in flight | select on row / timer / signal; take, write, ack | crash between commit and ack, failed commits, lost acks | ack only what is stored; never store twice; never get stuck |
| Source (`source.rs`) | the pull's messages, the channel | pull, decode, send, ack undecodable | ack_wait running out under held rows, max_ack_pending, fetch errors | every delivery is held exactly once; everything settles |
| JetStream consumer (external) | delivered / pending / acked per message | deliver, ack, time out | redelivery in any order | – (assumption) |
| Iceberg sink (`sink.rs`) | the session context, the batch's files, attempts | `write_batch`: probe, write, commit, retry, reload | lost commit answers, errors through `?` | a batch is in the table whole or not at all when `write_batch` says so |
| Dedup probe (`sink.rs`, `schema.rs`) | – (reads the table) | `build_pruning_expr`, anti-join | the range decides what a duplicate is | pruning loses no duplicate; what a good flush drops is stored already; files of the batch's partitions only are opened |
| Chunked append, backfill, dedup rewrite (`crypto-iceberg-query`) | rows already appended | query, append in chunks, verify | a live writer beside them; a chunk that fails; repeated runs; two queries that rank ties differently | a gap is filled with new keys only and a good verdict is true; a rewritten window is exact, and as large as the audit said |
| Collector (`crypto-data`, `crypto-collector`) | websocket, its manager task, backoff | connect, read, publish, reconnect | two tasks, one of which outlives the other; unconfirmed publish | a gap in what is read ends where a connection was opened, nothing is passed over within one; the loop comes back to a live connection; managers end |
| Configuration and start-up (`config.rs`, `main.rs`, `ensure_table`, `ensure_consumer`) | the catalog's namespace and tables, the configuration of the durable consumers | read the environment; load or create the table; get, compare, update the consumer | starts that die half way; an environment that changes under a durable consumer; another process creating the same table | the consumer that runs is the one asked for and fits the policy; the batcher comes up again unless its environment must be refused |
| Trade schema (`schema.rs`) | – | casts and products of `to_record_batch`, day transform | integers at the edge of their columns | a trade is filed under its own day; the cast of the id takes no trade for another |
| Query session, CLI, maintenance script, manifests | – | – | – | not modelled, see section 8 |

How they interact: the pull task and the run loop share one bounded channel and
nothing else; the run loop owns the sink and calls it synchronously (one flush
at a time); ack handles travel with the rows through channel, accumulator and
flush, and are answered to the JetStream server only after the commit. The
table is the only state that survives the process. The backfill tool writes to
the same table through the same sink type, in a process of its own.

The hazards of the code, each with its line and the properties that would
catch it, are listed in `PROJECT.json`.

## 2. Modules

| Module | Models | Built on |
|---|---|---|
| `DedupProbe` | messages and their trades; which rows of a batch survive the anti-join with the pruned table | – |
| `Accumulator` | `struct Accumulator` | `DedupProbe` |
| `AccumulatorMC` | the accumulator alone, driven as `run` drives it | `Accumulator` |
| `TradeRow` | `to_record_batch`: the columns of the key and the partition, with their widths | – |
| `ProbeHistory`, `ProbeHistoryMC` | histories of batches down to the data files and their names, with rich data (days, exchanges, ids that come back, integers at the edge), failed flushes and restarts | `DedupProbe`, `TradeRow`, instance of `TradeLedger` |
| `ProbeHistoryProofs` | theorems about `ProbeHistory` | `ProbeHistory`, `TLAPS` |
| `Config` | `config.rs`: what an environment means, and which are refused | – |
| `Rollout`, `RolloutMC` | the start of the batcher, its init container and the tools: `ensure_table`, `ensure_consumer`, again and again | `Config` |
| `RolloutProofs` | theorems about `Rollout` | `Rollout`, `TLAPS` |
| `JetStreamSource` | the pull task of `source.rs` and the durable consumer behind it | `Accumulator` |
| `IcebergSink` | `IcebergSink::write_batch` and the catalog behind it | `Accumulator` |
| `TradeLedger` | **abstract specification**: what the batcher promises | `DedupProbe` |
| `Batcher`, `BatcherMC` | the composed process: run loop, flush, source, sink, server, clock, failures | `JetStreamSource`, `IcebergSink`, instance of `TradeLedger` |
| `BatcherProofs` | theorems about `Batcher`: what is acked, what is stored, the refinement | `Batcher`, `TLAPS` |
| `FlowProofs` | theorems about `Batcher`: the accumulator as the run loop drives it, the way of the handles | `BatcherProofs` |
| `ChunkedAppend` | `append.rs`: a query's result streamed, committed in chunks, read back | – |
| `ChunkedAppendProofs` | lemmas about `ChunkedAppend`: how an append changes the count of a range, what a run's steps keep | `ChunkedAppend`, `TLAPS` |
| `RankedRows` | the part of the tools' queries they share: the rows of a window, the first of each key | `ChunkedAppend` |
| `GapFill` | **abstract specification**: what the backfill promises | – |
| `Backfill`, `BackfillMC` | `crypto-backfill`: runs over windows, beside the batcher | `RankedRows`, instances of `DedupProbe` and `GapFill` |
| `BackfillProofs` | theorems about `Backfill` | `Backfill`, `ChunkedAppendProofs` |
| `DedupRewrite`, `DedupRewriteMC` | `crypto-dedup --insert-into`: a rewrite window by window, and the audit's count | `RankedRows` |
| `DedupRewriteProofs` | theorems about `DedupRewrite` | `DedupRewrite`, `ChunkedAppendProofs` |
| `Collector` | `the_big_loop`, its connection managers, the driver around it | – |
| `CollectorProofs` | theorems about `Collector` | `Collector`, `TLAPS` |

### Correspondence with the code

*Rows, envelopes and handles are messages.* A row in a batch, an envelope in the
channel and an ack handle are all named by the JetStream message they come from;
`Event[m]` is the trade in it, with `exchange`, `id` (symbol and trade id
together, the code never compares one without the other) and `ts`. An ack
handle identifies its message, whichever delivery it came with: that is what an
explicit ack does. Two messages may carry the same trade.

*Time.* The age of the oldest row is `none`, `young` or `old`; the step from
young to old (`Age`) may come at any moment. `ack_wait` passing is the step
`AckWait`, backoffs and sleeps are places where other tasks may step.

*Atomicity.* A step is what a task does between two awaits. `RecvRow` is the
`Row(Some)` arm up to the call of `flush`: receive, `push`, `trigger_now`.
`FlushBatch` is `take` and `write_batch` up to its first await, i.e. including
`register_batch`. Inside `write_batch`: probe (`ProbeDone`, `ProbeFails`),
data files (`FilesWritten`, `WriteFails`), commit attempts (`CommitOk`,
`CommitFails`, `CommitAnswerLost`, `CommitRefused`), backoff and reload
(`Reload`, `ReloadFails`), `Return`. Each ack of `flush` is a step of its own
(`buffer_unordered`).

*Names.* The module keeps the names of the code where it can: `rows`, `acks`,
`seenKeys`, `bytes`, `duplicates`, `firstSeen` are the fields of `Accumulator`;
`handles` is `batch.acks` in `flush`; `incoming` and `registered` are the
record batch of `deduped_batch` and its name in the session context.

*The table* is the number of copies of each message's row that the current
snapshot reads. The files of a batch are appended by one `fast_append`, all or
none, so one bit (`referenced`) says whether the table has them. A commit takes
effect at the attempt that makes it or never. The library refuses to append a
file the table references already (`CommitRefused`): that is how a retry after
a lost answer fails, and why `AppendFiles` is guarded. The sink's cached `Table`
is not modelled: the library's commit starts from what the catalog holds, and a
conflict is one way for an attempt to fail.

*Process death* (`Dies`) empties everything but the table and the server's view.
The restart is merged with it: while the process is down only `ack_wait` moves,
and it may move at any time anyway. A shutdown flushes once and exits, and the
rows still in the channel die unacked.

*Failures* are the kinds in `FaultKinds`; a behaviour has at most `MaxFaults` of
them. `early` is `ack_wait` passing for a message the process still holds,
which `effective_ack_wait` is there to prevent and a slow catalog can bring
about.

*The tools.* A table is, again, the number of copies of each row. A run of a
tool is `Begin` (the query is planned: its result is fixed by what its tables
hold then), any number of `NextBatch` (a record batch, in any order and of any
size), `ChunkCommitted` whenever a chunk is full, `StreamEnds`, a last chunk,
`EnsureVisible`. The retries of a commit are those of `IcebergSink`; of them are
left the three ways a chunk can end: committed, failed without effect, failed in
the eyes of the tool and committed all the same (`ChunkAnswerLost`, which is also
the tool's death right after a commit). `row_number()` may rank rows that tie in
any order, so a query has a set of possible results (`Firsts`), and so has the
audit of the dedup tool (`DuplicateRows`): the two are run apart and need not rank
alike. The read-back counts the rows of a range, one for each copy (`Copies`,
`Visible`), whoever wrote them. Beside the
backfill, the batcher is the pair of its probe and its commit, with time in
between.

*Files and names.* `ProbeHistory` takes a flush as one step and looks closer at
its data. A data file is a name and a set of rows; the name is the partition, the
process (the uuid that `file_name_gen` draws) and the number of the flush
(its counter). `Planned` is the scan's pruning: a file is opened if its exchange
is the one of a group of the batch and its ts bounds overlap the group's. Writing
an object replaces the one of that name, which is what `Overwritten` says and
`CommittedStays` excludes. Objects that no snapshot references are not kept.
`ToRow` is the conversion with its casts: `trade_id as i64`, `trade_time as i64`,
the product by 1000 that wraps in a release build. The dedup key is compared
after the cast, in the accumulator as in the table. In `ProbeHistoryMC`, `MCEvent`
is defined through `Rows` so that TLC evaluates the conversion once.

*Starts.* In `Rollout` each call of a start is a step: load the table, look for
the namespace, create it, create the table, expose it to the probe; get or create
the consumer, read its configuration, update it, get it again. Each may fail
without effect, and each that creates or updates may take effect and fail
(`AnswerLost`, `ConsumerAnswerLost`). The catalog refuses to create what is there
already. An environment maps each variable to unset, blank, a text that does not
parse, or a value; `Config` follows the helpers of `config.rs` on these four.
The environment may change (`Reconfigure`) at any time, which a container sees
when it starts next, and a rollout (`ReplacePod`) ends the pod at any point.

Two settings are refused: a required variable that is missing, and an interval
that is no duration. `BATCHER_ACK_WAIT_SECS`, `BATCHER_FETCH_EXPIRES_SECS` and
`BATCH_FLUSH_INTERVAL_SECS` all go through `seconds`, whose
`Duration::from_secs_f64` panics on a negative number and equally on NaN, on
infinity and on overflow, which parse too; in the model a negative number stands
for them all (`PanicsAsSeconds`).

The consumer's offset, its ack floor, is not part of `Rollout`: no call of a start
touches it. It belongs to the consumer's name, so a batcher whose
`BATCHER_CONSUMER` was changed begins again with the first message the stream has
(`DeliverPolicy::All`), and the dedup probe makes duplicates of what is stored.

A failing `consumer_info` counts as "no drift" (`.ok()`), so that the batcher then
runs with whatever consumer the server has. That is the step `InfoFails`, the reason
why `ReconciledConsumer` and `ConsumerFitsPolicy` speak of a batcher that is
`informed`. The ConfigMap says otherwise, see the end of section 4.

Two things the model shows in passing, which no document contradicts: a misspelt
`BATCH_DEDUP` means *false*; and the query tool and the batcher have different
defaults for `LAKEKEEPER_URI` (`crypto-iceberg-query/src/lib.rs:96`,
`crypto-batcher/src/config.rs:69`).

*The collector.* A connection is the next trade its reader gets and, once broken,
the last; `cut` is an error or end of stream that the reader sees, `silent` a
peer that is gone without a word. The channel of capacity one is `handover`.
Managers are indexed by the run of the loop that spawned them, because they
outlive it. A handshake may hang for ever (`ConnectHangs`), a publish may fail or
never be confirmed (`PublishLost`). Two variables are histories: `lost`, the trades
that were read for nothing, and `openings`, the first trade of each connection that
was opened. `Hangs` is a step that does nothing, for the states in which a hung
handshake is all there is left. The length of CONNECTION_TIMEOUT and of the backoff
is left open: `Wake` and `Start` may come at any moment.

What the collector does *not* promise is that a refresh loses nothing. When the loop
adopts a new connection it drops the one before with whatever that one has not been
read of; the trades from before the new connection's opening are then in neither. TLC
reaches this without any failure (of three trades, the first and the third are
published). No document says otherwise. `GapsEndAtOpenings` says how far such a loss
goes: a gap ends where a connection was opened, never within one, whatever fails.

## 3. The abstract specifications

`TradeLedger` has two variables, how often each message's row is in the ledger
and which messages are settled, and two actions: `Record(S)`, a set of *new*
trades is recorded, each once, all or none, and `Settle(m)`, a message is
settled because its trade is recorded (a row with its key) or it carries none.
`Batcher` implements it with `copies <- stored` and `settled <- Acked`: this is
the run property `ImplementsLedger` and the theorem `BatcherImplementsLedger`.
`ProbeHistory` implements the same ledger with its data files: a message has as
many copies as files with its row (`FilesAreALedger`, theorem
`FilesImplementLedger`). There is no ack in `ProbeHistory`, so `settled` stays empty;
that a good flush leaves each of its messages a row of its trade, told by exchange,
symbol and id before the cast, is `FlushedIsStored`.

`GapFill` is what an operator may rely on of the backfill. It is asked for a window,
adds rows the window wants whose keys the table lacks, a commit at a time, and ends
with a verdict; after the verdict it adds nothing, and a good verdict means that
nothing wanted is missing. Another writer adds rows of its own. `Backfill` implements
it with `copies <- target`, `verdict <- outcome` and as wanted rows the complete ones
among those that rank first (`ImplementsGapFill`, theorem
`BackfillImplementsGapFill`). A chunk that is committed while the tool believes
it lost is one step there: rows and verdict "err" together.

## 4. Runs

| Run | Question | Bounds | Result |
|---|---|---|---|
| `accumulator` | is the accumulator's bookkeeping right by itself? | 5 messages, one trade published twice, an empty payload; `MaxRecords` 3, `MaxBytes` 5 so that count, bytes and age all fire; at most `MaxHandles` 5 handles | holds |
| `probe_history` | does the pruned anti-join store each trade once, and leave each message of a good flush a row? are the files a ledger? does it stay in the batch's partitions? are rows filed under their day, and files never written over? | 5 trades over 2 exchanges and several days, in every order and any number of times: first and last instant of a day, an id used on both exchanges, one reused on another day, one beyond its column and one at its edge, a time that is beyond; 7-bit integers; 1 failed flush or restart | holds |
| `rollout` | does the batcher always come up, with the consumer its environment asks for? | 7 environments (3 of them refused: no NATS url, and two intervals that are no duration), 2 changes or rollouts, 2 failures, a tool beside the pod | holds |
| `batcher_safety` | is a trade ever lost or stored twice, under any failure? does the batcher implement the ledger? | 4 messages (a trade published twice, another, one undecodable), `MaxRecords` 2, 2 commit attempts, all 8 failure kinds, 3 failures | holds |
| `batcher_liveness` | does a delivery fall between the stages, or get held twice? does every message settle, even when deliveries nobody holds fill `max_ack_pending`? | the same stream and a second undecodable payload, `FetchBatch` 2, hence `MaxAckPending` 4 for 5 messages; fairness below, 2 failures, none of them `early` or under the probe | holds |
| `probe_leak` | "the loop keeps running" after a failed probe | one failure | **violated** |
| `reused_id` | an id of another day "is not a duplicate" | as `probe_history` | **violated** |
| `backfill` | do repeated, overlapping, failing runs duplicate, miss or spoil rows? do they fill gaps as `GapFill` says? does re-running bring everything in? | 8 source rows of 5 trades (exact copies, a row with a NULL that ranks before a complete one, a row filed a day off in the target, a row just behind the window), 2 windows, chunks of 2, a new trade from the batcher, 3 failures | holds |
| `backfill_beside_batcher` | "cannot create duplicates [...] because the target is live" | 3 source rows, one of whose trades the batcher also gets | **violated** |
| `dedup_rewrite` | is a rewritten window one earliest row per key, once, and as large as the audit said? what of a run half way? | 6 rows of 4 trades, 2 windows, 2 failures, the target recreated after a failure, no good run repeated | holds |
| `rewrite_rerun` | "re-running converges" | the same, the target kept | **violated** |
| `collector` | where can a gap in what is read end, does the collector come back, do managers end? | 3 trades, 2 failures (hanging handshakes and lost publishes among them), hence 3 runs of the loop | holds |

Why the bounds are enough: two rows make a batch, so a stream of three
decodable messages gives batches with company, a batch left in the accumulator
while another is committed, and a redelivered trade next to its twin. Two
commit attempts give each of a first, a middle and a last failure. The deepest
scenario the safety properties speak of needs three failures (an answer is
lost, the process dies or the retries end, the redelivery fails once more).
`MaxAckPending` follows from the other constants as in the code. It is 4 in both
runs. In `batcher_safety` that is the number of messages, and it never binds; in
`batcher_liveness` there is a fifth one, which four that a crash or a failed pull has
left behind keep from being delivered until `ack_wait` gives them back.

The backfill's source has one row for each case its query distinguishes, two
windows that overlap, and three failures, so that two chunks of one run and the
run after it can each fail. The collector's three runs of the loop give a
current manager beside two orphans; a trade read, one abandoned and one after the
opening of a connection is what a gap takes. The environments of `rollout` differ in each
setting that reaches the consumer or the table, one or a few at a time, and give an
interval of the policy and one of the pull a value that is no duration; two operations
and two failures give a start that dies half way, a change of the environment,
and a second failure while the next start repairs the first. The width of seven
bits leaves room for the days the trades need and has both casts wrap.

The properties of each run are stated above their definitions, in prose, in the
module that defines them. Each of them is shown by a mutant of the model (an
operator next to the one it replaces, marked `Mutant of`) to depend on the code.

What the violated runs show:

* `probe_leak`. `deduped_batch` registers the batch under the name `incoming`
  and deregisters it on its last line. An error in between (a catalog or object
  store read) returns through `?` past it, and from then on `register_batch`
  fails in every flush: the process logs failed commits for ever, acks nothing,
  and only a restart helps. This is why `batcher_liveness` leaves out the
  failure kind `probe`. It leaves out `early` as well, because `HeldOnce` is about
  an `ack_wait` that is long enough; that an early redelivery loses and repeats
  nothing is `batcher_safety`.
* `reused_id`. Whether a trade that reuses an id of another day is kept depends
  on whether its batch also has a row of that day: the probe reads the union of
  the ranges of all groups in the batch, and the anti-join compares no time.
* `backfill_beside_batcher`. The backfill's anti-join is read once, when its query
  is planned; a trade the batcher commits afterwards is still on the append
  list. `RerunsAreSafe` states what does hold: no duplicates as long as the
  batcher gets no trade the source table has.
* `rewrite_rerun`. The rewrite has no anti-join with its destination, so a run
  that failed after a chunk must not be run again into the same table; nothing
  in the tool notices, `ensure_visible` only asks for *at least* the rows of the
  last run. `dedup_rewrite` shows that recreating the destination is enough for a
  run that failed. A run that ended well must not be repeated either, for the same
  reason; the tool does not refuse that (`RunsOnce` is the operator's care).

Smaller disagreements that have no run: a redelivered batch has no fresh row,
hence no snapshot, where the guide says "one micro-batch = one snapshot"; and a
failed `reload` between two attempts ends the commit at once, where it says that
failures are retried `COMMIT_RETRIES` times. Both are in the model (`ProbeDone`
with nothing left to write, `ReloadFails`), and neither loses or repeats a trade.
And `batcher_config.yaml` says of the consumer that its `ack_wait` and
`max_ack_pending` "are reconciled to the values below on every start", but a start
whose `consumer_info` fails skips the comparison without a word (`InfoFails`) and
serves with the consumer of an earlier environment; the next start that gets an
answer puts it right (`ReconciledConsumer`, which is about those only).

The guide contradicts itself about a crash between commit and ack: its first
bullet on delivery semantics still announces visible duplicates, the second a
no-op. The code does the latter (`StoredOnce`, theorem `NoTradeTwice`); the
comment on `BatchConfig::dedup` is outdated in the same way.

## 5. Fairness

`FairSpec` assumes weak fairness of four things, and of no failure:

* `RunLoop`: the task of `run` is scheduled by tokio while it can step; the
  sink's awaits return in the end (their failures are separate steps);
* `PullRuns`: the same for the pull task, and the server answers its pulls;
* `IntervalPasses`: the clock advances while rows are buffered;
* `Redeliver(m)` for each message no part of the process holds: the server's
  `ack_wait` timer fires, `max_deliver` is unlimited.

Failures are finitely many because `MaxFaults` is.

`Backfill` assumes that a started tool goes on (`ToolRuns`) and that its
*operator* runs it over each window again and again; strong fairness, because a
window can be run only while no other run is on. The collector assumes that the
driver restarts the loop, that the loop steps, and that each manager steps: its
sleep ends and so does its connect, unless the handshake hangs, which is one of
the failures: `connect_async` has no timeout. `ComesBack` names the one case in
which that keeps the collector down (`WaitsForHung`). `select!` picks among ready branches at random; the
model asks only that it picks one.

`Rollout` assumes that the pod's processes step and are restarted when they fail
(`PodStep`), which is what the kubelet does; the tool need never run.

## 6. Proofs

The proof modules prove, for all values of the constants under the assumptions
named in the modules (events have integer timestamps, thresholds are natural
numbers, failures are of the known kinds), without bound on messages, batches,
failures or retries:

| Module | Theorem | Says |
|---|---|---|
| `BatcherProofs` | `TypeCorrect` | `Spec => []TypeOK` |
| | `NoLossInductive`, `NoTradeLost`, `AcksAreCovered` | `[]NoLossInv`, and with it `[]AckedIsStored` and `[]FlushCoversHandles` |
| | `OnceInductive`, `NoTradeTwice` | with `Dedup`: `[]OnceInv`, and with it `[]StoredOnce` |
| | `BatcherImplementsLedger` | with `Dedup`: `Spec => ImplementsLedger` |
| `FlowProofs` | `BatchesFitPolicy`, `TimerIsArmed`, `HandlesAreCounted`, `HandlesStandForRows`, `AgeGrows` | the accumulator's properties, for the whole batcher |
| | `NothingIsForgotten` | `[]NoDeliveryForgotten` |
| | `DeliveriesAreHeldOnce` | without the failure kind `early`: `[]HeldOnce` |
| `ProbeHistoryProofs` | `TradesAreStoredOnce`, `ProbeDecidesAsTheTable`, `ProbeStaysInItsPartitions`, `TradesAreFiledByDay`, `CommittedFilesStay`, `FlushedTradesAreStored` | `EachTradeOnce`, `PruningLossless`, `OpensOwnPartitions`, `FiledUnderItsDay`, `CommittedStays`, `FlushedIsStored` |
| | `FilesImplementLedger` | `Spec => FilesAreALedger` |
| `RolloutProofs` | `RolloutTypes`, `ConsumerIsReconciled`, `ConsumerFits` | the safety properties of `Rollout` |
| `BackfillProofs` | `BackfillStaysNew`, `RerunsAreSafe` | with the assumptions below: `[]BackfillInv`, `[]NoDuplicates` |
| | `OnlyCompleteRowsArrive` | if the batcher's rows are complete: `[]OnlyComplete` |
| | `GoodRunsAreComplete` | if rows that tie are copies: `[]GoodRunIsComplete` |
| | `ReadBackAgrees` | `[]WrittenIsVisible`, with no assumption on the data |
| | `BackfillImplementsGapFill` | with all of the assumptions below: `Spec => ImplementsGapFill` |
| `DedupRewriteProofs` | `RunsAreWhole`, `RewriteIsExact`, `AuditIsRight` | with a fresh target, no good run repeated and disjoint windows: `[]RewriteInv`, `[]RewriteConverges`, `[]AuditPredictsRewrite` |
| | `RunsAddUp` | if, for an operator who takes both of these cares, the windows are disjoint: `[]RunAddsUp` |
| `CollectorProofs` | `CollectorTypes`, `NothingIsPassedOver` | `[]TypeOK`, `[]GapsEndAtOpenings` |

*No trade lost.* `AckedIsStored` is not inductive: the step that acks knows only
that a handle is in `handles`. `NoLossInv` adds the chain that leads from a
handle to the table. A handle in the accumulator is covered by a buffered row
with its key (`HandlesCovered`; the repeat of a key is, because the seen keys are
those of buffered rows, `SeenKeysBuffered`). `take` hands handles and rows over
together (`HandlesInBatch`). Once the probe has run, each row of the batch is to
be written or has a twin in the table (`WrittenOrFound`), and once the files are
referenced the rows to be written are in the table (`ReferencedIsStored`). A
batch reaches phase `ok` only with its files referenced or with nothing to
write, and rows never leave the table. This needs no assumption about `Dedup`.

*No trade twice.* `OnceInv`: the rows of a batch have distinct keys (because every
buffered key is among the seen keys, `RowKeysSeen`), hence so do the rows to be
written, and from the probe to the commit none of them is in the table under the
same trade (`FreshIsNew`). The latter is where the pruning matters: the lemma
`SurvivorIsNew` shows that the probe's range always includes the rows of the
batch itself, so an equal trade in the table is never pruned away. With
`BATCH_DEDUP=false` two copies of a trade in one batch survive the anti-join
together, so `Dedup` is assumed.

*The flow.* `AccInv` joins the accumulator's properties with what the run loop adds:
while a batch is in flight nothing is buffered (`FlushHasTaken`), and at its
select the loop leaves no batch that has reached a size (`NoneReached`). Without
the latter a push could pass the policy. `CleanInv` says that until the first
failure the stages between delivery and ack hand every message on.
`HeldOnceInv` says that the three queues have no repeats and share no message with
one another or with the handles of the flush, and that all they hold is pending
at the server; sizes then add up by `DisjointCardinality`. It needs that an ack
goes to a message that is held nowhere else, and that the server redelivers only
what nobody holds, which is what leaving out `early` means.

*The table over histories.* `HistoryInv`: the rows of a file are of the partition in
its name; no name is ahead of the generator (`NameGiven`), so what a flush writes
is new in name; the rows of a batch have distinct keys; each trade is in one file
once. The step that matters is `OpenedCoverBatch`: the files a batch opens include
every file that has one of its own trades. `ProbeStaysInItsPartitions` rests on
`\div` being monotonic, `TradesAreFiledByDay` on its being the same in a unit 1000
times smaller, and on casts that are the identity for times that fit the column.
`FlushedTradesAreStored` follows a message through a flush: it survives and is in the
file of its partition, whose name is new, or it was dropped for a row of a file that
stays; that row is of the same trade, because the cast of the id is one to one on 64
bits (`KeyTellsTrade`). In the refinement a flush with survivors is one `Record` of them
(`WriteIsRecord`), everything else stutters; a row being in one file at most, its
number of copies is zero or one (`RowIsInOneFile`).

*The rollout.* `RolloutInv` adds to the properties what each stage of a start knows: the
table it opens is one of some environment; the configuration the batcher holds
comes from an environment it accepts, hence has its types (`ReadIsTyped`); before
it has read the consumer's configuration it is not `informed`; after the update
the server has what is wanted. The assumption on environments (`EnvAssumption`) is
that what parses as a number is one.

*Refinement.* Each step that changes `stored` or `Acked` is classified: an append
maps to `Record` of the rows to be written, an ack to `Settle`, everything else
leaves the ledger unchanged.

*The backfill.* `BackfillProofs` proves `RerunsAreSafe` (no duplicates) from
`BackfillInv`, for any tables, windows, margin, chunk size and number of
failures, under three assumptions on the data, which the run `backfill` meets:

* `KeysAreLocal`: the rows of one trade are within the margin of one another (the
  lemma `MissingIsNew` needs it: this is the margin at work);
* `LiveIsNew`: the batcher gets no trade the source table has, and the rows of a
  trade agree on its time (the lemma `SurvivorsAreNew` needs the latter);
* the target has no duplicates to begin with.

`NoDuplicates` alone is not inductive: a commit preserves it only if what is
committed is new. `BackfillInv` says that of everything that waits for a commit,
in the tool (`ToCommitIsNew`) and in the batcher (`LiveIsPending`), from the read
of the table on.

`GoodRunIsComplete` follows from `RunInv`: the rows that ranked first when the run's
query was planned are in the target or still to be committed, the target only
grows, and a run reaches its verification with nothing left. That an audit
afterwards, which may rank rows that tie differently, has nothing to append needs
`TiesAgree`: the rows that tie are copies, as in the legacy table.

*The read-back.* `CountInv`: what a run has counted is at most what its window shows.
Two lemmas about any append carry it (`ChunkedAppendProofs`): the copies of a range
are finitely many (`CopiesAreFinite`), and an append of the rows T adds to them the
number of rows of T in the range (`AppendCount`). That a chunk lies wholly in the
window comes from `RunInv`. So `ensure_visible` can refuse a run only for a fault of
the table, whatever the batcher adds meanwhile.

*The gaps.* The initial states map to each other and each step of `Backfill` to one
of `GapFill` or a stutter (`GapFillStep`): a committed chunk and a chunk whose answer
is lost to `Fill` (`CommitIsAdd`: what waits for a commit has new keys, by
`BackfillInv`, and is wanted, by `RunInv`), the batcher's commit to `AddLive`, the start
of a run to `Ask`, its end to `Report`. A good report needs that nothing wanted is
missing at that moment (`WantedHasArrived`).

*The rewrite.* `RewriteConverges` is not inductive: it says nothing of the run that will
make the next window rewritten. `RewriteInv` divides the windows in three. One that is
rewritten holds exactly a result of its query; the one of the current run holds
what the run does not, the two are disjoint and together one result (`RunIsWhole`);
any other is empty unless the last run failed (`RestIsEmpty`). A chunk moves rows from
one part to the other, and the counts follow by `AppendCount`. Three assumptions are
the operator's business, for the tool checks none of them: after a run that failed the
destination is recreated (`FreshTarget`; without it the run `rewrite_rerun` refutes the
property), a run that ended well is not repeated over the same window (`RunsOnce`), and
no row is of two windows (`WindowsAreDisjoint`, which `DedupRewriteMC` also states and
TLC evaluates). A fourth is built into the model: the source is a constant, so it does
not change between the audit and the rewrite, or between two chunks. `AuditIsRight` adds that all
results of a query have the size of the set of keys (`ResultsAreAsLarge`), and that of
rows stored once there are as many copies as rows (`OnceCount`). What a run counts and
holds (`SumInv`, behind `RunsAddUp`) does not depend on what was in the destination.

*The collector.* `GapsEndAtOpenings` is about the past, which the loop's next step may
extend wherever its connection stands. `CollectorInv` says where that is: the next trade
of the connection being read follows one that was read or begins a connection
(`MayComeNext`), and a connection that is not read yet, in the channel or with any of the
managers, is still where it was opened (`IsUnread`). So adopting a connection that
somebody has begun to read would break it, and so would reading on past a trade without
a publish. No assumption on failures is needed.

TLC checks the invariants used (`NoLossInv`, `OnceInv`, `TypeOK`, `BackfillInv`,
`RewriteInv`) in the runs `batcher_safety`, `backfill` and `dedup_rewrite`.

Two theorems have no run of their own: `HandlesCovered` is a conjunct of `NoLossInv`, and of
`CommittedStays` the runs check what it is for, that nothing leaves the ledger
(`FilesAreALedger`).

Every safety property of the passing runs, each action property and each refinement
among them has a theorem. Only model-checked is liveness: `EverythingSettles`, `Converges`,
`ComesBack`, `OrphansEnd` and `ComesUp`; fairness is beyond the prover.

## 7. Plan

1. (done) accumulator, probe, source, sink, batcher, ledger; safety, refinement
   and liveness; the proofs above.
2. (done) the chunked append, the backfill beside the batcher with its theorem,
   the dedup rewrite and its rerun.
3. (done) the collector by itself, with lost publishes and hanging handshakes.
4. (done) the widths of the record batch, the data files and their names.
5. (done) configuration, start-up and the reconciliation of the consumer.
6. (done) proofs of the safety properties of all of these.
7. (done) the count of a table's rows as the size of a set, so that the read-back, the
   rewrite and the audit can be proved about; the backfill as a filling of gaps;
   the data files as a ledger.

Left: the composition of the collector with the batcher's stream (what a lost
publish costs the table is what it costs the stream, so the composition would
add states and no question).

## 8. Not modelled

* Prices, quantities and flags of a trade, file sizes and the rolling of large
  files, compression: nothing the properties tell apart.
* `Stats`, `ProbeStats`, logging.
* Argument parsing, and of the configuration the endpoints and credentials (only
  whether the required ones are there).
* The overflow of the commit backoff for `COMMIT_RETRIES` in the sixties. A commit
  takes effect at its attempt or never: one whose answer is lost may have landed,
  but none lands after the retry that follows it. That is an assumption on the
  catalog, which is not in this repository.
* The table maintenance job: a list of calls to Spark procedures.
* Of the collector, the decoding of a trade and the length of the backoff; a
  publish that fails or is never confirmed is the step `PublishLost`, which no
  property can undo.
* Of the tools, `--explain`, the audit counters other than `rows_to_append` and `duplicate_rows`, and
  the defaults of the projection, which cannot fire.
* The query engine's session set-up and printing; manifests, CI, the test stack.
* Replicas of the batcher: the deployment runs one. Another committer shows only
  as a failed attempt.
