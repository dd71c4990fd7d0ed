------------------------------ MODULE Rollout ------------------------------
(***************************************************************************)
(* How the batcher comes up (main.rs, IcebergSink::connect, ensure_table,  *)
(* spawn_nats_source, ensure_consumer), again and again: with an           *)
(* environment that changes, beside other processes that make the same     *)
(* table, after starts that failed half way.                               *)
(*                                                                         *)
(* Three processes start.  "init" is the init container, which runs the    *)
(* batcher with --ensure-only; "batcher" is the container of the pod, run  *)
(* once init is done; "tool" is whatever else opens a table through the    *)
(* sink: crypto-backfill, crypto-dedup, or --ensure-only run by hand.      *)
(* What outlives them is in the catalog (the namespace and its tables) and *)
(* on the JetStream server (the durable consumers, by name).  A consumer   *)
(* keeps the configuration it was last given.  Its offset, the ack floor,  *)
(* is not kept here: no call of a start touches it.  It goes by the name:  *)
(* a batcher whose BATCHER_CONSUMER was changed creates a consumer of its  *)
(* own, which begins with the first message the stream has                 *)
(* (DeliverPolicy::All).                                                   *)
(***************************************************************************)
EXTENDS Config, FiniteSets

CONSTANTS
    Envs,           \* environments the pod and the tools are given
    MaxOperations,  \* bound: changes of the pod's environment, and rollouts
    MaxFailures     \* bound: failed calls and crashes

ASSUME RolloutAssumption == {MaxOperations, MaxFailures} \subseteq Nat

(* What parses as a number is one.  Only the intervals, read as floating     *)
(* point numbers, may be negative.                                           *)
ASSUME EnvAssumption ==
    \A e \in Envs :
        /\ {parse(e.BATCHER_ACK_WAIT_SECS, 0), parse(e.BATCHER_FETCH_EXPIRES_SECS, 0),
            parse(e.BATCH_FLUSH_INTERVAL_SECS, 0)} \subseteq Int
        /\ {parse(e.BATCHER_FETCH_BATCH, 0), parse(e.BATCH_MAX_RECORDS, 0),
            bytes_env(e.BATCH_MAX_BYTES, 0)} \subseteq Nat

VARIABLES
    env,        \* the ConfigMap and the Secret of the pod
    at,         \* where each process is
    table,      \* the table each process opens
    config,     \* what else the batcher has read from its environment
    informed,   \* ensure_consumer has seen what configuration the server has
    namespace,  \* the namespace exists
    tables,     \* tables of the namespace
    consumers,  \* the durable consumers of the stream
    operations,
    failures

procVars == <<at, table, config, informed>>
catalogVars == <<namespace, tables>>
vars == <<env, procVars, catalogVars, consumers, operations, failures>>

Procs == {"init", "batcher", "tool"}

Tables == {IcebergConfig(e).table : e \in Envs}
Names == {NatsConfig(e).consumer : e \in Envs}
NoConsumer == [filter |-> "none", ack_wait |-> 0, max_ack_pending |-> 0]

NotRead == [nats |-> [none |-> TRUE], batch |-> [none |-> TRUE]]

Init ==
    /\ env \in Envs
    /\ at = [p \in Procs |-> "off"]
    /\ table = [p \in Procs |-> "none"]
    /\ config = NotRead
    /\ informed = FALSE
    /\ namespace = FALSE
    /\ tables = {}
    /\ consumers = [n \in Names |-> NoConsumer]
    /\ operations = 0
    /\ failures = 0

Goes(p, phase) == at' = [at EXCEPT ![p] = phase]

-----------------------------------------------------------------------------
(* main, up to the sink.  An environment it refuses ends the process.        *)
EnvOk(p, e) == IF p = "batcher" THEN BatcherEnvOk(e) ELSE IcebergEnvOk(e)

Start(p, e) ==
    /\ at[p] = "off"
    /\ p # "tool" => e = env
    /\ p = "batcher" => at["init"] = "done"
    /\ IF EnvOk(p, e)
       THEN /\ Goes(p, "load")
            /\ table' = [table EXCEPT ![p] = IcebergConfig(e).table]
       ELSE /\ Goes(p, "failed")
            /\ UNCHANGED table
    /\ IF p = "batcher" /\ EnvOk(p, e)
       THEN /\ config' = [nats |-> NatsConfig(e), batch |-> BatchConfig(e)]
            /\ informed' = FALSE
       ELSE UNCHANGED <<config, informed>>
    /\ UNCHANGED <<env, catalogVars, consumers, operations, failures>>

-----------------------------------------------------------------------------
(* ensure_table and probe_view_provider.  The catalog refuses to create what *)
(* is there already.                                                         *)
LoadTable(p) ==
    /\ at[p] = "load"
    /\ Goes(p, IF table[p] \in tables THEN "provider" ELSE "missing")
    /\ UNCHANGED catalogVars

\* Mutant of CheckNamespace: the namespace is created without a look.
AssumeNoNamespace(p) ==
    /\ at[p] = "missing"
    /\ Goes(p, "namespace")
    /\ UNCHANGED catalogVars

CheckNamespace(p) ==
    /\ at[p] = "missing"
    /\ Goes(p, IF namespace THEN "create" ELSE "namespace")
    /\ UNCHANGED catalogVars

CreateNamespace(p) ==
    /\ at[p] = "namespace"
    /\ Goes(p, IF namespace THEN "failed" ELSE "create")
    /\ namespace' = TRUE
    /\ UNCHANGED tables

CreateTable(p) ==
    /\ at[p] = "create"
    /\ Goes(p, IF table[p] \in tables THEN "failed" ELSE "provider")
    /\ tables' = tables \union {table[p]}
    /\ UNCHANGED namespace

(* The probe's view of the table, which is there by now; with it, the sink   *)
(* is connected.                                                             *)
ExposeTable(p) ==
    /\ at[p] = "provider"
    /\ Goes(p, IF p = "batcher" THEN "consumer" ELSE "done")
    /\ UNCHANGED catalogVars

ConnectSink(p) ==
    /\ \/ LoadTable(p) \/ CheckNamespace(p) \/ CreateNamespace(p)
       \/ CreateTable(p) \/ ExposeTable(p)
    /\ UNCHANGED <<env, table, config, informed, consumers, operations, failures>>

(* The catalog creates, but its answer is lost.                              *)
AnswerLost(p) ==
    /\ \/ at[p] = "namespace" /\ namespace' = TRUE /\ UNCHANGED tables
       \/ at[p] = "create" /\ tables' = tables \union {table[p]} /\ UNCHANGED namespace
    /\ Goes(p, "failed")

-----------------------------------------------------------------------------
(* ensure_consumer *)

\* Mutant of effective_ack_wait: the operator's setting is left alone.
configured_ack_wait(configured, flush_interval) == configured

effective_ack_wait(configured, flush_interval) ==
    IF configured < 4 * flush_interval + 10 THEN 4 * flush_interval + 10 ELSE configured

max_ack_pending(c) ==
    IF 2 * c.batch.max_records > 2 * c.nats.fetch_batch
    THEN 2 * c.batch.max_records ELSE 2 * c.nats.fetch_batch

(* The consumer configuration the batcher asks for.                          *)
Wanted ==
    [filter          |-> config.nats.subject_filter,
     ack_wait        |-> effective_ack_wait(config.nats.ack_wait, config.batch.flush_interval),
     max_ack_pending |-> max_ack_pending(config)]

Name == config.nats.consumer

(* get_or_create_consumer: one that is there keeps its configuration.        *)
GetOrCreateConsumer ==
    /\ at["batcher"] = "consumer"
    /\ Goes("batcher", "info")
    /\ consumers' = [consumers EXCEPT ![Name] = IF @ = NoConsumer THEN Wanted ELSE @]
    /\ UNCHANGED informed

\* Mutant of ReadConsumerInfo: the filter is not compared.
CompareWithoutFilter ==
    /\ at["batcher"] = "info"
    /\ informed' = TRUE
    /\ Goes("batcher",
            IF [consumers[Name] EXCEPT !.filter = Wanted.filter] = Wanted THEN "running" ELSE "update")
    /\ UNCHANGED consumers

(* consumer_info, and the comparison with what is wanted.                    *)
ReadConsumerInfo ==
    /\ at["batcher"] = "info"
    /\ informed' = TRUE
    /\ Goes("batcher", IF consumers[Name] = Wanted THEN "running" ELSE "update")
    /\ UNCHANGED consumers

UpdateConsumer ==
    /\ at["batcher"] = "update"
    /\ Goes("batcher", "reload")
    /\ consumers' = [consumers EXCEPT ![Name] = Wanted]
    /\ UNCHANGED informed

(* get_consumer; from here on the pull task and the run loop work.           *)
ReloadConsumer ==
    /\ at["batcher"] = "reload"
    /\ Goes("batcher", "running")
    /\ UNCHANGED <<informed, consumers>>

EnsureConsumer ==
    /\ GetOrCreateConsumer \/ ReadConsumerInfo \/ UpdateConsumer \/ ReloadConsumer
    /\ UNCHANGED <<env, table, config, catalogVars, operations, failures>>

(* The consumer is created or updated, but the answer is lost.               *)
ConsumerAnswerLost ==
    /\ \/ at["batcher"] = "consumer" /\ consumers[Name] = NoConsumer
       \/ at["batcher"] = "update"
    /\ Goes("batcher", "failed")
    /\ consumers' = [consumers EXCEPT ![Name] = Wanted]

(* consumer_info fails: `.ok()` makes that None, and the start goes on with  *)
(* whatever configuration the server has.                                    *)
InfoFails ==
    /\ at["batcher"] = "info"
    /\ Goes("batcher", "running")

-----------------------------------------------------------------------------
(* Around the processes. *)

Failure ==
    /\ failures < MaxFailures
    /\ failures' = failures + 1

Starting == {"load", "missing", "namespace", "create", "provider", "consumer", "update", "reload"}

(* A call of a start fails, or the process dies.                             *)
Fails(p) ==
    /\ at[p] \in Starting \union {"info", "running"}
    /\ Goes(p, "failed")

StartFails ==
    /\ Failure
    /\ \/ \E p \in Procs : AnswerLost(p) /\ UNCHANGED <<table, config, informed, consumers>>
       \/ ConsumerAnswerLost /\ UNCHANGED <<table, config, informed, catalogVars>>
       \/ InfoFails /\ UNCHANGED <<table, config, informed, consumers, catalogVars>>
       \/ \E p \in Procs : Fails(p) /\ UNCHANGED <<table, config, informed, consumers, catalogVars>>
    /\ UNCHANGED <<env, operations>>

(* The kubelet starts a container again, an operator a tool.                 *)
Restart(p) ==
    /\ at[p] = "failed" \/ (p = "tool" /\ at[p] = "done")
    /\ Goes(p, "off")
    /\ UNCHANGED <<env, table, config, informed, catalogVars, consumers, operations, failures>>

(* The ConfigMap is changed, under a pod that may restart any time later.    *)
Reconfigure ==
    /\ operations < MaxOperations
    /\ operations' = operations + 1
    /\ env' \in Envs \ {env}
    /\ UNCHANGED <<procVars, catalogVars, consumers, failures>>

(* A rollout (Recreate): the pod ends before the next one starts.            *)
ReplacePod ==
    /\ operations < MaxOperations
    /\ operations' = operations + 1
    /\ at' = [at EXCEPT !["init"] = "off", !["batcher"] = "off"]
    /\ UNCHANGED <<env, table, config, informed, catalogVars, consumers, failures>>

PodStep ==
    \/ \E p \in {"init", "batcher"} : Start(p, env) \/ ConnectSink(p) \/ Restart(p)
    \/ EnsureConsumer

Next ==
    \/ PodStep
    \/ (\E e \in Envs : Start("tool", e)) \/ ConnectSink("tool") \/ Restart("tool")
    \/ StartFails
    \/ Reconfigure \/ ReplacePod

Spec == Init /\ [][Next]_vars

(* The pod's processes run and are restarted; no operation has to happen.    *)
FairSpec == Spec /\ WF_vars(PodStep)

-----------------------------------------------------------------------------
Phases == Starting \union {"off", "failed", "info", "running", "done"}

(* Every variable has its type.  In particular no process starts with an     *)
(* interval that is no duration, whatever its environment says.              *)
TypeOK ==
    /\ env \in Envs
    /\ at \in [Procs -> Phases]
    /\ table \in [Procs -> Tables \union {"none"}]
    /\ config # NotRead =>
        /\ {config.nats.ack_wait, config.nats.fetch_batch, config.nats.fetch_expires} \subseteq Nat
        /\ {config.batch.max_records, config.batch.max_bytes} \subseteq Nat
        /\ config.batch.flush_interval \in Nat
        /\ config.batch.dedup \in BOOLEAN
    /\ informed \in BOOLEAN
    /\ namespace \in BOOLEAN
    /\ tables \subseteq Tables
    /\ DOMAIN consumers = Names
    /\ operations \in 0 .. MaxOperations
    /\ failures \in 0 .. MaxFailures

(* A batcher that runs, and has been told what the server has, runs with the *)
(* consumer configuration of its own environment: whatever it was created    *)
(* with, by an earlier environment or by a start that died half way, the     *)
(* drift is reconciled.                                                      *)
ReconciledConsumer ==
    at["batcher"] = "running" /\ informed => consumers[Name] = Wanted

(* The consumer then fits the batching policy: ack_wait is well above the    *)
(* time a row is held, and max_ack_pending leaves room for a full batch in   *)
(* the buffer and a full channel behind it.                                  *)
ConsumerFitsPolicy ==
    at["batcher"] = "running" /\ informed =>
        /\ consumers[Name].ack_wait >= 4 * config.batch.flush_interval + 10
        /\ consumers[Name].max_ack_pending >= 2 * config.batch.max_records

(* Unless its environment is one it must refuse, the batcher comes up again  *)
(* after every failed start, crash and rollout: what a start that died half  *)
(* way leaves behind (a namespace without a table, a table, a consumer), and *)
(* what a tool made at the same time, never keeps the next one from running. *)
ComesUp == []<>(at["batcher"] = "running" \/ ~BatcherEnvOk(env))

=============================================================================
