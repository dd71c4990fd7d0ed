--------------------------- MODULE RolloutProofs ---------------------------
(***************************************************************************)
(* Theorems about the starts of the batcher, for any set of environments   *)
(* and any number of rollouts and failures.                                *)
(***************************************************************************)
EXTENDS Rollout, TLAPS

ReadFrom(e) == [nats |-> NatsConfig(e), batch |-> BatchConfig(e)]

(* The batcher's configuration is that of an environment it accepts.         *)
HasConfig == \E e \in Envs : BatcherEnvOk(e) /\ config = ReadFrom(e)

ConfigKept ==
    /\ config = NotRead \/ HasConfig
    /\ at["batcher"] \notin {"off", "failed"} => HasConfig

BeforeInfo == {"load", "missing", "namespace", "create", "provider", "consumer", "info"}

(* What the batcher knows of its consumer, at each step of ensure_consumer.  *)
Informed ==
    /\ at["batcher"] \in BeforeInfo => ~informed
    /\ at["batcher"] = "reload" => consumers[Name] = Wanted

(* A process that has started knows which table it opens.                    *)
TableKnown == \A p \in Procs : at[p] \notin {"off", "failed"} => table[p] \in Tables

RolloutInv == TypeOK /\ TableKnown /\ ConfigKept /\ Informed /\ ReconciledConsumer

-----------------------------------------------------------------------------
(* Whatever an accepted environment says, what is read from it has its type. *)
ConfigTyped(c) ==
    /\ {c.nats.ack_wait, c.nats.fetch_batch, c.nats.fetch_expires} \subseteq Nat
    /\ {c.batch.max_records, c.batch.max_bytes} \subseteq Nat
    /\ c.batch.flush_interval \in Nat
    /\ c.batch.dedup \in BOOLEAN

LEMMA ReadIsTyped ==
    ASSUME NEW e \in Envs, BatcherEnvOk(e)
    PROVE  ConfigTyped(ReadFrom(e)) /\ ReadFrom(e).nats.consumer \in Names
<1> DEFINE c == ReadFrom(e)
<1>2. c.nats = NatsConfig(e) /\ c.batch = BatchConfig(e)
    BY DEF ReadFrom
<1> HIDE DEF c
<1>3. c.nats.consumer \in Names
    BY <1>2 DEF Names
<1>4. {c.nats.ack_wait, c.nats.fetch_expires, c.batch.flush_interval} \subseteq Nat
    <2>1. ASSUME NEW x, NEW d \in Nat, ~PanicsAsSeconds(x), parse(x, 0) \in Int
          PROVE  parse(x, d) \in Nat
        BY <2>1 DEF PanicsAsSeconds, parse
    <2>. QED
        BY <1>2, <2>1, EnvAssumption DEF NatsConfig, BatchConfig, BatcherEnvOk
<1>5. c.nats.fetch_batch \in Nat /\ c.batch.max_records \in Nat
    <2>1. ASSUME NEW x, NEW d \in Nat, parse(x, 0) \in Nat PROVE parse(x, d) \in Nat
        BY <2>1 DEF parse
    <2>. QED
        BY <1>2, <2>1, EnvAssumption DEF NatsConfig, BatchConfig
<1>6. c.batch.max_bytes \in Nat
    <2>1. ASSUME NEW x, NEW d \in Nat, bytes_env(x, 0) \in Nat PROVE bytes_env(x, d) \in Nat
        BY <2>1 DEF bytes_env
    <2>. QED
        BY <1>2, <2>1, EnvAssumption DEF BatchConfig
<1>7. c.batch.dedup \in BOOLEAN
    <2>1. ASSUME NEW x PROVE bool_env(x, TRUE) \in BOOLEAN
        BY Zenon DEF bool_env
    <2>2. c.batch.dedup = bool_env(e.BATCH_DEDUP, TRUE)
        BY <1>2 DEF BatchConfig
    <2>. QED
        BY <2>1, <2>2
<1>. QED
    BY <1>3, <1>4, <1>5, <1>6, <1>7 DEF ConfigTyped, c

LEMMA ConfigTypes ==
    ASSUME HasConfig
    PROVE  Name \in Names /\ ConfigTyped(config)
    BY ReadIsTyped DEF HasConfig, Name

LEMMA RolloutInit == Init => RolloutInv
<1> SUFFICES ASSUME Init PROVE RolloutInv
    OBVIOUS
<1>1. at["batcher"] = "off" /\ config = NotRead
    BY DEF Init, Procs
<1>2. TypeOK
    <2>1. {MaxOperations, MaxFailures} \subseteq Nat
        BY RolloutAssumption
    <2>2. /\ env \in Envs /\ at \in [Procs -> Phases] /\ table \in [Procs -> Tables \union {"none"}]
          /\ informed \in BOOLEAN /\ namespace \in BOOLEAN /\ tables \subseteq Tables
        BY DEF Init, Phases
    <2>3. /\ DOMAIN consumers = Names
          /\ operations \in 0 .. MaxOperations /\ failures \in 0 .. MaxFailures
        BY <2>1 DEF Init
    <2>. QED
        BY <1>1, <2>2, <2>3 DEF TypeOK
<1>. QED
    BY <1>1, <1>2 DEF RolloutInv, ConfigKept, Informed, ReconciledConsumer, BeforeInfo, TableKnown, Init

(* A step of another process, or one that only moves the batcher on before   *)
(* its consumer, or ends it.                                                 *)
LEMMA MovesOn ==
    ASSUME RolloutInv, UNCHANGED <<config, informed, consumers>>,
           \/ at'["batcher"] = at["batcher"]
           \/ at'["batcher"] \in {"off", "failed"}
           \/ at["batcher"] \in BeforeInfo /\ at'["batcher"] \in BeforeInfo
           \/ at["batcher"] = "info" /\ at'["batcher"] = "running"
           \/ at["batcher"] = "reload" /\ at'["batcher"] = "running"
    PROVE  ConfigKept' /\ Informed' /\ ReconciledConsumer'
<1>1. ConfigKept'
    BY DEF RolloutInv, ConfigKept, HasConfig, BeforeInfo
<1>2. Name' = Name /\ Wanted' = Wanted
    BY DEF Name, Wanted, max_ack_pending
<1>. QED
    BY <1>1, <1>2 DEF RolloutInv, Informed, ReconciledConsumer, BeforeInfo

LEMMA StartStep ==
    ASSUME RolloutInv, NEW p \in Procs, NEW e \in Envs, Start(p, e)
    PROVE  RolloutInv'
<1>1. at \in [Procs -> Phases] /\ table \in [Procs -> Tables \union {"none"}]
    BY DEF RolloutInv, TypeOK
<1>2. at' = [at EXCEPT ![p] = at'[p]] /\ at'[p] \in {"load", "failed"} /\ at' \in [Procs -> Phases]
    BY <1>1 DEF Start, Goes, Phases, Starting
<1>3. /\ table' \in [Procs -> Tables \union {"none"}] /\ TableKnown'
      /\ UNCHANGED <<env, namespace, tables, consumers, operations, failures>>
    BY <1>1, <1>2 DEF Start, Goes, Tables, catalogVars, RolloutInv, TableKnown
<1>4. CASE p = "batcher" /\ EnvOk(p, e)
    <2>1. config' = ReadFrom(e) /\ informed' = FALSE /\ BatcherEnvOk(e)
        BY <1>4 DEF Start, ReadFrom, EnvOk
    <2>2. \E f \in Envs : BatcherEnvOk(f) /\ config' = ReadFrom(f)
        BY <2>1
    <2>3. at'["batcher"] = "load"
        BY <1>1, <1>4 DEF Start, Goes
    <2>4. ConfigKept' /\ Informed' /\ ReconciledConsumer'
        BY <2>1, <2>2, <2>3 DEF ConfigKept, HasConfig, Informed, ReconciledConsumer
    <2>5. ConfigTyped(config')
        BY <2>1, ReadIsTyped
    <2>6. TypeOK'
        BY <1>2, <1>3, <2>1, <2>5 DEF TypeOK, RolloutInv, ConfigTyped
    <2>. QED
        BY <1>3, <2>4, <2>6 DEF RolloutInv
<1>5. CASE ~(p = "batcher" /\ EnvOk(p, e))
    <2>1. UNCHANGED <<config, informed>>
        BY <1>5 DEF Start
    <2>2. at'["batcher"] = at["batcher"] \/ at'["batcher"] \in {"off", "failed"}
        <3>1. CASE p = "batcher"
            BY <1>1, <1>5, <3>1 DEF Start, Goes
        <3>2. CASE p # "batcher"
            BY <1>1, <1>2, <3>2 DEF Procs
        <3>. QED
            BY <3>1, <3>2
    <2>3. ConfigKept' /\ Informed' /\ ReconciledConsumer'
        BY <1>3, <2>1, <2>2, MovesOn
    <2>4. TypeOK'
        BY <1>2, <1>3, <2>1 DEF TypeOK, RolloutInv
    <2>. QED
        BY <1>3, <2>3, <2>4 DEF RolloutInv
<1>. QED
    BY <1>4, <1>5

LEMMA ConnectStep ==
    ASSUME RolloutInv, NEW p \in Procs, ConnectSink(p)
    PROVE  RolloutInv'
<1>1. at \in [Procs -> Phases] /\ tables \subseteq Tables
    BY DEF RolloutInv, TypeOK
<1>2. /\ at[p] \in {"load", "missing", "namespace", "create", "provider"}
      /\ at' = [at EXCEPT ![p] = at'[p]]
      /\ at'[p] \in {"missing", "namespace", "create", "provider", "consumer", "done", "failed"}
      /\ p = "batcher" => at'[p] # "done"
    BY <1>1 DEF ConnectSink, LoadTable, CheckNamespace, CreateNamespace, CreateTable, ExposeTable, Goes
<1>3. at' \in [Procs -> Phases]
    BY <1>1, <1>2 DEF Phases, Starting
<1>4. \/ at'["batcher"] = at["batcher"] \/ at'["batcher"] \in {"off", "failed"}
      \/ at["batcher"] \in BeforeInfo /\ at'["batcher"] \in BeforeInfo
    <2>1. CASE p = "batcher"
        BY <1>2, <2>1 DEF BeforeInfo
    <2>2. CASE p # "batcher"
        BY <1>1, <1>2, <2>2 DEF Procs
    <2>. QED
        BY <2>1, <2>2
<1>5. UNCHANGED <<env, table, config, informed, consumers, operations, failures>>
    BY DEF ConnectSink
<1>6. ConfigKept' /\ Informed' /\ ReconciledConsumer'
    BY <1>4, <1>5, MovesOn
<1>7. table[p] \in Tables
    BY <1>2 DEF RolloutInv, TableKnown
<1>8. tables' \subseteq Tables /\ namespace' \in BOOLEAN
    BY <1>1, <1>7 DEF ConnectSink, LoadTable, CheckNamespace, CreateNamespace, CreateTable,
                      ExposeTable, catalogVars, RolloutInv, TypeOK
<1>9. TypeOK'
    BY <1>3, <1>5, <1>8 DEF RolloutInv, TypeOK
<1>10. TableKnown'
    BY <1>1, <1>2, <1>5, <1>7 DEF RolloutInv, TableKnown
<1>. QED
    BY <1>6, <1>9, <1>10 DEF RolloutInv

(* The consumer is created or given the wanted configuration.                *)
LEMMA EnsureStep ==
    ASSUME RolloutInv, EnsureConsumer
    PROVE  RolloutInv'
<1>1. /\ at \in [Procs -> Phases] /\ "batcher" \in Procs /\ DOMAIN consumers = Names
      /\ UNCHANGED <<env, table, config, namespace, tables, operations, failures>>
    BY DEF RolloutInv, TypeOK, EnsureConsumer, catalogVars, Procs, GetOrCreateConsumer,
           ReadConsumerInfo, UpdateConsumer, ReloadConsumer
<1>2. /\ at["batcher"] \in {"consumer", "info", "update", "reload"}
      /\ at' = [at EXCEPT !["batcher"] = at'["batcher"]]
      /\ at'["batcher"] \in {"info", "running", "update", "reload"}
      /\ DOMAIN consumers' = Names
      /\ informed' \in BOOLEAN
    BY <1>1 DEF EnsureConsumer, GetOrCreateConsumer, ReadConsumerInfo, UpdateConsumer,
                ReloadConsumer, Goes, RolloutInv, TypeOK
<1>3. HasConfig /\ Name \in Names
    BY <1>2, ConfigTypes DEF RolloutInv, ConfigKept
<1>4. TypeOK'
    <2>1. at' \in [Procs -> Phases]
        BY <1>1, <1>2 DEF Phases, Starting
    <2>. QED
        BY <1>1, <1>2, <2>1 DEF RolloutInv, TypeOK
<1>5. TableKnown'
    BY <1>1, <1>2 DEF RolloutInv, TableKnown
<1>6. ConfigKept'
    BY <1>1, <1>3 DEF RolloutInv, ConfigKept, HasConfig
<1>7. Name' = Name /\ Wanted' = Wanted
    BY <1>1 DEF Name, Wanted, max_ack_pending
<1>8. Informed' /\ ReconciledConsumer'
    <2>1. CASE GetOrCreateConsumer
        BY <1>1, <2>1 DEF GetOrCreateConsumer, Goes, RolloutInv, Informed, ReconciledConsumer, BeforeInfo
    <2>2. CASE ReadConsumerInfo
        BY <1>1, <1>7, <2>2 DEF ReadConsumerInfo, Goes, Informed, ReconciledConsumer, BeforeInfo
    <2>3. CASE UpdateConsumer
        BY <1>1, <1>3, <1>7, <2>3 DEF UpdateConsumer, Goes, Informed, ReconciledConsumer, BeforeInfo
    <2>4. CASE ReloadConsumer
        BY <1>1, <1>7, <2>4 DEF ReloadConsumer, Goes, RolloutInv, Informed, ReconciledConsumer, BeforeInfo
    <2>. QED
        BY <2>1, <2>2, <2>3, <2>4 DEF EnsureConsumer
<1>. QED
    BY <1>4, <1>5, <1>6, <1>8 DEF RolloutInv

(* A failure ends its process, or lets the batcher run uninformed.           *)
LEMMA FailureStep ==
    ASSUME RolloutInv, StartFails
    PROVE  RolloutInv'
<1>1. at \in [Procs -> Phases] /\ "batcher" \in Procs /\ DOMAIN consumers = Names
      /\ failures \in 0 .. MaxFailures /\ MaxFailures \in Nat
    BY RolloutAssumption DEF RolloutInv, TypeOK, Procs
<1>2. /\ UNCHANGED <<env, table, config, informed, operations>>
      /\ failures' \in 0 .. MaxFailures
    BY <1>1 DEF StartFails, Failure
<1>3. PICK p \in Procs : /\ at[p] \notin {"off", "failed"}
                         /\ at' = [at EXCEPT ![p] = at'[p]]
                         /\ \/ at'[p] = "failed"
                            \/ p = "batcher" /\ at[p] = "info" /\ at'[p] = "running"
    <2>1. CASE \E p \in Procs : AnswerLost(p)
        BY <1>1, <2>1 DEF AnswerLost, Goes
    <2>2. CASE ConsumerAnswerLost
        BY <1>1, <2>2 DEF ConsumerAnswerLost, Goes
    <2>3. CASE InfoFails
        BY <1>1, <2>3 DEF InfoFails, Goes
    <2>4. CASE \E p \in Procs : Fails(p)
        BY <1>1, <2>4 DEF Fails, Goes, Starting
    <2>. QED
        BY <2>1, <2>2, <2>3, <2>4 DEF StartFails
<1>4. at' \in [Procs -> Phases]
    BY <1>1, <1>3 DEF Phases, Starting
<1>5. tables' \subseteq Tables /\ namespace' \in BOOLEAN
    <2>1. CASE \E q \in Procs : AnswerLost(q)
        <3>1. PICK q \in Procs : AnswerLost(q)
            BY <2>1
        <3>2. table[q] \in Tables
            BY <3>1 DEF AnswerLost, RolloutInv, TableKnown
        <3>. QED
            BY <3>1, <3>2 DEF AnswerLost, RolloutInv, TypeOK
    <2>2. CASE UNCHANGED catalogVars
        BY <2>2 DEF catalogVars, RolloutInv, TypeOK
    <2>. QED
        BY <2>1, <2>2 DEF StartFails, InfoFails, ConsumerAnswerLost
<1>6. DOMAIN consumers' = Names
    BY <1>1 DEF StartFails, ConsumerAnswerLost
<1>7. TypeOK'
    BY <1>2, <1>4, <1>5, <1>6 DEF RolloutInv, TypeOK
<1>8. TableKnown'
    BY <1>1, <1>2, <1>3 DEF RolloutInv, TableKnown
<1>9. ConfigKept' /\ Informed' /\ ReconciledConsumer'
    <2>1. CASE UNCHANGED consumers
        <3>1. \/ at'["batcher"] = at["batcher"] \/ at'["batcher"] \in {"off", "failed"}
              \/ at["batcher"] = "info" /\ at'["batcher"] = "running"
            BY <1>1, <1>3
        <3>. QED
            BY <1>2, <2>1, <3>1, MovesOn
    <2>2. CASE ConsumerAnswerLost
        <3>1. at'["batcher"] = "failed"
            BY <1>1, <2>2 DEF ConsumerAnswerLost, Goes
        <3>. QED
            BY <1>2, <3>1 DEF RolloutInv, ConfigKept, HasConfig, Informed, ReconciledConsumer, BeforeInfo
    <2>. QED
        BY <2>1, <2>2 DEF StartFails
<1>. QED
    BY <1>7, <1>8, <1>9 DEF RolloutInv

(* Restarts, changes of the environment, rollouts.                          *)
LEMMA OperationStep ==
    ASSUME RolloutInv,
           (\E p \in Procs : Restart(p)) \/ Reconfigure \/ ReplacePod
    PROVE  RolloutInv'
<1>1. /\ at \in [Procs -> Phases] /\ {"init", "batcher"} \subseteq Procs
      /\ operations \in 0 .. MaxOperations /\ MaxOperations \in Nat
    BY RolloutAssumption DEF RolloutInv, TypeOK, Procs
<1>2. /\ UNCHANGED <<table, config, informed, namespace, tables, consumers, failures>>
      /\ env' \in Envs /\ operations' \in 0 .. MaxOperations
    BY <1>1 DEF Restart, Reconfigure, ReplacePod, procVars, catalogVars,
                RolloutInv, TypeOK
<1>3. /\ at' \in [Procs -> Phases]
      /\ \A p \in Procs : at'[p] = at[p] \/ at'[p] = "off"
    BY <1>1 DEF Restart, Goes, Reconfigure, ReplacePod, procVars, Phases
<1>4. TypeOK'
    BY <1>2, <1>3 DEF RolloutInv, TypeOK
<1>5. TableKnown'
    BY <1>2, <1>3 DEF RolloutInv, TableKnown
<1>6. ConfigKept' /\ Informed' /\ ReconciledConsumer'
    BY <1>1, <1>2, <1>3, MovesOn
<1>. QED
    BY <1>4, <1>5, <1>6 DEF RolloutInv

LEMMA RolloutStep == RolloutInv /\ [Next]_vars => RolloutInv'
<1> SUFFICES ASSUME RolloutInv, [Next]_vars PROVE RolloutInv'
    OBVIOUS
<1>1. \A p \in {"init", "batcher"} : p \in Procs
    BY DEF Procs
<1>2. env \in Envs /\ "tool" \in Procs
    BY DEF RolloutInv, TypeOK, Procs
<1>3. CASE UNCHANGED vars
    <2>1. /\ UNCHANGED <<env, at, table, config, informed, namespace, tables>>
          /\ UNCHANGED <<consumers, operations, failures>>
        BY <1>3 DEF vars, procVars, catalogVars
    <2>2. ConfigKept' /\ Informed' /\ ReconciledConsumer'
        BY <2>1, MovesOn
    <2>3. TypeOK' /\ TableKnown'
        BY <2>1 DEF RolloutInv, TypeOK, TableKnown
    <2>. QED
        BY <2>2, <2>3 DEF RolloutInv
<1>. QED
    BY <1>1, <1>2, <1>3, StartStep, ConnectStep, EnsureStep, FailureStep, OperationStep DEF Next, PodStep

LEMMA RolloutInductive == Spec => []RolloutInv
    BY RolloutInit, RolloutStep, PTL DEF Spec

-----------------------------------------------------------------------------
(* Whatever the environments say, every variable has its type: an interval   *)
(* that is no duration never reaches the policy.                             *)
THEOREM RolloutTypes == Spec => []TypeOK
<1>1. RolloutInv => TypeOK
    BY DEF RolloutInv
<1>. QED
    BY <1>1, RolloutInductive, PTL

(* A batcher that runs, and was told what the server has, runs with the      *)
(* consumer its environment asks for, after any starts that died half way.   *)
THEOREM ConsumerIsReconciled == Spec => []ReconciledConsumer
<1>1. RolloutInv => ReconciledConsumer
    BY DEF RolloutInv
<1>. QED
    BY <1>1, RolloutInductive, PTL

(* That consumer fits the batching policy.                                   *)
THEOREM ConsumerFits == Spec => []ConsumerFitsPolicy
<1>1. ASSUME RolloutInv PROVE ConsumerFitsPolicy
    <2> SUFFICES ASSUME at["batcher"] = "running", informed
                 PROVE  /\ consumers[Name].ack_wait >= 4 * config.batch.flush_interval + 10
                        /\ consumers[Name].max_ack_pending >= 2 * config.batch.max_records
        BY DEF ConsumerFitsPolicy
    <2>1. consumers[Name] = Wanted /\ ConfigTyped(config)
        BY <1>1, ConfigTypes DEF RolloutInv, ReconciledConsumer, ConfigKept
    <2>2. /\ config.nats.ack_wait \in Nat /\ config.nats.fetch_batch \in Nat
          /\ config.batch.flush_interval \in Nat /\ config.batch.max_records \in Nat
        BY <2>1 DEF ConfigTyped
    <2>3. Wanted.ack_wait >= 4 * config.batch.flush_interval + 10
        BY <2>2 DEF Wanted, effective_ack_wait
    <2>4. Wanted.max_ack_pending >= 2 * config.batch.max_records
        BY <2>2 DEF Wanted, max_ack_pending
    <2>. QED
        BY <2>1, <2>3, <2>4
<1>. QED
    BY <1>1, RolloutInductive, PTL

=============================================================================
