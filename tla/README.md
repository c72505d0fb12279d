# TLA+ models of the blockchain data collection

The program collects transactions of an EVM chain. One **producer** container
walks over the blocks of a node and puts transaction hashes into a Kafka topic;
several **consumer** containers take the hashes out, fetch and decode the
transactions and write them to PostgreSQL. Redis counts the messages that wait
in each partition, so that the producer can hold back. All paths below are
relative to `src/data_collection/app/` unless they start with `src/`.

This directory models the producer, the consumer group, both of them together,
and what a consumer does with a transaction; it checks these models with TLC and
proves with TLAPS, for any number of tasks, consumers, partitions, blocks and
transactions, the safety properties and the refinements that TLC checks on small
instances.

    tlc -config MCProducer_faults.cfg MCProducer     # a run
    tlapm Producer_proofs.tla                        # a proof module

Contents: [inventory](#1-inventory), [modules](#2-modules-and-how-they-read),
[runs](#3-runs), [bounds](#4-bounds), [fairness](#5-fairness),
[assumptions](#6-assumptions-about-the-environment),
[proofs](#7-what-is-proved), [findings](#8-where-code-and-documentation-disagree),
[what is left out](#9-what-is-not-modelled), [plan](#10-plan).

## 1. Inventory

| component | state | operations | what makes it correct |
|---|---|---|---|
| `DataProducer` (`producer.py`) | per task: block bounds, current block | one asyncio task per config entry: `_start_producer` (full, partial), `_start_get_logs_producer`, `_start_logfilter_producer`; `start_producing_data` gathers them | no block skipped, success only after the whole range, rows before messages |
| `KafkaProducerManager` (`kafka/manager.py`) | `_i_partition`, shared by the tasks | `limit_topic_capacity`, `_choose_partition`, `send_batch` | messages sent once, counted exactly, limit respected up to a block per task |
| `RedisManager` (`db/redis.py`) | the sorted set `<topic>_n_transactions` | `incrby`, `decr`, sum, lowest member | the score is the number of waiting messages |
| `KafkaConsumerManager` (`kafka/manager.py`) | listener task, idle timer, two events, Kafka client | `start_consuming`, `_event_timeout_task`, `_start_listening_on_topic_task`, `disconnect` | no message forgotten, no message interrupted by the timer, ends when idle |
| `DataConsumer` (`consumer/__init__.py`) | transaction processors by mode | `start_consuming_data`, `_on_kafka_event` | exceptions reach the exit code |
| `main` (`main.py`) | exit code | `start` for both worker types | one failing consumer makes the process fail, so that it is restarted |
| `BlockExplorer` (`web3/block_explorer.py`) | none | `get_exploration_bounds` | resumes where the database ends |
| `DatabaseManager` (`db/manager.py`) | one asyncpg connection per manager | inserts and lookups | one query at a time; a row that is there is not replaced |
| transaction processors (`consumer/tx_processor.py`) | none | `process_transaction` of the full and the partial mode | everything of interest stored and nothing else, handling a transaction again is harmless |
| transaction events (`web3/transaction_events/`) | none | eight mappers from logs to events | the right change for the right contract |
| `ContractParser` (`web3/parser.py`) | caches by address | category, events and web3 instance of a configured contract | one answer per address |
| `NodeConnector` (`web3/node_connector.py`) | web3 client with retry middleware | block, reward, receipt, trace, logs | gives up after the retry limit, never sooner |
| `KafkaManager.connect` | client | up to ten attempts | leaves no half open client |
| `DataCollector` (`utils/data_collector.py`) | the managers of one worker | connect and disconnect everything, encode an event | what was opened is closed |
| `Config`, data models, SQL schema | documents | validation, conversion | pure |
| deployment scripts, `src/etc` tools | none | docker compose, offline analysis | not part of the collection |

**Interaction.** Producer tasks share one event loop, one PostgreSQL connection,
one Kafka client and its partition cursor. Producer and consumers meet in the
topic and in the Redis counter, which is written by both without a transaction.
Each consumer process runs several `DataConsumer` tasks, each of three
coroutines and with a database connection of its own, and all consumers of all
processes form one Kafka group. Workers that handle the same transaction meet in
PostgreSQL, where the primary keys and `ON CONFLICT DO NOTHING` decide. Docker
restarts consumers that fail (`src/docker-compose.prod.yml:21-25`); nothing
restarts a producer.

**Hard behaviours.** Values read before an `await` and used after it (topic
size, lowest partition, the connection); a batch that times out with its
outcome unknown; a record that arrives while the consumer is leaving; a
commit of a position that is ahead of the callback; evictions, crashes and
restarts between any two steps; signals between coroutines that do not count; a
transaction that is stored in several commits, by several workers, because it
was delivered again or because `get_logs` publishes it once for each of its
logs; ends that must be reached (the range, an empty topic) and a wait that may
never end (the stall). `PROJECT.json` lists each under
`hazards` at its line, with the properties that watch over it.

## 2. Modules and how they read

| module | extends | content |
|---|---|---|
| `BlockFeed` | | what the producer promises to the readers of its topic |
| `FiniteSums` | | the sum of the values of a finite function |
| `Producer` | `FiniteSums` | the producer process, with PostgreSQL, Redis and Kafka as it sees them |
| `MCProducer` | `Producer` | small constants for TLC |
| `Consumer` | | the consumer processes and the Kafka consumer group |
| `MCConsumer` | `Consumer` | small constants for TLC |
| `Delivery` | | what the consumer group promises: every message taken, settled when it is accounted for |
| `EventSignals` | | the two `asyncio.Event`s between a consumer's listener and its idle timer |
| `Pipeline` | `Producer` | producer and consumers on one topic and one set of counters; instantiates `Consumer` |
| `MCPipeline` | `Pipeline` | small constants for TLC |
| `TransactionEvents` | `FiniteSums` | the event mappers, and the amounts summed up from a receipt |
| `TxProcessor` | `TransactionEvents` | a worker that handles a message: node, processor, database |
| `TransactionStore` | | what a reader of the database may rely on |
| `MCTxProcessor` | `TxProcessor` | a configuration and receipts for TLC |
| `FiniteSums_proofs` | `FiniteSums` | induction over the natural numbers and over finite sets, for a *set* of numbers or sets; how sums change, add up and split |
| `Producer_proofs` | `Producer` | type correctness and safety of the producer's tasks; the producer implements `BlockFeed` |
| `ProducerCounters_proofs` | `Producer_proofs`, `FiniteSums_proofs` | the counters, the limit and the length of the topic |
| `Consumer_proofs` | `Consumer` | type correctness and safety of the consumers; they implement `Delivery` |
| `EventSignals_proofs` | `EventSignals` | the timer and its signals |
| `TransactionEvents_proofs` | `TransactionEvents`, `FiniteSums_proofs` | what the mappers find in any receipt, and what their amounts add up to |
| `TxProcessor_proofs` | `TxProcessor`, `TransactionEvents_proofs` | type correctness and safety of the workers; they implement `TransactionStore` |
| `Pipeline_proofs` | `Pipeline`, `ProducerCounters_proofs` | the composition; instantiates `Consumer_proofs` |

### Producer

A step is the code that a task runs between two suspensions of the event loop.
Every `await` that can suspend ends a step, so that another task, a consumer or a
crash can come in between. The tasks' program counter `pc[t]` names the await
they are suspended in:

| `pc` | code | leaves by |
|---|---|---|
| `bounds`, `reading`, `resume` | `get_exploration_bounds`: waiting for the connection, for `get_block`, for `w3.eth.get_block` of the last block | `AcquireConnection`, `ConnectionBusy`, `DecideBounds`, `Resume` |
| `fetch`, `reward` | `get_block_data` or `get_logs`, then `get_block_reward` in full mode | `GetBlockData`, `GetBlockReward`, `StopAtEndBlock`, `StopAtLatestBlock`, `GetLogs`, `LogFilter` |
| `insert`, `inserting` | `insert_block` | `AcquireConnection`, `ConnectionBusy`, `InsertBlock` |
| `limit`, `decide` | `limit_topic_capacity`: the read of Redis, and what is concluded from it (`number_of_partitions` may lie in between) | `ReadTopicSize`, `AdmitBatch`, `Stall`, `SpinOnEmptyTopic` |
| `chunk` | `send_batch`: fill a Kafka batch, `_choose_partition` | `ChooseNextPartition`, `ChooseLowestScorePartition` |
| `send`, `ack` | the broker stores the batch; its record comes back and `incrby` is applied | `StoreBatch`, `CountBatch`, `SendTimesOut` |
| `advance`, `finish`, `done` | `i_block += 1` and the progress log; the end of the task | `AdvanceBlock`, `FinishLogs` |

Data is reduced to what the properties distinguish. A message is `<<task,
block, index>>`; a block is its number of transactions; of the total in Redis
the limiter sees only `empty` (0 is falsy), `room` or `full`. A chunk is an
interval of indices: `MESSAGES_PER_BATCH` long, of which `BatchCapacity`
fit into the bytes of a Kafka batch (the rest is refused, logged, and not
counted). `published` and `givenUp` are history: what is in the topic, and what
was lost with a log line.

`CallRaises` is the failure of any awaited call; `SendTimesOut` is
`KafkaTimeoutError`, which `send_batch` catches whether or not the broker stored
the batch; `Crash` and `Restart` end the process and start another on the
stores as they were left. `ConsumerDecrements` is all the producer sees of the
consumers.

`start_producing_data` creates all tasks before it suspends, so that every task
issues its first call in the same round of the event loop: none goes on before
the first queries of all are out (`AllStarted` in `TaskStep` and `TaskFault`). With
one connection this means that of the tasks that use it all but one fail at once.
Redis orders members with equal scores by their names as strings; the model
leaves a tie open (`LowestScorePartitions`).

### Consumer

A consumer is `start_consuming` (`runner`), the listener and the idle timer.
`asyncio.gather` does not cancel the listener when the timer raises, so the
listener goes on while the client is `closing` and `leaving`, may receive one
more record, and runs until `sys.exit`. A process (`exitCode`, `restarts`)
runs a team of consumers and ends when all of them have returned.

| action | code |
|---|---|
| `Receive` | `async for event in self._client` and `kafka_timeout_event.set()`; the client's position moves with it |
| `Decrement` | `decr_transactions` |
| `HandleEvent`, `HandlingRaises` | `on_event_callback`, and `kafka_consuming_event.set()` |
| `Expire`, `CommitOnStop`, `LeaveGroup` | the timer raises; `disconnect`: `client.stop()` commits and leaves the group |
| `AutoCommit`, `Rebalance`, `Evict` | external: aiokafka's default auto commit, the group coordinator, an expired session |
| `Exit`, `Crash`, `Restart` | `main.start`, a killed container, `restart_policy` |
| `Store`, `Count` | what the consumers see of the producer: a chunk of messages is stored, and any part of what is stored is counted later |

The two `asyncio.Event`s are abstracted to a timer that is `armed` or `held`;
`EventSignals` shows that they amount to this.

### EventSignals

`kafka_timeout_event` and `kafka_consuming_event` are flags: a second `set()`
before the `clear()` is lost, and nothing in the code waits for the timer to have
seen the first one. What keeps the two coroutines in step is time, so time is in
the model. The event loop works in rounds (`NextRound`); a `set()` wakes a waiter
a few rounds later (`Wake`: one round for a plain `wait()`, three for a
`wait_for` with a timeout, which wraps the coroutine in a task); an answer of
Redis, the node or PostgreSQL takes at least two rounds from its request and may
take for ever. `Receive`, `Answer` and `Finish` are the listener, `ClearTimeout`,
`ClearConsuming` and `Expire` the timer. Handling a record waits for at least
three answers (Redis, transaction, receipt), and that is what the result rests
on: with one answer (the mutant that does not await the callback) signals are
lost, and the timer may run out on a record.

### BlockFeed

The abstract producer: per task a first block, a cursor and a status; `Offer`
hands over messages of the current block only, which lies in the task's range, `Complete` leaves a block only
when all its messages are accounted for, `Succeed` needs the whole range. There
are no partitions, chunks, counters, connections. `Producer!ImplementsFeed`
instantiates it with `feed <- published \cup givenUp`, `start <- first`,
`cursor <- block` and the status computed from `outcome`.

### Delivery

The abstract consumer group, without partitions, offsets, timers or processes:
workers `Take` a stored message that is not settled, `Process` it or `Lose` it,
and messages are settled (`Settle`) only once a worker has taken them.
`Consumer!ImplementsDelivery` instantiates it with the offsets up to the
committed one as `settled`, and what was cut off or failed as `lost`: Kafka
forgets no message that no consumer has had in hand.

### Pipeline

`Producer` and `Consumer` each contain an environment in place of the other:
`ConsumerDecrements` there, `Store` and `Count` here. `Pipeline` has neither.
It extends `Producer`, instantiates `Consumer` on the same `logEnd` and `score`,
and conjoins each consumer action with what it leaves of the producer
(`Decrement` is where the two meet). Both original specifications are then
properties of the composition: `ImplementsProducer` (the consumers subtract each
stored message at most once, as `ConsumerDecrements` does) and
`ImplementsConsumer` (chunks are stored in order and counted afterwards). So
what was checked and proved of each alone, against its environment, holds of the
two together. `PipelineAssumption` asks that the topic has room for all there is
to publish (`AllWork`), so that `Consumer`'s bound on offsets never stops the
producer.

### TransactionEvents, TxProcessor and TransactionStore

A receipt is a sequence of logs, a log an address, an event and its amounts or
parties. `EventsOf` is `get_transaction_events`: for each mapper of a category
in the order of registration, the events it finds in *all* logs of the
receipt, whoever emitted them; the filter by address and by configured events
(`Relevant`) comes later, in `_handle_transaction_events`.

`CirculationChange` and `ReservesChange` are the references for the sums, from the
logs alone and not from the mappers: what is in circulation is what lies outside
the burn accounts that the documentation and the unit tests name (`BurnAccounts`),
however the code recognises them. The code takes two kinds of transfers
otherwise, those that touch `0x...dEaD` and those from the zero address to itself.
`Agreed` names all the others; `AmountsAreOnChain` claims the supply changes
of receipts in which every transfer is `Agreed`, and `BurnsAreCounted` claims
them of every receipt and is violated (section 8).

A worker of `TxProcessor` goes through these awaits:

| `pc` | code | leaves by |
|---|---|---|
| `transaction`, `receipt`, `trace` | a request to the node behind the retry middleware | `GetTransactionData`, `GetReceiptData`, `GetInternalTransactions`; `RequestTimesOut`, `RequestGivesUp`, `NoRequest` |
| `events` | `_handle_transaction_events` for each contract concerned, row by row | `HandleTransactionEvents`, `InsertEventRow`, `SkipTransaction`, `InsertTransaction` |
| `logs`, `internals` | one SQL transaction each | `InsertTransactionLogs`, `InsertInternalTransactions` |

`Handled` and `ShouldSave` are the three cases of the partial mode; the order in
which contracts of a receipt are handled is open, since the code iterates over a
set of strings. `Insert` is `ON CONFLICT DO NOTHING`. `Fail` may end the callback
at any await and leaves what was committed. Every message may be delivered again
(`Deliver`), to the other worker while the first one is still at it.

`TransactionStore` has the tables and nothing else: event rows first, each kept as
it came; the row of the transaction only when all of them are there; then its
logs, all at once; internal transactions last, in copies that only grow.
`ImplementsStore` maps the tables one to one; `wanted` is what the
transaction leaves (`Leaves`).

## 3. Runs

| run | instance | what it shows |
|---|---|---|
| `producer_mixed` | partial and get_logs task, either of which may fail at any await, 2 partitions, two blocks of 3, limit 2 | until something goes wrong the counter equals what waits in the topic (`CounterMatchesTopic`), the limit is passed by at most a block per task (`OvershootBounded`), the first round over the partitions is in order although the cursor is shared (`FirstRoundInOrder`); the process waits for both tasks and reports a failure: exit 0 covers the range of every task (`SuccessCoversRange`); `ImplementsFeed` with two tasks |
| `producer_faults` | one full task, every fault, one restart, batches that overflow | `TypeOK`; nothing lost in silence (`NothingSkipped`); exit 0 covers the range (`SuccessCoversRange`); row before message, and no row without its messages once a producer has succeeded, whatever its predecessors left (`RowsGetMessages`); counter never above the topic; no duplicates within one process; `ImplementsFeed` |
| `producer_contention` | full, partial and log_filter task on one connection, every fault, one restart | contention never fails everybody (`ContentionSparesOne`) and strikes only at a first query; a task fails of itself only where the code cannot go on (`FailuresExplained`) |
| `consumer_team` | 2 consumers in one process, 2 partitions, any one fault, one restart, `FairSpec` | `TypeOK`; a committed offset has a fate; without fault only late messages suffer; failures reach the exit code; the counter follows consumption; `ImplementsDelivery`; every stored message gets its fate or nobody is left (`MessagesGetFates`); the process ends (`ConsumersExit`) |
| `event_signals` | records of 3 to 12 answers, `FairSpec` | no signal is lost (`SignalsAreSeen`); the timer cannot run out on a record that is being handled (`HeldWhileHandling`) and does run out on an idle consumer (`IdleConsumerExpires`) |
| `pipeline` | a producer task with blocks of 2, 1, 3 messages in chunks of 2, two consumer processes, two partitions, limit 2, no faults, `FairPipelineSpec` | what waits in Kafka passes the limit by at most a block (`WaitingBounded`); each side is a legal environment for the other; every published message is processed and none twice (`AllProcessed`); the producer gets through, or spins on a topic that was drained while it waited (`SucceedsOrSpins`) |
| `tx_rows` | one of 358 transactions, delivered twice, two workers, failures at every await, retry limit 0 or 2, `FairSpec` | `TypeOK`; amounts are those of the chain (`AmountsAreOnChain`, with the scope given in section 2); the partial mode stores nothing irrelevant; when the callback returns everything is stored; handling it again changes nothing but copies of internal transactions; `ImplementsStore`; every delivery ends |
| `producer_stall`, `producer_resume`, `consumer_cut_off`, `tx_supply`, `tx_burns` | one task; two consumers and one partition; transactions with two logs or one | the five disagreements of section 8 |

Each property of a passing run has a mutant in `PROJECT.json`, an alternative
definition beside the original that models a plausible slip (a batch sent
again after a timeout, a commit one past the position, a callback that is not
awaited, a round over the partitions that never ends, an upsert in place of
`DO NOTHING`). With the mutant in place
of the definition TLC finds the property violated.

## 4. Bounds

* **Chunks of 2 messages, blocks of 0, 1 or 3.** Three messages need a full and a
  partial chunk; empty blocks take the branch that sends nothing. With
  `BatchCapacity = 1` a chunk overflows.
* **Chains of two blocks** (`LatestBlock = 1`): a task advances, reaches its end
  block, or runs past the head. Blocks do not interact otherwise.
* **Two partitions**: the smallest number for which order, choice by score and the
  end of the first round mean something. One where only the limit matters.
* **Limit of one message per partition**: two tasks get past the check together
  and the producer stalls.
* **Consumers**: two, in one process, and in two in `pipeline`; two partitions with
  a message each (one where the race of `consumer_cut_off` is all that matters). An
  eviction or a consumer that leaves moves its partition to the other, as it would
  between processes. `MaxOffset` bounds the topic, `MaxFaults = 1`
  the faults of a behaviour and `MaxRestarts = 1` the restarts (3 in
  production). One fault reaches every recovery path; the safety properties are
  proved for any number (section 7). A process that uses up its restarts needs
  two faults, which only the theorems cover.
* **Pipeline**: the third block meets a full topic unless the consumers have been
  quick, so that the producer stalls, and stalls on a topic that is then drained;
  it needs a full and a partial chunk, which alternate between the partitions and
  are counted in one step each, two messages or one.
* **Event signals**: three answers are the fewest a record can have (a transaction
  of no interest); twelve are more than the rounds in which two records could
  interact. Answers may take any number of rounds.
* **Transactions**: every single log and every pair of logs out of 16, which cover
  every event of every category, tokens with and without a configuration, burns
  to both addresses; three longer receipts with a burn and a mint of one token,
  two tokens, and a pair with a token. Two ERC-20 tokens differ in the events that
  are configured for them. One message: tables are keyed by transaction, so that
  messages of different transactions touch different rows. Two deliveries are
  one redelivery, during or after the first; a third would meet the same
  states of the tables.

## 5. Fairness

* `WF(TaskStep(t))`, `WF(ListenerStep(c))`, `WF(RunnerStep(c))`: the event loop
  resumes every coroutine whose call has completed (`main.py:86-88`), and awaited
  calls return. A fault may replace a step, none is owed.
* `WF(Exit)`: `gather` returns when all tasks have.
* `WF(ConsumerDecrements(p))` in `Producer`: consumers go on while messages wait.
  `StallEnds` is violated in spite of it. `Pipeline` needs no such assumption:
  there it is the consumers' own `ListenerStep`.
* `WF(Rebalance)`: the coordinator completes a rebalance.
* `WF(Restart(w))` in `Consumer` only: `restart_policy: on-failure`. Producers
  are started again by hand, so `Restart` in `Producer` is never owed.
* `EventSignals`: answers come (`Answer`, `Finish`), the timer runs when it is
  woken, and rounds go on (`NextRound`). No record is owed.
* `WF(Step(w))` in `TxProcessor`: an awaited call answers, times out or raises. No
  delivery is owed.
* Nothing is owed for `Store`, `Count`, `AutoCommit`, or any fault.

Timeouts are not fair or unfair but guarded: `Expire` needs a stable group and
nothing to receive (section 6).

## 6. Assumptions about the environment

* aiokafka, Kafka, asyncpg and Redis are external; their actions are modelled from
  how the code uses them and are marked `external` in the map.
* Redis, Kafka and PostgreSQL outlive the worker processes. (The production
  script starts with `--force-recreate`, which also recreates Redis; that is a new
  deployment and not a restart of a worker.)
* `event_retrieval_timeout` is much longer than a fetch or a rebalance: the idle timer
  does not expire on a consumer with a record to receive. A record that arrives
  when it expires is received *late*.
* The coordinator waits for a member that is leaving before it completes a
  rebalance.
* The number of partitions is fixed while a worker runs, and reading it does not
  suspend (the client has the metadata from connecting).
* In `Consumer` a transaction's handling is one callback that returns or raises;
  `TxProcessor` says what it does.
* In `Pipeline` `event_retrieval_timeout` is longer than the pauses of a producer that
  is at work. Without that, consumers may leave for good with status 0 before
  the last message; nothing in the code prevents it.
* The node gives the same answer about a transaction every time (no
  reorganisation between two deliveries), and trace, receipt and transaction
  belong together.
* Addresses come from web3.py in checksummed form, so that no transfer has the
  lower-case burn address as a party (`LogTyped`). An address appears in the
  configuration once (section 9).

## 7. What is proved

All theorems hold for every value of the constants that satisfies the named
assumptions, which TLC evaluates in every run:

* `ProducerAssumption`, `ConsumerAssumption`, `TxAssumption`: types, amounts in logs
  that are natural numbers (they are unsigned on the chain), and checksummed addresses. Any tasks, modes,
  ranges, block and chunk sizes, consumers, processes, partitions, transactions,
  workers, faults, restarts and deliveries. `Tasks` and `Workers` are finite sets,
  because the code makes them from a configuration.
* `SlowHandling` (in `EventSignals`): the answers a record waits for take more rounds
  together than two signals take to wake the timer. In the code they are at least
  three answers of two rounds each, against one and three rounds.
* `PipelineAssumption`: no faults (section 9), and a topic with room for everything.

### Producer

| theorem | property | argument |
|---|---|---|
| `TypeCorrect` | `TypeOK` | `TypeInv`: `TypeOK` and `WellPlaced`: which labels a task of each mode can reach, that a loaded block exists on the chain, and that a chunk in progress lies inside its block (`sent[t] <= Size(t)`), without which `AppendedEnd - sent` need not be a natural number |
| `NothingIsSkipped` | `NothingSkipped` | `SafetyInv`: besides the blocks already left, the messages up to `sent[t]` of the current block are accounted for, and all of them once the task is past sending (`Progress`) |
| `SuccessCoversTheRange` | `SuccessCoversRange` | the same invariant, which also says that a task that ended well has its whole workload accounted for, and that exit code 0 needs every task to have ended well |
| `RowsPrecedeMessages` | `RowBeforeMessages` | `RowInv`: with `SafetyInv`, the current block has its row whenever a block task is sending |
| `RowsGetTheirMessages` | `RowsGetMessages` | `RangeInv`: a task stays in the range it started with, and every row is of a block in some block task's range (`WithinRange`, `RowsInRange`), so that `SuccessCoversRange` accounts for it |
| `FirstRoundIsInOrder` | `FirstRoundInOrder` | inductive with `TypeInv`: the property names the batches on their way as well as the stored ones |
| `ContentionNeverFailsAll` | `ContentionSparesOne` | inductive with `SafetyInv` and `ConnectionExclusive` (the connection is busy exactly while a task awaits its query): a busy connection has a user, which is a block task that has not failed |
| `FailuresAreExplained` | `FailuresExplained` | `FailuresInv`, with `SafetyInv`, `ConnectionExclusive` and `SurvivorInv`: once all first queries are out, of any two tasks that use the connection one has failed, so that it is free at every later query; a block task without an end is still at its first block; a task that resumes has no start block and finds rows |
| `ProducerImplementsFeed` | `ImplementsFeed` | initial states map to initial states; each action is matched with `Position`, `Offer`, `Complete`, `Succeed`, `Fail`, `Exit`, `Restart` or a stutter, using `SafetyInv` for `Complete` and `Succeed` |
| `CounterAlwaysMatchesTopic` | `CounterMatchesTopic` | inductive with `TypeInv`, since it has the batches in transit in it: storing a chunk moves it from the task into the topic, counting it from transit into the score. A task that fails, a timeout or a crash drops what is in transit, so that the equality is claimed only until then (`Undisturbed`), and `<=` always; `ErrorsEnd`: a task that has failed does nothing any more |
| `OvershootIsBounded` | `OvershootBounded` | `WithinCredits`: the total is within the limit plus what each task may still owe, its *credit*: what it has counted of its batch while it sends, a whole batch otherwise. A task is admitted only when the total is within the limit, and starts again at credit 0; another task that was admitted on the same reading keeps its own |
| `NothingIsDuplicated` | `NoDuplicatesWithoutRestart` | `NoDuplicatesInv`: nothing ahead of a task is published (`Fresh`) until a restart, so that what it stores is new, and the sum of the log ends grows as the set does |

The last three compare sums over tasks or partitions, `SumOver`, a fold of the
community modules. `FiniteSums_proofs` first shows that the partial sums exist (`SumsExist`), do not depend on the order in which a fold chooses elements
(`PartialSumAnyElement`), and how a sum changes with one summand (`SumChange`,
`SumMonotonic`). The library's induction theorems take an operator as parameter;
`FiniteSums_proofs` has them for a *set* instead (a set of naturals that contains
the successor of each member; a set of subsets that contains each whose proper
subsets it contains), which the provers can instantiate.

### Consumers and their signals

| theorem | property | argument |
|---|---|---|
| `ConsumerTypeCorrect` | `TypeOK` | `TypeInv`: a listener that handles something handles a message |
| `CommittedMessagesHaveFates` | `CommittedHaveFates` | `FateInv`: not only committed offsets but all up to the *position* have a fate; a commit copies a position and so adds nothing new |
| `FailuresAreReported` | `FailureReported` | `ReportInv`: a process in its first life that has seen a failure has exited with 1, or still runs a consumer that carries code 1 |
| `WithoutFaultsOnlyLateMessagesSuffer` | `OnlyLateMessagesSuffer` | `LateInv`: five parts. The timer is held while a waiting listener handles (`TimerHeld`); without faults every process is running or ended well (`Flawless`); a message handled by a consumer that is not waiting was late (`HandledLate`); only late messages are rolled back: received messages past the position, or past the commit of a partition that its owner is leaving (`RolledBackLate`); and the property itself |
| `CounterFollowsConsumption` | `CounterTracksConsumption` | `CounterInv`: while nothing was cut off or delivered twice, each message in a listener's hand that is not counted off yet is in one hand only (`OneEach`), so that a decrement takes exactly one message more out of the difference (`Tracked`) |
| `GroupImplementsDelivery` | `ImplementsDelivery` | `FateInv` and `HandInv`: a listener that handles nothing has nothing in hand, an ended process handles nothing, and a commit never passes the position; `Receive` is `Take`, a commit `Settle`, and it settles only what has a fate |
| `SignalsTypeCorrect`, `TimerIsHeld`, `NoSignalIsLost` | `TypeOK`, `HeldWhileHandling`, `SignalsAreSeen` | one invariant, `SignalInv`: what the two flags and the listener can be in each of four stages of the timer (waiting for a record, waking to hold, holding, waking to wait), and that the rounds the listener still needs to its next signal (`Remaining`) exceed the rounds the timer needs to see the last one; `SlowHandling` makes that so at the start of a record |

### Processors

| theorem | property | argument |
|---|---|---|
| `ProcessorTypeCorrect` | `TypeOK` | `TypeInv`: a worker that is not idle handles a message of its own transaction; what it has still to do belongs to a contract handled in it; the indices it has marked are indices of logs of configured contracts. Rests on what the mappers return (`EventsOfType`, from `FlattenType`) |
| `OnlyRelevantIsStored` | `OnlyRelevantStored` | `StoreInv`, below: a row or a log in the tables is one the transaction leaves (`RowsInv`), and that concerns a configured contract (`SavedConcerns`, `MarkedType`) |
| `EverythingIsStoredOnReturn` | `StoredOnReturn` | `StoreInv` and `CopiesInv`: of every worker, what it has behind it is in the tables (rows of contracts no longer in `todo`, rows no longer in `writes`, the transaction and its logs once it is past them), and copies of internal transactions never exceed the deliveries without the workers still at it (`Holders`) |
| `RedeliveryChangesNothing` | `RedeliveryIsHarmless` | the same invariant: what a second worker inserts for a completed message has its key in the table |
| `StoredAmountsAreOnChain` | `AmountsAreOnChain` | below; assumes `BalancedEvents` |
| `ProcessorImplementsStore` | `ImplementsStore` | initial states and steps are matched; `StoreInv` gives that the event rows are complete when the transaction's row is inserted, and that row when its logs are |

`StoredAmountsAreOnChain` compares a sum over the events of a contract, in the
order of the mappers, with a sum over the logs, in the order of the receipt. It
is for receipts whose transfers are all `Agreed` (section 2), and
needs `BalancedEvents`: a configuration that stores the mints of a token but not
its burns adds up the mints. Every contract of `etc/cfg/prod/eth.json` meets it, and
so does the configuration of `MCTxProcessor`, where TLC evaluates it. Without it the
code stores a sum that is no change of the supply, so it is a hypothesis of the
theorem and no assumption of the module. `TransactionEvents_proofs` goes in four
steps, for every receipt whose logs are `LogTyped`:

1. the sum over a concatenation, and so over a flattened sequence, is the sum of
   the sums (`ConcatSum`, `FlattenSum`, by induction on the length);
2. selecting the contract's events is counting the others as 0 (`SelectSum`), and
   a mapper's events sum up to what the logs with its event add (`MapLogsType`);
3. no two mappers of a category look for the same event (`MappersDiffer`), so that
   all of them together count each log once (`EventsOfSum`), which turns the order
   of the mappers into that of the logs;
4. what one log adds is its change of the circulation or of the reserves, case by
   case over the mappers (`LogAmount`, `LogPairAmount`); the mappers of other
   categories add nothing (`SupplyIsCirculation`, `LiquidityIsReserves`).

`OnChainInv` then says so of every row that a worker has still to insert, and of
every row in the table.

### Producer and consumers together

| theorem | property | argument |
|---|---|---|
| `PipelineImplementsProducer` | `ImplementsProducer` | `PipelineInv`, below: `Decrement` is `ConsumerDecrements`, which needs `drained[p] < logEnd[p]` (`DecrementIsLegal`) |
| `PipelineImplementsConsumer` | `ImplementsConsumer` | `StoreBatch` is `Store`, which needs room in the topic (`StoreIsLegal`); `CountBatch` is `Count`, which needs that no more is counted than is stored (`CountIsLegal`) |
| `WaitingIsBounded` | `WaitingBounded` | what waits <= stored - subtracted = counted + in transit <= limit + credits + in transit <= limit + a batch of each task |

Neither environment is given here, so neither module's invariant can be cited as
a theorem: each holds only if the other side behaves. `PipelineInv` has the
invariants of both, and what connects them. From it, a step of one side is a
step of the other side's environment (`StepProducerInv`, `StepConsumers`); then
the lemma about that module's steps gives that side's invariant again. The
parts that connect them are `QuietInv` (a consumer disconnects only after the
producer has ended and with nothing to receive, so that no message is late and
`CounterFollowsConsumption` applies) and `BacklogInv` (stored minus subtracted is
counted plus in transit, summed up). The room in the topic comes from
`NothingIsDuplicated`: the topic holds no more messages than there are.

The properties alone are not inductive. `NothingSkipped`, for instance, says
nothing of the block in progress, so that leaving it could break the property;
`CommittedHaveFates` says nothing of the position a commit copies;
`WaitingBounded` says nothing of the counter that holds the producer back.

**Only model-checked.** Liveness (`MessagesGetFates`, `ConsumersExit`,
`IdleConsumerExpires`, `EveryDeliveryEnds`, `AllProcessed`, `SucceedsOrSpins`) is
beyond the prover.

## 8. Where code and documentation disagree

| run | what the repository says | what the code does |
|---|---|---|
| `producer_stall` | `kafka/manager.py:129` "Try again after sleeping" | once stalled, a topic that is drained to exactly 0 matches neither branch: `n_txs` is falsy and `stall_counter` is not 0. The loop polls Redis without pause and never sends again |
| `producer_resume` | `web3/block_explorer.py:63` "Otherwise start from the last inserted block ..." | `db.get_block_transactions` does not exist: `AttributeError` whenever a start finds blocks and no configured start block (here: one full task that crashed after its first row and is started again) |
| `consumer_cut_off` | `kafka/manager.py:295` the event "is used for indefinite waiting while consumer is consuming messages" | the listener survives the timer: a record that arrives while the client stops is received, committed, and cut off by the exit with 0 |
| `tx_burns` | `web3/transaction_events/README.md:40-43` and `tests/unit/consumer/test_tx_processor.py:331`: a transfer to `0x...dead` is a burn | the set in `erc20.py:22-25` is in lower case, web3.py returns checksummed addresses: the transfer leaves no supply change. The tests make up logs in lower case |
| `tx_supply` | `tx_processor.py:240-241` "Save only the transactions that are related to the contracts in the config and only their respective events" | the supply change is stored under `event.address` (line 163), the address of the last event of the loop, also when that event was skipped as another contract's: the change of a configured token is booked on a foreign one |

More of the same kind is in the models as the code has it, without a run of its
own:

* `src/README.md:84` "multiple modes can run at the same time": the tasks of one process
  share one asyncpg connection; of the block modes all but the one whose query comes
  first get `InterfaceError` and end (`ConnectionBusy`; `ContentionSparesOne`,
  `FailuresExplained`).
* `db/redis.py:28` "Return the total number of unprocessed transactions from all
  partitions": a record that is delivered again, because its consumer's session expired
  before the commit, is subtracted again; the score of an empty partition can end at
  -1, and the producer lets that many more messages through (`Decrement`;
  `CounterTracksConsumption` excludes such deliveries).
* `producer.py:57` "Else continue forever ...": `log_producer_progress` computes with an
  `end_block` of `None`, `TypeError` after the first block (`AdvanceBlock`,
  `FailuresExplained`).
* `producer.py:234` "exit_code: 0 if no exceptions encountered": `send_batch` swallows
  `KafkaTimeoutError`; the rest of the block is dropped, the process ends with 0
  (`SendTimesOut`; `givenUp` in `NothingSkipped`).
* `tx_processor.py:249-250` "we save the transaction and its events (if event.address is
  in config)": in case 1 only the events of the called contract are saved
  (`Handled`).
* A transfer from the zero address to itself is a burn: `pass` in `erc20.py:41` skips
  nothing (`TransferNames`, `Agreed`).
* Two supply changes of one transaction can collide under one address (line 163
  again): the one inserted first stays, and the order of the contracts differs
  from process to process. `AmountsAreOnChain` therefore says of a supply change
  only that it is that of *one* of the handled tokens.
* `is_erc` and `is_uniswap_pair` (`model/contract.py:15-23`) compare a value with members
  of the enumeration and are never true: contract rows are never stored
  (`CreationRows`).
* Internal transactions are inserted once per delivery, and `get_logs` delivers a
  transaction once per log (`StoredOnReturn` bounds the copies by the deliveries).

## 9. What is not modelled

* `KafkaProducerManager.send_message` has no caller.
* `KafkaManager.connect`: a worker that gives up connecting is one that crashes as it
  starts.
* `ContractParser.get_token_contract_data`, `get_pair_contract_data` and the three inserts
  of contracts: not reached (see section 8).
* Two entries for one address in the configuration: which one decides depends on
  the order of a set (`web3/parser.py:25-26`). `Category` and `Events` are functions
  of the address.
* The validators of `Config`, conversions of blocks and transactions, column types,
  log lines: pure data. `LogFilterTransactionProcessor` gets no messages, since the
  producer of its mode raises `NotImplementedError`.
* Faults in `Pipeline`: they are in `Producer` and `Consumer`, and with them the
  state space of the composition is out of reach.
* Docker scripts and the tools under `src/etc`.

## 10. Plan

All modules of the plan are there, and every invariant and refinement that a
passing run checks is proved. What could be added:

1. The shape of `Leaves` for the full and the partial processor, stated from the
   logs alone as `AmountsAreOnChain` is, so that `StoredOnReturn` says which keys are
   there without the mappers.
2. Two consumer processes with faults for TLC, one of which is restarted while the
   other holds its partition: so far the safety of this rests on the theorems, and
   its liveness on the one process of `consumer_team` and on `pipeline`.
3. `Pipeline` with faults, for which the invariants of `PipelineInv` that rest on
   `NothingIsDuplicated` have to be weakened to "at least once".
