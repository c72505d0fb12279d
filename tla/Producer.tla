------------------------------ MODULE Producer ------------------------------
(***************************************************************************)
(* The data producer: DataProducer (app/producer.py) over                  *)
(* KafkaProducerManager (app/kafka/manager.py) and RedisManager            *)
(* (app/db/redis.py).                                                      *)
(*                                                                         *)
(* One process runs one asyncio task per data collection config.  The      *)
(* tasks share the process's Kafka manager (its _i_partition cursor), its  *)
(* single PostgreSQL connection and the Redis counters.  A step of this    *)
(* module is the code a task runs between two suspensions of the event     *)
(* loop, so every value a task reads before an await may be stale when it  *)
(* is used.                                                                *)
(*                                                                         *)
(* A message (a transaction hash tagged with its mode) is the triple       *)
(* <<t, b, k>>: the k-th message task t makes of block b.                  *)
(***************************************************************************)
EXTENDS FiniteSums

CONSTANTS
    Tasks,             \* one task per entry of Config.data_collection
    Mode,              \* Mode[t]: the DataCollectionMode of task t
    StartBlock,        \* StartBlock[t]: config start_block, or None
    EndBlock,          \* EndBlock[t]: config end_block, or None
    None,              \* Python's None
    NoTask,            \* the database connection is idle
    LatestBlock,       \* the node's latest block
    BlockSize,         \* BlockSize[b]: number of transactions of block b
    LogCount,          \* LogCount[t]: number of logs eth_getLogs returns to t
    NPartitions,       \* partitions of the Kafka topic
    MaxPerPartition,   \* MAX_MESSAGES_PER_PARTITION
    MessagesPerBatch,  \* MESSAGES_PER_BATCH
    BatchCapacity,     \* messages that fit into max_batch_size bytes
    Faults,            \* the faults the environment may inject
    MaxRestarts        \* how often a failed producer is started again

Modes == {"full", "partial", "get_logs", "log_filter"}
BlockModes == {"full", "partial"}
FaultKinds == {"timeout", "error", "crash"}

ASSUME ProducerAssumption ==
    /\ IsFiniteSet(Tasks) /\ NoTask \notin Tasks
    /\ None \notin Int
    /\ Mode \in [Tasks -> Modes]
    /\ StartBlock \in [Tasks -> Nat \cup {None}]
    /\ EndBlock \in [Tasks -> Nat \cup {None}]
    /\ LatestBlock \in Nat
    /\ BlockSize \in [0 .. LatestBlock -> Nat]
    /\ LogCount \in [Tasks -> Nat]
    /\ NPartitions \in Nat \ {0}
    /\ MaxPerPartition \in Nat
    /\ MessagesPerBatch \in Nat \ {0}
    /\ BatchCapacity \in Nat \ {0}
    /\ Faults \subseteq FaultKinds
    /\ MaxRestarts \in Nat

Partitions == 0 .. NPartitions - 1
LowestScoreMode == -1   \* _i_partition after the first round over the partitions
Running == -1           \* exitCode of a process that has not exited

VARIABLES
    \* one asyncio task
    pc,          \* where the task is suspended
    first,       \* start_block
    block,       \* i_block
    sent,        \* messages of the block that earlier chunks held
    part,        \* the partition chosen for the current chunk
    seen,        \* what limit_topic_capacity concluded from its last read of Redis
    stalled,     \* stall_counter # 0
    outcome,     \* how the task ended
    \* the process
    iPartition,  \* KafkaProducerManager._i_partition
    dbUser,      \* the task whose query is in progress on the connection
    exitCode,
    restarts,
    \* PostgreSQL, Redis and Kafka: they outlive the process
    blocks,      \* block numbers in the <node>_block table
    score,       \* the sorted set <topic>_n_transactions
    members,     \* the partitions that are members of the sorted set
    logEnd,      \* messages stored in each partition
    drained,     \* messages the consumers have subtracted from the score
    \* history
    published,   \* messages stored in the topic
    givenUp      \* messages whose loss was only logged

taskVars == <<pc, first, block, sent, part, seen, stalled, outcome>>
procVars == <<iPartition, dbUser, exitCode, restarts>>
storeVars == <<blocks, score, members, logEnd, drained>>
history == <<published, givenUp>>
vars == <<taskVars, procVars, storeVars, history>>

-----------------------------------------------------------------------------
(* What a task sends *)

Lesser(m, n) == IF m <= n THEN m ELSE n

(* The number of messages task t makes of block b, and of its current one. *)
SizeOf(t, b) == IF Mode[t] = "get_logs" THEN LogCount[t] ELSE BlockSize[b]
Size(t) == SizeOf(t, block[t])

(* MESSAGES_PER_BATCH messages to a chunk; the last one may be shorter.    *)
ChunkEnd(t) == Lesser(sent[t] + MessagesPerBatch, Size(t))

(* kafka_batch.append refuses the messages that overflow the batch. *)
AppendedEnd(t) == Lesser(sent[t] + BatchCapacity, ChunkEnd(t))

Messages(t, from, to) == {<<t, block[t], k>> : k \in from + 1 .. to}

(* get_n_transactions: the sum of the scores.  limit_topic_capacity only   *)
(* distinguishes the falsy 0, a total above the limit, and the rest.       *)
Total == SumOver(score)
Limit == MaxPerPartition * NPartitions
Verdict == IF Total = 0 THEN "empty" ELSE IF Total > Limit THEN "full" ELSE "room"

(* get_lowest_score_partition() or 0.  Redis breaks a tie by the members'   *)
(* names as strings; any of them may be the one here.                      *)
LowestScorePartitions ==
    IF members = {} THEN {0}
    ELSE {p \in members : \A q \in members : score[p] <= score[q]}

ShouldContinue_Exclusive(t) ==   \* mutant: i < end_block
    IF EndBlock[t] = None THEN TRUE ELSE block[t] < EndBlock[t]
ShouldContinue(t) == IF EndBlock[t] = None THEN TRUE ELSE block[t] <= EndBlock[t]

-----------------------------------------------------------------------------
StartPc(t) == IF Mode[t] \in BlockModes THEN "bounds" ELSE "fetch"

InitTasks ==
    /\ pc = [t \in Tasks |-> StartPc(t)]
    /\ first = [t \in Tasks |-> 0]
    /\ block = [t \in Tasks |-> 0]
    /\ sent = [t \in Tasks |-> 0]
    /\ part = [t \in Tasks |-> 0]
    /\ seen = [t \in Tasks |-> "empty"]
    /\ stalled = [t \in Tasks |-> FALSE]
    /\ outcome = [t \in Tasks |-> "running"]

Init ==
    /\ InitTasks
    /\ iPartition = 0 /\ dbUser = NoTask
    /\ exitCode = Running /\ restarts = 0
    /\ blocks = {}
    /\ score = [p \in Partitions |-> 0] /\ members = {}
    /\ logEnd = [p \in Partitions |-> 0] /\ drained = [p \in Partitions |-> 0]
    /\ published = {} /\ givenUp = {}

Goto(t, label) ==
    /\ pc' = [pc EXCEPT ![t] = label]
    /\ UNCHANGED outcome

Finish(t, result) ==
    /\ pc' = [pc EXCEPT ![t] = "done"]
    /\ outcome' = [outcome EXCEPT ![t] = result]

-----------------------------------------------------------------------------
(* PostgreSQL: one asyncpg connection for all tasks.  A query that starts  *)
(* while another is in progress raises InterfaceError.                     *)

Released_Not(t) == dbUser   \* mutant: a query never releases the connection
Released(t) == IF dbUser = t THEN NoTask ELSE dbUser

AcquireConnection(t) ==
    /\ pc[t] \in {"bounds", "insert"}
    /\ dbUser = NoTask
    /\ dbUser' = t
    /\ Goto(t, IF pc[t] = "bounds" THEN "reading" ELSE "inserting")
    /\ UNCHANGED <<first, block, sent, part, seen, stalled, iPartition,
                   exitCode, restarts, storeVars, history>>

ConnectionBusy(t) ==
    /\ pc[t] \in {"bounds", "insert"}
    /\ dbUser # NoTask
    /\ Finish(t, "interface_error")
    /\ UNCHANGED <<first, block, sent, part, seen, stalled, procVars,
                   storeVars, history>>

(* The configuration comes before the database, and before the genesis     *)
(* block.                                                                  *)
FirstBlock_AfterLast(t) ==   \* mutant: the database comes first
    IF blocks # {} THEN Max(blocks) + 1
    ELSE IF StartBlock[t] = None THEN 0 ELSE StartBlock[t]
FirstBlock(t) == IF StartBlock[t] = None THEN 0 ELSE StartBlock[t]

(* BlockExplorer.get_exploration_bounds: get_block() has answered.         *)
DecideBounds(t) ==
    /\ pc[t] = "reading"
    /\ dbUser' = Released(t)
    /\ \/ /\ StartBlock[t] # None \/ blocks = {}
          /\ first' = [first EXCEPT ![t] = FirstBlock(t)]
          /\ block' = [block EXCEPT ![t] = FirstBlock(t)]
          /\ Goto(t, "fetch")
       \/ /\ StartBlock[t] = None /\ blocks # {}
          /\ Goto(t, "resume")
          /\ UNCHANGED <<first, block>>
    /\ UNCHANGED <<sent, part, seen, stalled, iPartition, exitCode, restarts,
                   storeVars, history>>

(* The last inserted block has been fetched; DatabaseManager has no method *)
(* get_block_transactions.                                                 *)
Resume(t) ==
    /\ pc[t] = "resume"
    /\ Finish(t, "attribute_error")
    /\ UNCHANGED <<first, block, sent, part, seen, stalled, procVars,
                   storeVars, history>>

(* insert_block has completed. *)
InsertBlock(t) ==
    /\ pc[t] = "inserting"
    /\ dbUser' = Released(t)
    /\ blocks' = blocks \cup {block[t]}
    /\ sent' = [sent EXCEPT ![t] = 0]
    /\ stalled' = [stalled EXCEPT ![t] = FALSE]
    /\ Goto(t, IF Size(t) > 0 THEN "limit" ELSE "advance")
    /\ UNCHANGED <<first, block, part, seen, iPartition, exitCode, restarts,
                   score, members, logEnd, drained, history>>

-----------------------------------------------------------------------------
(* The loop over the blocks *)

StopAtEndBlock(t) ==
    /\ pc[t] = "fetch" /\ Mode[t] \in BlockModes
    /\ ~ShouldContinue(t)
    /\ Finish(t, "ok")
    /\ UNCHANGED <<first, block, sent, part, seen, stalled, procVars,
                   storeVars, history>>

(* BlockNotFound ends the task normally. *)
StopAtLatestBlock(t) ==
    /\ pc[t] = "fetch" /\ Mode[t] \in BlockModes
    /\ ShouldContinue(t) /\ block[t] > LatestBlock
    /\ Finish(t, "ok")
    /\ UNCHANGED <<first, block, sent, part, seen, stalled, procVars,
                   storeVars, history>>

AfterBlockData_NoRow(t) == "limit"   \* mutant: the row is not inserted first
AfterBlockData(t) == IF Mode[t] = "full" THEN "reward" ELSE "insert"

GetBlockData(t) ==
    /\ pc[t] = "fetch" /\ Mode[t] \in BlockModes
    /\ ShouldContinue(t) /\ block[t] <= LatestBlock
    /\ Goto(t, AfterBlockData(t))
    /\ UNCHANGED <<first, block, sent, part, seen, stalled, procVars,
                   storeVars, history>>

GetBlockReward(t) ==
    /\ pc[t] = "reward"
    /\ Goto(t, "insert")
    /\ UNCHANGED <<first, block, sent, part, seen, stalled, procVars,
                   storeVars, history>>

(* i_block += 1; then log_producer_progress subtracts start_block from     *)
(* end_block, which raises TypeError when end_block is None.               *)
AdvanceBlock(t) ==
    /\ pc[t] = "advance"
    /\ block' = [block EXCEPT ![t] = @ + 1]
    /\ IF EndBlock[t] = None THEN Finish(t, "type_error") ELSE Goto(t, "fetch")
    /\ UNCHANGED <<first, sent, part, seen, stalled, procVars, storeVars, history>>

(* The other two producers *)

GetLogs(t) ==
    /\ pc[t] = "fetch" /\ Mode[t] = "get_logs"
    /\ Goto(t, IF LogCount[t] > 0 THEN "limit" ELSE "finish")
    /\ UNCHANGED <<first, block, sent, part, seen, stalled, procVars,
                   storeVars, history>>

FinishLogs(t) ==
    /\ pc[t] = "finish"
    /\ Finish(t, "ok")
    /\ UNCHANGED <<first, block, sent, part, seen, stalled, procVars,
                   storeVars, history>>

LogFilter(t) ==
    /\ pc[t] = "fetch" /\ Mode[t] = "log_filter"
    /\ Finish(t, "not_implemented")
    /\ UNCHANGED <<first, block, sent, part, seen, stalled, procVars,
                   storeVars, history>>

-----------------------------------------------------------------------------
(* limit_topic_capacity *)

ReadTopicSize(t) ==
    /\ pc[t] = "limit"
    /\ seen' = [seen EXCEPT ![t] = Verdict]
    /\ Goto(t, "decide")
    /\ UNCHANGED <<first, block, sent, part, stalled, procVars, storeVars, history>>

(* A total of 0 lets the batch through only if it never had to wait.       *)
HasSpace_Always(t) == TRUE                \* mutant: the limit is not checked
HasSpace_OnlyCounted(t) == seen[t] = "room"   \* mutant: no case for 0
HasSpace(t) == seen[t] = "room" \/ (seen[t] = "empty" /\ ~stalled[t])

AdmitBatch(t) ==
    /\ pc[t] = "decide"
    /\ HasSpace(t)
    /\ Goto(t, "chunk")
    /\ UNCHANGED <<first, block, sent, part, seen, stalled, procVars,
                   storeVars, history>>

Stall(t) ==
    /\ pc[t] = "decide"
    /\ seen[t] = "full"
    /\ stalled' = [stalled EXCEPT ![t] = TRUE]
    /\ Goto(t, "limit")
    /\ UNCHANGED <<first, block, sent, part, seen, procVars, storeVars, history>>

SpinOnEmptyTopic(t) ==
    /\ pc[t] = "decide"
    /\ seen[t] = "empty" /\ stalled[t]
    /\ Goto(t, "limit")
    /\ UNCHANGED <<first, block, sent, part, seen, stalled, procVars,
                   storeVars, history>>

-----------------------------------------------------------------------------
(* send_batch: append a chunk, choose its partition, send, count *)

AfterBatch(t) == IF Mode[t] = "get_logs" THEN "finish" ELSE "advance"

AfterChunk_OnlyOne(t) == AfterBatch(t)   \* mutant: returns in the loop
AfterChunk(t) == IF ChunkEnd(t) < Size(t) THEN "chunk" ELSE AfterBatch(t)

AfterTimeout_Resend(t) == "send"         \* mutant: the batch is sent again
AfterTimeout(t) == AfterBatch(t)

(* n_appended_messages *)
Appended_WholeChunk(t) == ChunkEnd(t) - sent[t]   \* mutant: len(chunk)
Appended_FullBatch(t) == MessagesPerBatch         \* mutant: a full chunk
Appended_AllMessages(t) == Size(t)                \* mutant: len(msgs)
Appended(t) == AppendedEnd(t) - sent[t]

LogOverflow(t) ==
    givenUp' = givenUp \cup Messages(t, AppendedEnd(t), ChunkEnd(t))

NextPartition_NoEnd == iPartition + 1    \* mutant: the round never ends
NextPartition_Same == iPartition         \* mutant: no increment
NextPartition ==
    IF iPartition + 1 = NPartitions THEN LowestScoreMode ELSE iPartition + 1

ChooseNextPartition(t) ==
    /\ pc[t] = "chunk"
    /\ iPartition # LowestScoreMode
    /\ LogOverflow(t)
    /\ part' = [part EXCEPT ![t] = iPartition]
    /\ iPartition' = NextPartition
    /\ Goto(t, "send")
    /\ UNCHANGED <<first, block, sent, seen, stalled, dbUser, exitCode,
                   restarts, storeVars, published>>

ChooseLowestScorePartition(t) ==
    /\ pc[t] = "chunk"
    /\ iPartition = LowestScoreMode
    /\ LogOverflow(t)
    /\ \E p \in LowestScorePartitions : part' = [part EXCEPT ![t] = p]
    /\ Goto(t, "send")
    /\ UNCHANGED <<first, block, sent, seen, stalled, procVars, storeVars,
                   published>>

(* The broker stores the batch; its acknowledgement is on the way. *)
StoreBatch(t) ==
    /\ pc[t] = "send"
    /\ logEnd' = [logEnd EXCEPT ![part[t]] = @ + (AppendedEnd(t) - sent[t])]
    /\ published' = published \cup Messages(t, sent[t], AppendedEnd(t))
    /\ Goto(t, "ack")
    /\ UNCHANGED <<first, block, sent, part, seen, stalled, procVars, blocks,
                   score, members, drained, givenUp>>

(* The record has arrived and incrby_n_transactions has been applied. *)
CountBatch(t) ==
    /\ pc[t] = "ack"
    /\ score' = [score EXCEPT ![part[t]] = @ + Appended(t)]
    /\ members' = members \cup {part[t]}
    /\ sent' = [sent EXCEPT ![t] = ChunkEnd(t)]
    /\ Goto(t, AfterChunk(t))
    /\ UNCHANGED <<first, block, part, seen, stalled, procVars, blocks,
                   logEnd, drained, history>>

(* KafkaTimeoutError, before or after the broker stored the batch: it is   *)
(* logged, the rest of the block's messages is dropped, and the caller     *)
(* goes on as if send_batch had returned records.                          *)
SendTimesOut(t) ==
    /\ "timeout" \in Faults
    /\ pc[t] \in {"send", "ack"}
    /\ givenUp' = givenUp \cup Messages(t, sent[t], Size(t))
    /\ Goto(t, AfterTimeout(t))
    /\ UNCHANGED <<first, block, sent, part, seen, stalled, procVars,
                   storeVars, published>>

-----------------------------------------------------------------------------
(* Failures of awaited calls, and the process *)

Awaiting(t) ==
    \/ pc[t] \in {"reading", "resume", "fetch", "reward", "inserting", "limit",
                  "send", "ack", "advance"}
    \/ pc[t] = "chunk" /\ iPartition = LowestScoreMode

(* The node, PostgreSQL, Kafka or Redis raises anything but BlockNotFound  *)
(* or KafkaTimeoutError: the exception ends the task.                      *)
CallRaises(t) ==
    /\ "error" \in Faults
    /\ Awaiting(t)
    /\ Finish(t, "error")
    /\ dbUser' = Released(t)
    /\ UNCHANGED <<first, block, sent, part, seen, stalled, iPartition,
                   exitCode, restarts, storeVars, history>>

(* start_producing_data: gather(return_exceptions=True) waits for all.     *)
ExitStatus_All ==   \* mutant: only if every task failed
    IF \A t \in Tasks : outcome[t] # "ok" THEN 1 ELSE 0
ExitStatus == IF \E t \in Tasks : outcome[t] # "ok" THEN 1 ELSE 0

Exit ==
    /\ exitCode = Running
    /\ \A t \in Tasks : pc[t] = "done"
    /\ exitCode' = ExitStatus
    /\ UNCHANGED <<taskVars, iPartition, dbUser, restarts, storeVars, history>>

Crash ==
    /\ "crash" \in Faults
    /\ exitCode = Running
    /\ exitCode' = 1
    /\ UNCHANGED <<taskVars, iPartition, dbUser, restarts, storeVars, history>>

(* The operator starts the failed producer again (restart_policy is for    *)
(* the consumers only): a new process, the stores as they were left.       *)
Restart ==
    /\ exitCode = 1 /\ restarts < MaxRestarts
    /\ restarts' = restarts + 1
    /\ exitCode' = Running
    /\ iPartition' = 0 /\ dbUser' = NoTask
    /\ pc' = [t \in Tasks |-> StartPc(t)]
    /\ first' = [t \in Tasks |-> 0]
    /\ block' = [t \in Tasks |-> 0]
    /\ sent' = [t \in Tasks |-> 0]
    /\ part' = [t \in Tasks |-> 0]
    /\ seen' = [t \in Tasks |-> "empty"]
    /\ stalled' = [t \in Tasks |-> FALSE]
    /\ outcome' = [t \in Tasks |-> "running"]
    /\ UNCHANGED <<storeVars, history>>

(* The consumers: each message stored in a partition is subtracted once.   *)
ConsumerDecrements(p) ==
    /\ drained[p] < logEnd[p]
    /\ drained' = [drained EXCEPT ![p] = @ + 1]
    /\ score' = [score EXCEPT ![p] = @ - 1]
    /\ members' = members \cup {p}
    /\ UNCHANGED <<taskVars, procVars, blocks, logEnd, history>>

Terminated ==
    /\ exitCode = 0 \/ (exitCode = 1 /\ restarts = MaxRestarts)
    /\ UNCHANGED vars

-----------------------------------------------------------------------------
(* All tasks are created before start_producing_data first suspends (the    *)
(* client knows the partitions after the first time), so each of them has  *)
(* issued its first query before any answer can arrive.                    *)
AllStarted_OneByOne == TRUE   \* mutant: a task runs while others are being created
AllStarted == \A t \in Tasks : pc[t] # "bounds"

(* What the event loop runs when task t is resumed without a failure *)
TaskStep(t) ==
    /\ exitCode = Running
    /\ pc[t] = "bounds" \/ AllStarted
    /\ \/ AcquireConnection(t) \/ ConnectionBusy(t) \/ DecideBounds(t)
       \/ Resume(t) \/ InsertBlock(t)
       \/ StopAtEndBlock(t) \/ StopAtLatestBlock(t) \/ GetBlockData(t)
       \/ GetBlockReward(t) \/ AdvanceBlock(t)
       \/ GetLogs(t) \/ FinishLogs(t) \/ LogFilter(t)
       \/ ReadTopicSize(t) \/ AdmitBatch(t) \/ Stall(t) \/ SpinOnEmptyTopic(t)
       \/ ChooseNextPartition(t) \/ ChooseLowestScorePartition(t)
       \/ StoreBatch(t) \/ CountBatch(t)

TaskFault(t) ==
    /\ exitCode = Running /\ AllStarted
    /\ SendTimesOut(t) \/ CallRaises(t)

ProcessStep == Exit \/ Crash \/ Restart

Next ==
    \/ \E t \in Tasks : TaskStep(t) \/ TaskFault(t)
    \/ ProcessStep
    \/ \E p \in Partitions : ConsumerDecrements(p)
    \/ Terminated

Spec == Init /\ [][Next]_vars

(* The event loop resumes every task whose awaited call has completed, and *)
(* the consumers go on while there are messages.  No fault is ever owed,   *)
(* and no restart: a failed producer is started again by hand.             *)
Fairness ==
    /\ \A t \in Tasks : WF_vars(TaskStep(t))
    /\ WF_vars(Exit)
    /\ \A p \in Partitions : WF_vars(ConsumerDecrements(p))

FairSpec == Spec /\ Fairness
-----------------------------------------------------------------------------
TypeOK ==
    /\ pc \in [Tasks -> {"bounds", "reading", "resume", "fetch", "reward",
                          "insert", "inserting", "limit", "decide", "chunk",
                          "send", "ack", "advance", "finish", "done"}]
    /\ first \in [Tasks -> Nat]
    /\ block \in [Tasks -> Nat]
    /\ sent \in [Tasks -> Nat]
    /\ part \in [Tasks -> Partitions]
    /\ seen \in [Tasks -> {"empty", "full", "room"}]
    /\ stalled \in [Tasks -> BOOLEAN]
    /\ outcome \in [Tasks -> {"running", "ok", "interface_error", "type_error",
                               "attribute_error", "not_implemented", "error"}]
    /\ iPartition \in Partitions \cup {LowestScoreMode}
    /\ dbUser \in Tasks \cup {NoTask}
    /\ exitCode \in {Running, 0, 1}
    /\ restarts \in 0 .. MaxRestarts
    /\ blocks \subseteq Nat
    /\ score \in [Partitions -> Int]
    /\ members \subseteq Partitions
    /\ logEnd \in [Partitions -> Nat]
    /\ drained \in [Partitions -> Nat]
    /\ published \subseteq Tasks \X Nat \X Nat
    /\ givenUp \subseteq Tasks \X Nat \X Nat

(* Nothing is lost in silence: every message of every block a task has     *)
(* left behind is in the topic, or send_batch logged that it gave it up    *)
(* (producer.py:131-148, manager.py:215-270).                              *)
Accounted(t, b) ==
    \A k \in 1 .. SizeOf(t, b) : <<t, b, k>> \in published \cup givenUp

NothingSkipped ==
    \A t \in Tasks : \A b \in first[t] .. block[t] - 1 : Accounted(t, b)

(* A process that exits with 0 has been through the whole configured       *)
(* range, up to the latest block of the node (producer.py:229-263).        *)
LastBlock(t) ==
    IF EndBlock[t] = None THEN LatestBlock ELSE Lesser(EndBlock[t], LatestBlock)

BlocksFrom(t, b) == IF Mode[t] = "get_logs" THEN {0} ELSE b .. LastBlock(t)
Workload(t) == BlocksFrom(t, first[t])

SuccessCoversRange ==
    exitCode = 0 => \A t \in Tasks : \A b \in Workload(t) : Accounted(t, b)

(* A block's row is in PostgreSQL before any of its transactions can reach *)
(* a consumer (producer.py:127-138).                                       *)
RowBeforeMessages ==
    \A m \in published : Mode[m[1]] \in BlockModes => m[2] \in blocks

(* The counter the limiter reads against the topic itself: batches whose   *)
(* acknowledgement is still on its way apart, it never claims more         *)
(* messages than wait there, and until something goes wrong it claims      *)
(* exactly these (manager.py:249-255, redis.py:43-49).                     *)
InTransit(p) ==   \* stored by StoreBatch, not counted yet
    [t \in Tasks |-> IF exitCode = Running /\ pc[t] = "ack" /\ part[t] = p
                     THEN AppendedEnd(t) - sent[t] ELSE 0]

Unacknowledged(p) == SumOver(InTransit(p))

Undisturbed ==
    \/ Faults = {}
    \/ /\ Faults = {"error"} /\ restarts = 0
       /\ \A t \in Tasks : outcome[t] # "error"

CounterMatchesTopic ==
    \A p \in Partitions :
        LET waiting == logEnd[p] - drained[p]
        IN  /\ score[p] + Unacknowledged(p) <= waiting
            /\ Undisturbed => score[p] + Unacknowledged(p) = waiting

(* limit_topic_capacity checks before a whole block is sent, and every     *)
(* task checks for itself: the counter passes the limit, but by no more    *)
(* than one block of each task (manager.py:105-144).                       *)
LargestBatch(t) == IF Mode[t] = "get_logs" THEN LogCount[t]
                   ELSE Max({BlockSize[b] : b \in 0 .. LatestBlock})

OvershootBounded == Total <= Limit + SumOver([t \in Tasks |-> LargestBatch(t)])

(* The first round over the partitions reaches them in order: none gets a  *)
(* batch before its turn (manager.py:152-165).                             *)
FirstRoundInOrder ==
    restarts = 0 /\ iPartition # LowestScoreMode =>
        \A p \in iPartition .. NPartitions - 1 :
            /\ logEnd[p] = 0
            /\ \A t \in Tasks : pc[t] \in {"send", "ack"} => part[t] # p

(* The topic holds a message once unless the producer was restarted: a     *)
(* timed-out batch is never sent again (manager.py:263-270).               *)
NoDuplicatesWithoutRestart ==
    restarts = 0 => SumOver(logEnd) = Cardinality(published)

(* A row does not outlive its messages: once a producer has succeeded, the *)
(* blocks whose rows failed producers left behind have got theirs as well  *)
(* (producer.py:127-138, block_explorer.py:46-51).                         *)
BlockTasks == {t \in Tasks : Mode[t] \in BlockModes}

RowsGetMessages ==
    exitCode = 0 => \A b \in blocks : \E t \in BlockTasks : Accounted(t, b)

(* Contention for the connection fails the latecomers, never all of the    *)
(* tasks that use it (producer.py:241-246, db/manager.py:29).              *)
ContentionSparesOne ==
    BlockTasks # {} => \E t \in BlockTasks : outcome[t] # "interface_error"

(* A task fails of itself only where the code cannot go on: without an end *)
(* block when its first block is done, without a start block on a database *)
(* that has rows, or on its very first query: once a task has its bounds,  *)
(* no other is left that could be in its way                               *)
(* (utils/__init__.py:22, block_explorer.py:56, db/manager.py:356).        *)
FailuresExplained ==
    \A t \in Tasks :
        /\ outcome[t] = "type_error" =>
               EndBlock[t] = None /\ block[t] = first[t] + 1
        /\ outcome[t] = "attribute_error" => StartBlock[t] = None /\ blocks # {}
        /\ outcome[t] = "interface_error" =>
               t \in BlockTasks /\ block[t] = 0 /\ first[t] = 0

(* The producer implements the abstract feed of module BlockFeed:          *)
(* producer.py:92-190 and manager.py:198-270 go through the blocks in      *)
(* order and succeed only at the end.                                      *)
FeedStatus(t) == CASE outcome[t] = "running" -> "working"
                   [] outcome[t] = "ok" -> "ok"
                   [] OTHER -> "failed"

Feed == INSTANCE BlockFeed WITH
            Size <- SizeOf, Range <- BlocksFrom,
            feed <- published \cup givenUp,
            start <- first, cursor <- block,
            status <- [t \in Tasks |-> FeedStatus(t)],
            succeeded <- (exitCode = 0)

ImplementsFeed == Feed!Spec

(* What comments and docs of the repository say, and the code does not do: *)

(* manager.py:129 "Try again after sleeping": a stalled producer does not  *)
(* stay stalled.                                                           *)
StallEnds == \A t \in Tasks : stalled[t] ~> pc[t] \in {"chunk", "done"}

(* block_explorer.py:63 "start from the last inserted block".              *)
RestartResumes == \A t \in Tasks : outcome[t] # "attribute_error"
=============================================================================
