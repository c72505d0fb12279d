--------------------------- MODULE Pipeline_proofs ---------------------------
(***************************************************************************)
(* Theorems about producer and consumers together, for every value of the  *)
(* constants: each is a legal environment of the other, and what waits in  *)
(* the topic is bounded.                                                   *)
(*                                                                         *)
(* The two were proved each against its environment; here neither          *)
(* environment is given.  So the invariants of both are shown at once: the *)
(* invariants of both sides make a step of one side a step of the other    *)
(* side's environment, and that step preserves the invariants.             *)
(***************************************************************************)
EXTENDS Pipeline, ProducerCounters_proofs

(* The theorems about the consumers, as Cons instantiates them. *)
CP == INSTANCE Consumer_proofs WITH
          Faults <- {}, MaxFaults <- 0, MaxRestarts <- 0,
          exitCode <- consumerExit, restarts <- consumerRestarts,
          faults <- consumerFaults,
          counted <- [p \in Partitions |-> score[p] + drained[p]]

(* What the consumers' module assumes. *)
LEMMA ConsumersAssumed ==
    /\ ProcessOf \in [Consumers -> Processes] /\ Nobody \notin Consumers
    /\ NPartitions \in Nat \ {0} /\ MaxOffset \in Nat
    /\ {} \subseteq CP!FaultKinds /\ 0 \in Nat
  BY PipelineAssumption, ProducerAssumption

(* Both instances have the same steps. *)
LEMMA SameInit == Cons!Init => CP!Init
  BY Zenon DEF Cons!Init, CP!Init, Cons!Partitions, CP!Partitions, Cons!Running,
         CP!Running, Cons!NoMessage, CP!NoMessage

LEMMA SameNext == [Cons!Next]_(Cons!vars) => [CP!Next]_(CP!vars)
<1>1. Cons!Next => CP!Next
  BY Zenon
     DEF
         Cons!Partitions, CP!Partitions, Cons!Running, CP!Running,
         Cons!consumerVars, CP!consumerVars, Cons!processVars, CP!processVars,
         Cons!groupVars, CP!groupVars, Cons!topicVars, CP!topicVars,
         Cons!deliveries, CP!deliveries, Cons!fates, CP!fates, Cons!vars,
         CP!vars, Cons!Alive, CP!Alive, Cons!Members, CP!Members, Cons!Team,
         CP!Team, Cons!Owned, CP!Owned, Cons!Deliverable, CP!Deliverable,
         Cons!Handling, CP!Handling, Cons!Offsets, CP!Offsets,
         Cons!AllMessages, CP!AllMessages, Cons!NoMessage, CP!NoMessage,
         Cons!Rebalance, CP!Rebalance, Cons!Commit, CP!Commit,
         Cons!Committable, CP!Committable, Cons!Balanced, CP!Balanced,
         Cons!Cardinality, CP!Cardinality, Cons!IsFiniteSet, CP!IsFiniteSet,
         Cons!Exit, CP!Exit, Cons!CutOff, CP!CutOff, Cons!Idle, CP!Idle,
         Cons!Forgotten, CP!Forgotten, Cons!ExitStatus, CP!ExitStatus,
         Cons!Crash, CP!Crash, Cons!Restart, CP!Restart, Cons!HandlingRaises,
         CP!HandlingRaises, Cons!Evict, CP!Evict, Cons!Terminated,
         CP!Terminated, Cons!Ended, CP!Ended, Cons!Receive, CP!Receive,
         Cons!TimerOnEvent, CP!TimerOnEvent, Cons!Decrement, CP!Decrement,
         Cons!Decremented, CP!Decremented, Cons!AfterDecrement,
         CP!AfterDecrement, Cons!HandleEvent, CP!HandleEvent,
         Cons!AfterCallback, CP!AfterCallback, Cons!TimerAfterCallback,
         CP!TimerAfterCallback, Cons!Expire, CP!Expire, Cons!CommitOnStop,
         CP!CommitOnStop, Cons!LeaveGroup, CP!LeaveGroup, Cons!AutoCommit,
         CP!AutoCommit, Cons!Store, CP!Store, Cons!Count, CP!Count,
         Cons!ListenerStep, CP!ListenerStep, Cons!RunnerStep, CP!RunnerStep,
         Cons!ConsumerFault, CP!ConsumerFault, Cons!Next, CP!Next
<1>2. Cons!vars = CP!vars /\ (UNCHANGED Cons!vars => UNCHANGED CP!vars)
  BY Zenon DEF Cons!vars, CP!vars, Cons!consumerVars, CP!consumerVars,
         Cons!processVars, CP!processVars, Cons!groupVars, CP!groupVars,
         Cons!topicVars, CP!topicVars, Cons!deliveries, CP!deliveries,
         Cons!fates, CP!fates, Cons!Partitions, CP!Partitions
<1>. QED BY <1>1, <1>2

-----------------------------------------------------------------------------
(* The invariant *)

(* What is stored and not yet counted, and what waits. *)
Transit == [t \in Tasks |-> IF pc[t] = "ack" THEN AppendedEnd(t) - sent[t] ELSE 0]
Backlog == [p \in Partitions |-> logEnd[p] - drained[p]]

ProducerInv ==
    /\ TypeInv /\ CounterMatchesTopic /\ WithinCredits /\ NoDuplicatesInv
    /\ restarts = 0 /\ published \subseteq AllWork

ConsumerInv ==
    /\ CP!TypeInv /\ CP!LateInv /\ CP!CounterInv
    /\ consumerFaults = 0

(* A consumer disconnects only after the producer has ended, and when it   *)
(* has nothing to receive: no message is late.                             *)
QuietInv ==
    /\ \A c \in Consumers :
          /\ runner[c] # "waiting" => exitCode # Running
          /\ runner[c] \in {"closing", "leaving"} =>
                \A p \in Partitions : owner[p] = c => position[p] >= logEnd[p]
    /\ late = {}
    /\ \A m \in received : m[2] <= logEnd[m[1]]

BacklogInv == SumOver(Backlog) = Total + SumOver(Transit)

PipelineInv == ProducerInv /\ ConsumerInv /\ QuietInv /\ BacklogInv

-----------------------------------------------------------------------------
(* The steps, by what they are to the producer. *)

ConsumerStep ==
    \/ \E c \in Consumers :
          /\ Cons!Alive(ProcessOf[c])
          /\ \/ \E p \in Partitions : Cons!Receive(c, p)
             \/ Cons!HandleEvent(c)
             \/ Expire(c) \/ Cons!CommitOnStop(c) \/ Cons!LeaveGroup(c)
    \/ \E c \in Consumers : Cons!AutoCommit(c)
    \/ Cons!Rebalance
    \/ \E w \in Processes : Cons!Exit(w)

(* The consumers write neither the topic nor their fault counter.          *)
LEMMA ConsumersAlone ==
    ASSUME ConsumerStep
    PROVE  logEnd' = logEnd /\ consumerFaults' = consumerFaults /\ Cons!Next
<1>1. CASE \E c \in Consumers, p \in Partitions :
              Cons!Alive(ProcessOf[c]) /\ Cons!Receive(c, p)
  BY <1>1 DEF Cons!Receive, Cons!Next, Cons!ListenerStep, Cons!topicVars,
              Cons!Partitions, Partitions
<1>2. CASE \E c \in Consumers : Cons!Alive(ProcessOf[c]) /\ Cons!HandleEvent(c)
  BY <1>2 DEF Cons!HandleEvent, Cons!Next, Cons!ListenerStep, Cons!topicVars
<1>3. CASE \E c \in Consumers : Cons!Alive(ProcessOf[c]) /\ Expire(c)
  BY <1>3 DEF Expire, Cons!Expire, Cons!Next, Cons!RunnerStep, Cons!topicVars
<1>4. CASE \E c \in Consumers : Cons!Alive(ProcessOf[c]) /\ Cons!CommitOnStop(c)
  BY <1>4 DEF Cons!CommitOnStop, Cons!Next, Cons!RunnerStep, Cons!topicVars
<1>5. CASE \E c \in Consumers : Cons!Alive(ProcessOf[c]) /\ Cons!LeaveGroup(c)
  BY <1>5 DEF Cons!LeaveGroup, Cons!Next, Cons!RunnerStep, Cons!topicVars
<1>6. CASE \E c \in Consumers : Cons!AutoCommit(c)
  BY <1>6 DEF Cons!AutoCommit, Cons!Next, Cons!topicVars
<1>7. CASE Cons!Rebalance
  BY <1>7 DEF Cons!Rebalance, Cons!Next, Cons!topicVars
<1>8. CASE \E w \in Processes : Cons!Exit(w)
  BY <1>8 DEF Cons!Exit, Cons!Next, Cons!topicVars
<1>. QED
  BY <1>1, <1>2, <1>3, <1>4, <1>5, <1>6, <1>7, <1>8 DEF ConsumerStep

(* A step of the pipeline is a step of one side.                           *)
LEMMA StepKinds ==
    ASSUME [PipelineNext]_pipelineVars
    PROVE  \/ \E t \in Tasks : TaskStep(t) /\ UNCHANGED consumerVars
           \/ Exit /\ UNCHANGED consumerVars
           \/ \E c \in Consumers : Cons!Alive(ProcessOf[c]) /\ Decrement(c)
           \/ ConsumerStep /\ UNCHANGED vars
           \/ UNCHANGED <<vars, consumerVars>>
<1>1. ASSUME ConsumerStep, UNCHANGED producerVars PROVE UNCHANGED vars
  BY <1>1, ConsumersAlone DEF producerVars, vars, storeVars
<1>2. CASE \E t \in Tasks : ProducerStep(t)
  BY <1>2 DEF ProducerStep
<1>3. CASE ProducerExit
  BY <1>3 DEF ProducerExit
<1>4. CASE \E c \in Consumers : ListenerStep(c) \/ RunnerStep(c) \/ AutoCommit(c)
  BY <1>1, <1>4 DEF ListenerStep, Listen, RunnerStep, AutoCommit, ConsumerStep
<1>5. CASE Rebalance \/ \E w \in Processes : ConsumersExit(w)
  BY <1>1, <1>5 DEF Rebalance, ConsumersExit, ConsumerStep
<1>6. CASE PipelineTerminated \/ UNCHANGED pipelineVars
  BY <1>6 DEF PipelineTerminated, pipelineVars
<1>. QED BY <1>2, <1>3, <1>4, <1>5, <1>6 DEF PipelineNext

-----------------------------------------------------------------------------
(* There is room for all messages. *)

(* The values of a function on a finite set.                               *)
LEMMA ValuesFinite ==
    ASSUME NEW S, IsFiniteSet(S), NEW f, DOMAIN f = S, f = [x \in S |-> f[x]]
    PROVE  IsFiniteSet({f[x] : x \in S})
<1>1. f \in Surjection(S, {f[x] : x \in S})
  BY DEF Surjection
<1>. QED BY <1>1, FS_Surjection

(* All there is to publish, one task and one block at a time.              *)
LEMMA WorkFinite == IsFiniteSet(AllWork)
<1>1. ASSUME NEW t \in Tasks, NEW b \in BlocksOf(t)
      PROVE  IsFiniteSet({<<t, b, k>> : k \in 1 .. SizeOf(t, b)})
  <2>. DEFINE S == 1 .. SizeOf(t, b)
              f == [k \in S |-> <<t, b, k>>]
  <2>1. SizeOf(t, b) \in Nat
    BY ProducerAssumption DEF BlocksOf, SizeOf
  <2>4. IsFiniteSet(S)
    BY <2>1, FS_Interval
  <2>2. DOMAIN f = S /\ f = [k \in S |-> f[k]]
    OBVIOUS
  <2>3. {<<t, b, k>> : k \in 1 .. SizeOf(t, b)} = {f[k] : k \in S}
    OBVIOUS
  <2>. HIDE DEF f, S
  <2>. QED BY <2>4, <2>2, <2>3, ValuesFinite
<1>2. ASSUME NEW t \in Tasks
      PROVE  IsFiniteSet(UNION {{<<t, b, k>> : k \in 1 .. SizeOf(t, b)} : b \in BlocksOf(t)})
  <2>. DEFINE S == BlocksOf(t)
              f == [b \in S |-> {<<t, b, k>> : k \in 1 .. SizeOf(t, b)}]
  <2>1. IsFiniteSet(S)
    <3>1. IsFiniteSet(0 .. LatestBlock)
      BY FS_Interval, ProducerAssumption
    <3>2. IsFiniteSet({0})
      BY FS_Singleton
    <3>. QED BY <3>1, <3>2 DEF BlocksOf
  <2>2. DOMAIN f = S /\ f = [b \in S |-> f[b]] /\ \A b \in S : IsFiniteSet(f[b])
    BY <1>1
  <2>3. {{<<t, b, k>> : k \in 1 .. SizeOf(t, b)} : b \in BlocksOf(t)} = {f[b] : b \in S}
    OBVIOUS
  <2>. HIDE DEF f, S
  <2>4. IsFiniteSet({f[b] : b \in S}) /\ \A T \in {f[b] : b \in S} : IsFiniteSet(T)
    BY <2>1, <2>2, ValuesFinite
  <2>5. IsFiniteSet(UNION {f[b] : b \in S})
    BY <2>4, FS_UNION
  <2>. QED BY <2>3, <2>5
<1>. DEFINE f == [t \in Tasks |->
                     UNION {{<<t, b, k>> : k \in 1 .. SizeOf(t, b)} : b \in BlocksOf(t)}]
<1>3. DOMAIN f = Tasks /\ f = [t \in Tasks |-> f[t]] /\ \A t \in Tasks : IsFiniteSet(f[t])
  BY <1>2
<1>4. AllWork = UNION {f[t] : t \in Tasks}
  BY DEF AllWork
<1>. HIDE DEF f
<1>5. IsFiniteSet(Tasks)
  BY ProducerAssumption
<1>6. IsFiniteSet({f[t] : t \in Tasks})
  BY <1>3, <1>5, ValuesFinite
<1>7. \A T \in {f[t] : t \in Tasks} : IsFiniteSet(T)
  BY <1>3
<1>. QED BY <1>4, <1>6, <1>7, FS_UNION

(* A topic without duplicates holds no more than there is to publish.      *)
TopicWithinBound == \A p \in Partitions : logEnd[p] \in 0 .. MaxOffset

LEMMA TopicFits == ProducerInv => TopicWithinBound
<1>. SUFFICES ASSUME ProducerInv, NEW p \in Partitions
              PROVE  logEnd[p] \in 0 .. MaxOffset
  BY DEF TopicWithinBound
<1>1. logEnd \in [Partitions -> Nat]
  BY DEF ProducerInv, TypeInv, TypeOK
<1>2. logEnd[p] <= SumOver(logEnd) /\ SumOver(logEnd) \in Nat
  BY <1>1, SumAtLeastSummand, SumNonnegative, PartitionsFinite
<1>3. SumOver(logEnd) = Cardinality(published)
  BY DEF ProducerInv, NoDuplicatesInv, NoDuplicatesWithoutRestart
<1>4. Cardinality(published) <= Cardinality(AllWork)
  BY WorkFinite, FS_Subset DEF ProducerInv
<1>5. Cardinality(published) \in Nat /\ Cardinality(AllWork) \in Nat
  BY <1>2, <1>3, WorkFinite, FS_CardinalityType
<1>. QED BY <1>1, <1>2, <1>3, <1>4, <1>5, PipelineAssumption

-----------------------------------------------------------------------------
(* The consumers are what the producer expects of them. *)

LEMMA SameCardinality == \A S : CP!Cardinality(S) = Cardinality(S)
  BY Zenon DEF CP!Cardinality, CP!IsFiniteSet, Cardinality, IsFiniteSet

(* The offsets up to n are n messages.                                     *)
LEMMA OffsetsCounted ==
    ASSUME NEW p, NEW n \in Nat
    PROVE  /\ IsFiniteSet({<<p, o>> : o \in 1 .. n})
           /\ Cardinality({<<p, o>> : o \in 1 .. n}) = n
<1>. DEFINE S == 1 .. n
            M == {<<p, o>> : o \in 1 .. n}
            f == [o \in S |-> <<p, o>>]
<1>1. f \in Bijection(S, M)
  <2>1. f \in [S -> M] /\ \A m \in M : \E k \in S : f[k] = m
    OBVIOUS
  <2>2. \A j, k \in S : f[j] = f[k] => j = k
    OBVIOUS
  <2>. HIDE DEF f, S, M
  <2>. QED BY <2>1, <2>2 DEF Bijection, Injection, Surjection, IsInjective
<1>2. IsFiniteSet(S) /\ Cardinality(S) = n
  BY FS_Interval
<1>. HIDE DEF f, S, M
<1>3. IsFiniteSet(M) /\ Cardinality(M) = Cardinality(S)
  BY <1>1, <1>2, FS_Bijection DEF ExistsBijection
<1>. QED BY <1>2, <1>3 DEF M

(* What has been subtracted is what the listeners have taken in hand; they *)
(* have received it, and it has been stored.                               *)
LEMMA SubtractedIsTaken ==
    ASSUME PipelineInv, NEW p \in Partitions
    PROVE  /\ received \subseteq Partitions \X Nat
           /\ \A n \in received : n[2] \in 1 .. logEnd[n[1]]
           /\ logEnd[p] \in Nat
           /\ drained[p] \in Nat /\ drained[p] = Cardinality(CP!Taken(p))
           /\ CP!Taken(p) \subseteq Taken(p)
           /\ Taken(p) \subseteq {<<p, o>> : o \in 1 .. logEnd[p]}
           /\ IsFiniteSet(CP!Taken(p)) /\ IsFiniteSet(Taken(p))
<1>. DEFINE S == {<<p, o>> : o \in 1 .. logEnd[p]}
<1>1. /\ logEnd[p] \in Nat /\ score[p] \in Int /\ drained[p] \in Nat
  BY DEF PipelineInv, ProducerInv, TypeInv, TypeOK
<1>2. /\ received \subseteq Partitions \X Nat
      /\ \A n \in received : n[2] \in 1 .. logEnd[n[1]]
  BY ConsumersAssumed, PipelineAssumption
     DEF PipelineInv, ConsumerInv, QuietInv, CP!TypeInv, CP!TypeOK,
         CP!AllMessages, CP!Partitions, CP!Offsets, Partitions
<1>3. Taken(p) \subseteq S /\ CP!Taken(p) \subseteq Taken(p)
  BY <1>2 DEF Taken, CP!Taken
<1>4. IsFiniteSet(S)
  BY <1>1, OffsetsCounted
<1>5. IsFiniteSet(CP!Taken(p)) /\ IsFiniteSet(Taken(p))
  <2>. HIDE DEF S
  <2>1. IsFiniteSet(Taken(p))
    BY <1>3, <1>4, FS_Subset
  <2>. QED BY <1>3, <2>1, FS_Subset
<1>6. Cardinality(CP!Taken(p)) \in Nat
  BY <1>5, FS_CardinalityType
<1>7. score[p] = (score[p] + drained[p]) - Cardinality(CP!Taken(p))
  <2>1. CP!Tracked(p)
    BY DEF PipelineInv, ConsumerInv, QuietInv, CP!CounterInv, CP!Clean, CP!LateInv,
           CP!SufferLate, CP!Partitions, Partitions
  <2>. QED BY <2>1, SameCardinality DEF CP!Tracked
<1>8. \A a \in Int, b \in Nat, n \in Nat : a = (a + b) - n => b = n
  OBVIOUS
<1>9. drained[p] = Cardinality(CP!Taken(p))
  BY <1>1, <1>6, <1>7, <1>8
<1>. QED BY <1>1, <1>2, <1>3, <1>5, <1>9

(* Every message a listener counts off is one that was stored, and one     *)
(* that nobody has counted off before.                                     *)
LEMMA DecrementIsLegal ==
    ASSUME PipelineInv, NEW c \in Consumers, Decrement(c)
    PROVE  \E p \in Partitions : ConsumerDecrements(p)
<1>. DEFINE m == current[c]
            p == m[1]
            S == {<<p, o>> : o \in 1 .. logEnd[p]}
<1>1. listener[c] = "decrement" /\ m \in received
  BY DEF Decrement, PipelineInv, ConsumerInv, CP!CounterInv, CP!Uncounted
<1>2. p \in Partitions
  <2>1. 0 \in Partitions
    BY ProducerAssumption DEF Partitions
  <2>2. received \subseteq Partitions \X Nat
    BY <2>1, SubtractedIsTaken
  <2>. QED BY <1>1, <2>2
<1>3. /\ p \in Partitions /\ m \in Taken(p) /\ m \notin CP!Taken(p)
  BY <1>1, <1>2 DEF Taken, CP!Taken
<1>4. /\ CP!Taken(p) \cup {m} \subseteq S /\ logEnd[p] \in Nat
      /\ drained[p] \in Nat /\ drained[p] = Cardinality(CP!Taken(p))
      /\ IsFiniteSet(CP!Taken(p))
  BY <1>3, SubtractedIsTaken
<1>5. IsFiniteSet(S) /\ Cardinality(S) = logEnd[p]
  BY <1>4, OffsetsCounted
<1>6. drained[p] < logEnd[p]
  <2>. HIDE DEF S, p, m
  <2>1. Cardinality(CP!Taken(p) \cup {m}) <= logEnd[p]
    BY <1>4, <1>5, FS_Subset
  <2>2. Cardinality(CP!Taken(p) \cup {m}) = Cardinality(CP!Taken(p)) + 1
    BY <1>3, <1>4, FS_AddElement
  <2>. QED BY <1>4, <2>1, <2>2
<1>7. /\ drained' = [drained EXCEPT ![p] = @ + 1]
      /\ members' = members \cup {p}
      /\ score' = [score EXCEPT ![p] = @ - 1]
      /\ logEnd' = logEnd
      /\ UNCHANGED <<taskVars, procVars, blocks, history>>
  BY DEF Decrement, Cons!Decrement, Cons!Decremented
<1>. QED BY <1>3, <1>6, <1>7 DEF ConsumerDecrements

-----------------------------------------------------------------------------
(* The invariants of the producer *)

(* A task touches the topic and the counters only to store and to count.   *)
LEMMA OnlyTwoStepsWrite ==
    ASSUME NEW t \in Tasks, TaskStep(t), ~StoreBatch(t), ~CountBatch(t)
    PROVE  UNCHANGED <<score, logEnd, drained, published, restarts>>
  BY DEF TaskStep, AcquireConnection, ConnectionBusy, DecideBounds, Resume,
         InsertBlock, StopAtEndBlock, StopAtLatestBlock, GetBlockData,
         GetBlockReward, AdvanceBlock, GetLogs, FinishLogs, LogFilter,
         ReadTopicSize, AdmitBatch, Stall, SpinOnEmptyTopic,
         ChooseNextPartition, ChooseLowestScorePartition,
         procVars, storeVars, history

(* A task publishes messages of its own range only.                        *)
LEMMA StoresWork ==
    ASSUME TypeInv, published \subseteq AllWork, NEW t \in Tasks, StoreBatch(t)
    PROVE  published' \subseteq AllWork
<1>1. /\ sent[t] \in Nat /\ AppendedEnd(t) \in Nat /\ Size(t) \in Nat
      /\ AppendedEnd(t) <= Size(t)
  BY ChunkBounds DEF StoreBatch, SendingPcs
<1>2. block[t] \in BlocksOf(t) /\ Size(t) = SizeOf(t, block[t])
  BY DEF StoreBatch, TypeInv, TypeOK, WellPlaced, LoadedPcs, BlocksOf, Size
<1>3. Messages(t, sent[t], AppendedEnd(t)) \subseteq
         {<<t, block[t], k>> : k \in 1 .. SizeOf(t, block[t])}
  BY <1>1, <1>2 DEF Messages
<1>4. {<<t, block[t], k>> : k \in 1 .. SizeOf(t, block[t])} \subseteq AllWork
  BY <1>2 DEF AllWork
<1>. QED BY <1>3, <1>4 DEF StoreBatch

(* To the producer every step is one of its own, or of its consumers.      *)
LEMMA StepProducerInv ==
    ASSUME PipelineInv, [PipelineNext]_pipelineVars
    PROVE  [Next]_vars /\ ProducerInv'
<1>1. TypeInv /\ CounterMatchesTopic /\ WithinCredits /\ NoDuplicatesInv
      /\ restarts = 0 /\ published \subseteq AllWork
  BY DEF PipelineInv, ProducerInv
<1>2. [Next]_vars
  BY StepKinds, DecrementIsLegal DEF Next, ProcessStep
<1>3. /\ published' \subseteq AllWork /\ restarts' = 0
  <2>1. ASSUME NEW t \in Tasks, TaskStep(t)
        PROVE  published' \subseteq AllWork /\ restarts' = 0
    <3>1. CASE StoreBatch(t)
      BY <1>1, <3>1, StoresWork DEF StoreBatch, procVars
    <3>2. CASE CountBatch(t)
      BY <1>1, <3>2 DEF CountBatch, procVars, history
    <3>. QED BY <1>1, <2>1, <3>1, <3>2, OnlyTwoStepsWrite
  <2>2. ASSUME NEW c \in Consumers, Decrement(c)
        PROVE  published' \subseteq AllWork /\ restarts' = 0
    BY <1>1, <2>2, DecrementIsLegal DEF ConsumerDecrements, history, procVars
  <2>3. CASE Exit
    BY <1>1, <2>3 DEF Exit, history
  <2>4. CASE UNCHANGED vars
    BY <1>1, <2>4 DEF vars, history, procVars
  <2>. QED BY <2>1, <2>2, <2>3, <2>4, StepKinds
<1>4. TypeInv' /\ CounterMatchesTopic' /\ WithinCredits' /\ NoDuplicatesInv'
  BY <1>1, <1>2, PipelineAssumption,
     NextTypeInv, NextCounter, NextCredits, NextNoDuplicates
<1>. QED BY <1>2, <1>3, <1>4 DEF ProducerInv

-----------------------------------------------------------------------------
(* The producer is what the consumers expect of it. *)

(* Other steps of a task are no steps to the consumers.                    *)
LEMMA TopicUntouched ==
    ASSUME UNCHANGED <<score, logEnd, drained, consumerVars>>
    PROVE  UNCHANGED Cons!vars
  BY DEF consumerVars, Cons!vars, Cons!consumerVars, Cons!processVars,
         Cons!groupVars, Cons!topicVars, Cons!deliveries, Cons!fates

(* Storing a chunk is the consumers' Store, ...                            *)
LEMMA StoreIsLegal ==
    ASSUME PipelineInv, ProducerInv', NEW t \in Tasks, StoreBatch(t),
           UNCHANGED consumerVars
    PROVE  [Cons!Next]_(Cons!vars)
<1>0. TopicWithinBound'
  BY TopicFits, PTL
<1>. DEFINE p == part[t]
            n == AppendedEnd(t) - sent[t]
<1>1. n \in Nat /\ p \in Partitions /\ logEnd \in [Partitions -> Nat]
  BY ChunkBounds DEF StoreBatch, SendingPcs, PipelineInv, ProducerInv, TypeInv, TypeOK
<1>2. /\ logEnd' = [logEnd EXCEPT ![p] = @ + n]
      /\ score' = score /\ drained' = drained
  BY DEF StoreBatch
<1>3. logEnd'[p] \in 0 .. MaxOffset
  BY <1>0, <1>1 DEF TopicWithinBound
<1>. HIDE DEF n, p
<1>4. CASE n = 0
  <2>1. logEnd' = logEnd
    BY <1>1, <1>2, <1>4
  <2>. QED BY <1>2, <2>1, TopicUntouched
<1>5. CASE n # 0
  <2>1. logEnd[p] + n \in logEnd[p] + 1 .. MaxOffset
    BY <1>1, <1>2, <1>3, <1>5
  <2>2. Cons!Store(p)
    BY <1>2, <2>1 DEF Cons!Store, consumerVars, Cons!consumerVars, Cons!processVars,
                      Cons!groupVars, Cons!deliveries, Cons!fates
  <2>. QED BY <1>1, <2>2 DEF Cons!Next, Cons!Partitions, Partitions
<1>. QED BY <1>4, <1>5

(* ... and counting it their Count.                                        *)
LEMMA CountIsLegal ==
    ASSUME PipelineInv, NEW t \in Tasks, TaskStep(t), CountBatch(t),
           UNCHANGED consumerVars
    PROVE  [Cons!Next]_(Cons!vars)
<1>. DEFINE p == part[t]
            n == Appended(t)
<1>1. /\ n \in Nat /\ p \in Partitions /\ logEnd \in [Partitions -> Nat]
      /\ drained \in [Partitions -> Nat] /\ score \in [Partitions -> Int]
  BY ChunkBounds DEF CountBatch, SendingPcs, PipelineInv, ProducerInv, TypeInv, TypeOK,
                     Appended
<1>2. /\ score' = [score EXCEPT ![p] = @ + n]
      /\ logEnd' = logEnd /\ drained' = drained
  BY DEF CountBatch
<1>3. score[p] + n <= logEnd[p] - drained[p]
  <2>1. InTransit(p) \in [Tasks -> Nat] /\ Unacknowledged(p) \in Nat
    BY InTransitType DEF InTransitTyped, PipelineInv, ProducerInv
  <2>2. InTransit(p)[t] = n
    BY DEF InTransit, CountBatch, TaskStep, Appended
  <2>3. n <= Unacknowledged(p)
    <3>. DEFINE f == InTransit(p)
    <3>1. IsFiniteSet(Tasks) /\ f \in [Tasks -> Nat] /\ f[t] = n
      BY <2>1, <2>2, ProducerAssumption
    <3>. HIDE DEF f, n
    <3>2. n <= SumOver(f)
      BY <3>1, SumAtLeastSummand
    <3>. QED BY <3>2 DEF Unacknowledged, f
  <2>4. score[p] + Unacknowledged(p) <= logEnd[p] - drained[p]
    BY <1>1 DEF PipelineInv, ProducerInv, CounterMatchesTopic
  <2>. QED BY <1>1, <2>1, <2>3, <2>4
<1>. HIDE DEF n, p
<1>4. CASE n = 0
  <2>1. score' = score
    BY <1>1, <1>2, <1>4
  <2>. QED BY <1>2, <2>1, TopicUntouched
<1>5. CASE n # 0
  <2>1. n \in 1 .. logEnd[p] - (score[p] + drained[p])
    BY <1>1, <1>3, <1>5
  <2>2. [q \in Partitions |-> score'[q] + drained'[q]] =
            [[q \in Partitions |-> score[q] + drained[q]] EXCEPT ![p] = @ + n]
    <3>. DEFINE counted == [q \in Partitions |-> score[q] + drained[q]]
    <3>1. \A q \in Partitions :
              score'[q] + drained'[q] = IF q = p THEN counted[q] + n ELSE counted[q]
      BY <1>1, <1>2
    <3>2. [counted EXCEPT ![p] = @ + n] =
              [q \in Partitions |-> IF q = p THEN counted[q] + n ELSE counted[q]]
      BY <1>1
    <3>. QED BY <3>1, <3>2
  <2>3. Cons!Count(p)
    BY <1>1, <1>2, <2>1, <2>2
       DEF Cons!Count, consumerVars, Cons!consumerVars, Cons!processVars,
           Cons!groupVars, Cons!deliveries, Cons!fates
  <2>4. p \in Cons!Partitions
    BY <1>1 DEF Cons!Partitions, Partitions
  <2>. QED BY <2>3, <2>4 DEF Cons!Next, Cons!Count
<1>. QED BY <1>4, <1>5

(* To the consumers every step is one of their own, or of the producer.    *)
LEMMA StepConsumers ==
    ASSUME PipelineInv, [PipelineNext]_pipelineVars
    PROVE  [Cons!Next]_(Cons!vars)
<1>1. ProducerInv'
  BY StepProducerInv
<1>2. ASSUME NEW t \in Tasks, TaskStep(t), UNCHANGED consumerVars
      PROVE  [Cons!Next]_(Cons!vars)
  BY <1>1, <1>2, StoreIsLegal, CountIsLegal, OnlyTwoStepsWrite, TopicUntouched
<1>3. CASE Exit /\ UNCHANGED consumerVars
  BY <1>3, TopicUntouched DEF Exit, storeVars
<1>4. ASSUME NEW c \in Consumers, Cons!Alive(ProcessOf[c]), Decrement(c)
      PROVE  Cons!Next
  BY <1>4 DEF Decrement, Cons!Next, Cons!ListenerStep
<1>5. CASE UNCHANGED <<vars, consumerVars>>
  BY <1>5, TopicUntouched DEF vars, storeVars
<1>. QED BY <1>2, <1>3, <1>4, <1>5, StepKinds, ConsumersAlone

-----------------------------------------------------------------------------
(* The invariants of the consumers *)

(* So the consumers' invariant is kept.                                    *)
LEMMA StepConsumerInv ==
    ASSUME PipelineInv, [PipelineNext]_pipelineVars
    PROVE  ConsumerInv'
<1>1. CP!TypeInv /\ CP!LateInv /\ CP!CounterInv /\ consumerFaults = 0
  BY DEF PipelineInv, ConsumerInv
<1>2. [CP!Next]_(CP!vars)
  BY StepConsumers, SameNext
<1>3. CP!TypeInv'
  BY <1>1, <1>2, CP!StepTypeInv, ConsumersAssumed
<1>4. CP!LateInv'
  BY <1>1, <1>2, CP!StepLateInv, ConsumersAssumed
<1>5. CP!CounterInv'
  BY <1>1, <1>2, CP!StepCounterInv, ConsumersAssumed
<1>6. consumerFaults' = consumerFaults
  <2>1. CASE UNCHANGED consumerVars
    BY <2>1 DEF consumerVars
  <2>2. CASE \E c \in Consumers : Decrement(c)
    BY <2>2 DEF Decrement, Cons!Decrement
  <2>. QED BY <2>1, <2>2, StepKinds, ConsumersAlone
<1>. QED BY <1>1, <1>3, <1>4, <1>5, <1>6 DEF ConsumerInv

QuietConsumer(c) ==
    /\ runner[c] # "waiting" => exitCode # Running
    /\ runner[c] \in {"closing", "leaving"} =>
          \A p \in Partitions : owner[p] = c => position[p] >= logEnd[p]

LEMMA QuietInvUnfolded ==
    QuietInv <=> /\ \A c \in Consumers : QuietConsumer(c)
                 /\ late = {} /\ \A m \in received : m[2] <= logEnd[m[1]]
  BY DEF QuietInv, QuietConsumer

(* No consumer leaves while there is something to receive.                 *)
LEMMA ConsumersStayQuiet ==
    ASSUME PipelineInv, ConsumerStep, UNCHANGED vars
    PROVE  QuietInv'
<1>1. /\ \A c \in Consumers : QuietConsumer(c)
      /\ late = {} /\ \A m \in received : m[2] <= logEnd[m[1]]
  BY QuietInvUnfolded DEF PipelineInv
<1>2. /\ runner \in [Consumers -> {"waiting", "closing", "leaving", "returned"}]
      /\ owner \in [Partitions -> Consumers \cup {Nobody}] /\ Nobody \notin Consumers
      /\ position \in [Partitions -> Nat] /\ logEnd \in [Partitions -> Nat]
      /\ \A c \in Consumers : ~Cons!Alive(ProcessOf[c]) => runner[c] = "returned"
  BY PipelineAssumption
     DEF PipelineInv, ConsumerInv, ProducerInv, TypeInv, TypeOK, CP!TypeInv, CP!TypeOK,
         CP!Partitions, Partitions, CP!LateInv, CP!Flawless, CP!Alive, Cons!Alive,
         CP!Running, Cons!Running
<1>3. exitCode' = exitCode /\ logEnd' = logEnd
  BY DEF vars, procVars, storeVars
<1>4. ASSUME UNCHANGED <<runner, owner, position, late, received>>
      PROVE  QuietInv'
  BY <1>1, <1>3, <1>4 DEF QuietInv, QuietConsumer
<1>5. ASSUME NEW c \in Consumers, NEW p \in Partitions, Cons!Receive(c, p)
      PROVE  QuietInv'
  <2>1. /\ owner[p] = c /\ position[p] < logEnd[p]
        /\ runner[c] \in {"waiting", "closing", "leaving"}
    BY <1>5 DEF Cons!Receive, Cons!Deliverable, Cons!Owned
  <2>2. runner[c] = "waiting"
    BY <1>1, <1>2, <2>1 DEF QuietConsumer
  <2>3. /\ late' = late /\ received' = received \cup {<<p, position[p] + 1>>}
        /\ position' = [position EXCEPT ![p] = @ + 1]
        /\ runner' = runner /\ owner' = owner
    BY <1>5, <2>2 DEF Cons!Receive
  <2>4. \A q \in Partitions : position'[q] >= position[q]
    BY <1>2, <2>3
  <2>5. \A d \in Consumers : QuietConsumer(d)'
    BY <1>1, <1>2, <1>3, <2>3, <2>4 DEF QuietConsumer
  <2>6. \A m \in received' : m[2] <= logEnd'[m[1]]
    BY <1>1, <1>2, <1>3, <2>1, <2>3
  <2>. QED BY <1>1, <2>3, <2>5, <2>6 DEF QuietInv, QuietConsumer
<1>6. ASSUME NEW c \in Consumers, Expire(c) PROVE QuietInv'
  <2>1. /\ exitCode # Running
        /\ \A p \in Partitions : owner[p] = c => ~(position[p] < logEnd[p])
        /\ runner' = [runner EXCEPT ![c] = "closing"]
        /\ UNCHANGED <<owner, position, late, received>>
    BY <1>6 DEF Expire, Cons!Expire, Cons!Deliverable, Cons!Owned, Cons!Partitions,
                Partitions, Cons!groupVars, Cons!deliveries
  <2>2. \A d \in Consumers : QuietConsumer(d)'
    BY <1>1, <1>2, <1>3, <2>1 DEF QuietConsumer
  <2>. QED BY <1>1, <1>3, <2>1, <2>2 DEF QuietInv, QuietConsumer
<1>7. ASSUME NEW c \in Consumers, Cons!CommitOnStop(c) PROVE QuietInv'
  <2>1. /\ runner[c] = "closing" /\ runner' = [runner EXCEPT ![c] = "leaving"]
        /\ UNCHANGED <<owner, position, late, received>>
    BY <1>7 DEF Cons!CommitOnStop, Cons!deliveries
  <2>2. \A d \in Consumers : QuietConsumer(d)'
    BY <1>1, <1>2, <1>3, <2>1 DEF QuietConsumer
  <2>. QED BY <1>1, <1>3, <2>1, <2>2 DEF QuietInv, QuietConsumer
<1>8. ASSUME NEW c \in Consumers, Cons!LeaveGroup(c) PROVE QuietInv'
  <2>1. /\ runner[c] = "leaving" /\ runner' = [runner EXCEPT ![c] = "returned"]
        /\ \A p \in Partitions : owner'[p] \in {owner[p], Nobody}
        /\ UNCHANGED <<position, late, received>>
    BY <1>8 DEF Cons!LeaveGroup, Cons!deliveries, Cons!Partitions, Partitions
  <2>2. \A d \in Consumers : QuietConsumer(d)'
    BY <1>1, <1>2, <1>3, <2>1 DEF QuietConsumer
  <2>. QED BY <1>1, <1>3, <2>1, <2>2 DEF QuietInv, QuietConsumer
<1>9. CASE Cons!Rebalance
  <2>1. \A c \in Consumers : runner[c] \notin {"closing", "leaving"}
    BY <1>2, <1>9 DEF Cons!Rebalance
  <2>2. UNCHANGED <<runner, late, received>>
    BY <1>9 DEF Cons!Rebalance, Cons!consumerVars, Cons!deliveries
  <2>. QED BY <1>1, <1>3, <2>1, <2>2 DEF QuietInv, QuietConsumer
<1>10. CASE \E c \in Consumers : Cons!HandleEvent(c) \/ Cons!AutoCommit(c)
  BY <1>4, <1>10 DEF Cons!HandleEvent, Cons!AutoCommit, Cons!consumerVars,
                     Cons!groupVars, Cons!deliveries
<1>11. CASE \E w \in Processes : Cons!Exit(w)
  BY <1>4, <1>11 DEF Cons!Exit, Cons!groupVars, Cons!deliveries
<1>. QED
  BY <1>5, <1>6, <1>7, <1>8, <1>9, <1>10, <1>11 DEF ConsumerStep

LEMMA StepQuietInv ==
    ASSUME PipelineInv, [PipelineNext]_pipelineVars
    PROVE  QuietInv'
<1>1. /\ QuietInv /\ TypeInv /\ logEnd \in [Partitions -> Nat]
      /\ received \subseteq Partitions \X Nat
  <2>1. received \subseteq Partitions \X Nat
    BY PipelineAssumption
       DEF PipelineInv, ConsumerInv, CP!TypeInv, CP!TypeOK, CP!AllMessages, CP!Offsets,
           CP!Partitions, Partitions
  <2>. QED BY <2>1 DEF PipelineInv, ProducerInv, TypeInv, TypeOK
<1>2. ASSUME NEW t \in Tasks, TaskStep(t), UNCHANGED consumerVars PROVE QuietInv'
  <2>1. exitCode = Running /\ UNCHANGED <<runner, owner, position, late, received>>
    BY <1>2 DEF TaskStep, consumerVars
  <2>2. /\ \A c \in Consumers : runner[c] = "waiting"
        /\ late = {} /\ \A m \in received : m[2] <= logEnd[m[1]]
    BY <1>1, <2>1 DEF QuietInv
  <2>3. \A p \in Partitions : logEnd'[p] \in Nat /\ logEnd[p] <= logEnd'[p]
    <3>1. CASE StoreBatch(t)
      BY <1>1, <3>1, ChunkBounds DEF StoreBatch, SendingPcs
    <3>2. CASE CountBatch(t)
      BY <1>1, <3>2 DEF CountBatch
    <3>. QED BY <1>1, <1>2, <3>1, <3>2, OnlyTwoStepsWrite
  <2>4. ASSUME NEW m \in received PROVE m[2] <= logEnd'[m[1]]
    BY <1>1, <2>2, <2>3
  <2>. QED BY <2>1, <2>2, <2>4 DEF QuietInv
<1>3. CASE Exit /\ UNCHANGED consumerVars
  BY <1>1, <1>3 DEF Exit, consumerVars, storeVars, Running, QuietInv
<1>4. CASE \E c \in Consumers : Decrement(c)
  BY <1>1, <1>4 DEF Decrement, Cons!Decrement, Cons!groupVars, Cons!deliveries,
                    procVars, QuietInv
<1>5. CASE UNCHANGED <<vars, consumerVars>>
  BY <1>1, <1>5 DEF vars, procVars, storeVars, consumerVars, QuietInv
<1>. QED BY <1>2, <1>3, <1>4, <1>5, StepKinds, ConsumersStayQuiet

-----------------------------------------------------------------------------
(* What waits in the topic is what is counted and what is in transit. *)

SumsTyped ==
    /\ Backlog \in [Partitions -> Int] /\ SumOver(Backlog) \in Int
    /\ Transit \in [Tasks -> Nat] /\ SumOver(Transit) \in Int
    /\ score \in [Partitions -> Int] /\ Total \in Int

LEMMA SumsType == TypeInv => SumsTyped
<1>. SUFFICES ASSUME TypeInv PROVE SumsTyped
  OBVIOUS
<1>1. /\ Backlog \in [Partitions -> Int] /\ score \in [Partitions -> Int]
  BY DEF TypeInv, TypeOK, Backlog
<1>2. ASSUME NEW t \in Tasks, pc[t] = "ack" PROVE AppendedEnd(t) - sent[t] \in Nat
  BY <1>2, ChunkBounds DEF SendingPcs
<1>3. Transit \in [Tasks -> Nat]
  BY <1>2 DEF Transit
<1>4. Transit \in [Tasks -> Int]
  BY <1>3
<1>. QED
  BY <1>1, <1>3, <1>4, SumType, PartitionsFinite, ProducerAssumption DEF SumsTyped, Total

(* The share of task t in transit is all that its step changes of it.      *)
LEMMA TransitOfOneTask ==
    ASSUME TypeInv, TypeInv', NEW t \in Tasks, TaskStep(t)
    PROVE  SumOver(Transit') = SumOver(Transit) + (Transit'[t] - Transit[t])
<1>1. /\ Transit \in [Tasks -> Int] /\ Transit' \in [Tasks -> Int]
  <2>1. SumsTyped /\ SumsTyped'
    BY SumsType, PTL
  <2>. QED BY <2>1 DEF SumsTyped
<1>2. ASSUME NEW u \in Tasks \ {t} PROVE Transit'[u] = Transit[u]
  BY TaskFrame DEF Transit, AppendedEnd, ChunkEnd, Size, SizeOf
<1>. DEFINE f == Transit
            g == Transit'
<1>3. /\ f \in [Tasks -> Int] /\ g \in [Tasks -> Int] /\ IsFiniteSet(Tasks)
      /\ \A u \in Tasks \ {t} : g[u] = f[u]
  BY <1>1, <1>2, ProducerAssumption
<1>. HIDE DEF f, g
<1>4. SumOver(g) = SumOver(f) + (g[t] - f[t])
  BY <1>3, SumChange
<1>. QED BY <1>4 DEF f, g

(* One partition's backlog and counter are all that a step changes.        *)
LEMMA BacklogOfOnePartition ==
    ASSUME TypeInv, TypeInv', NEW p \in Partitions, NEW n \in Int,
           \A q \in Partitions \ {p} : logEnd'[q] = logEnd[q] /\ drained'[q] = drained[q],
           logEnd'[p] - drained'[p] = (logEnd[p] - drained[p]) + n
    PROVE  SumOver(Backlog') = SumOver(Backlog) + n
<1>. DEFINE f == Backlog
            g == Backlog'
<1>1. /\ f \in [Partitions -> Int] /\ g \in [Partitions -> Int]
      /\ \A q \in Partitions \ {p} : g[q] = f[q]
      /\ f[p] \in Int /\ g[p] = f[p] + n
  BY DEF TypeInv, TypeOK, Backlog
<1>. HIDE DEF f, g
<1>2. SumOver(g) = SumOver(f) + (g[p] - f[p])
  BY <1>1, SumChange, PartitionsFinite
<1>3. SumOver(f) \in Int
  BY <1>1, SumType, PartitionsFinite
<1>4. SumOver(g) = SumOver(f) + n
  BY <1>1, <1>2, <1>3
<1>. QED BY <1>4 DEF f, g

LEMMA TotalOfOnePartition ==
    ASSUME TypeInv, NEW p \in Partitions, NEW n \in Int,
           score' = [score EXCEPT ![p] = @ + n]
    PROVE  Total' = Total + n
<1>1. score \in [Partitions -> Int]
  BY DEF TypeInv, TypeOK
<1>2. /\ score' \in [Partitions -> Int] /\ score'[p] = score[p] + n
      /\ \A q \in Partitions \ {p} : score'[q] = score[q]
  BY <1>1
<1>. DEFINE f == score
            g == score'
<1>3. /\ f \in [Partitions -> Int] /\ g \in [Partitions -> Int]
      /\ \A q \in Partitions \ {p} : g[q] = f[q]
      /\ f[p] \in Int /\ g[p] = f[p] + n
  BY <1>1, <1>2
<1>. HIDE DEF f, g
<1>4. SumOver(g) = SumOver(f) + (g[p] - f[p])
  BY <1>3, SumChange, PartitionsFinite
<1>5. SumOver(f) \in Int
  BY <1>3, SumType, PartitionsFinite
<1>6. SumOver(g) = SumOver(f) + n
  BY <1>3, <1>4, <1>5
<1>. QED BY <1>6 DEF Total, f, g

(* Storing and subtracting move the backlog, counting moves what is in     *)
(* transit into the total.                                                 *)
LEMMA StepBacklogInv ==
    ASSUME PipelineInv, [PipelineNext]_pipelineVars
    PROVE  BacklogInv'
<1>1. TypeInv /\ TypeInv' /\ BacklogInv
  BY StepProducerInv DEF PipelineInv, ProducerInv
<1>2. SumsTyped /\ SumsTyped'
  BY <1>1, SumsType, PTL
<1>3. ASSUME UNCHANGED <<score, logEnd, drained>>, SumOver(Transit') = SumOver(Transit)
      PROVE  BacklogInv'
  <2>1. Backlog' = Backlog /\ Total' = Total
    BY <1>3 DEF Backlog, Total
  <2>. QED BY <1>1, <1>3, <2>1 DEF BacklogInv
<1>4. ASSUME NEW t \in Tasks, TaskStep(t) PROVE BacklogInv'
  <2>. DEFINE n == AppendedEnd(t) - sent[t]
              p == part[t]
  <2>1. /\ SumOver(Transit') = SumOver(Transit) + (Transit'[t] - Transit[t])
        /\ Transit[t] \in Nat /\ Transit'[t] \in Nat
    BY <1>1, <1>2, <1>4, TransitOfOneTask DEF SumsTyped
  <2>2. CASE StoreBatch(t)
    <3>1. n \in Int /\ p \in Partitions
      BY <1>1, <2>2, ChunkBounds DEF StoreBatch, SendingPcs, TypeInv, TypeOK
    <3>2. Transit[t] = 0 /\ Transit'[t] = n
      BY <1>1, <2>2 DEF StoreBatch, Transit, Goto, TypeInv, TypeOK, AppendedEnd,
                        ChunkEnd, Size, SizeOf
    <3>3. /\ logEnd' = [logEnd EXCEPT ![p] = @ + n]
          /\ drained' = drained /\ score' = score
      BY <2>2 DEF StoreBatch
    <3>. HIDE DEF n, p
    <3>4. /\ \A q \in Partitions \ {p} : logEnd'[q] = logEnd[q] /\ drained'[q] = drained[q]
          /\ logEnd'[p] - drained'[p] = (logEnd[p] - drained[p]) + n
      BY <1>1, <3>1, <3>3 DEF TypeInv, TypeOK
    <3>5. SumOver(Backlog') = SumOver(Backlog) + n
      BY <1>1, <3>1, <3>4, BacklogOfOnePartition
    <3>6. Total' = Total
      BY <3>3 DEF Total
    <3>. QED BY <1>1, <1>2, <2>1, <3>1, <3>2, <3>5, <3>6 DEF BacklogInv, SumsTyped
  <2>3. CASE CountBatch(t)
    <3>1. n \in Int /\ p \in Partitions
      BY <1>1, <2>3, ChunkBounds DEF CountBatch, SendingPcs, TypeInv, TypeOK
    <3>2. Transit[t] = n /\ Transit'[t] = 0
      BY <1>1, <2>3 DEF CountBatch, Transit, Goto, AfterChunk, AfterBatch, TypeInv, TypeOK
    <3>3. /\ score' = [score EXCEPT ![p] = @ + n]
          /\ drained' = drained /\ logEnd' = logEnd
      BY <2>3 DEF CountBatch, Appended
    <3>. HIDE DEF n, p
    <3>4. Total' = Total + n
      BY <1>1, <3>1, <3>3, TotalOfOnePartition
    <3>5. Backlog' = Backlog
      BY <3>3 DEF Backlog
    <3>. QED BY <1>1, <1>2, <2>1, <3>1, <3>2, <3>4, <3>5 DEF BacklogInv, SumsTyped
  <2>4. CASE ~StoreBatch(t) /\ ~CountBatch(t)
    <3>1. UNCHANGED <<score, logEnd, drained>>
      BY <1>4, <2>4, OnlyTwoStepsWrite
    <3>2. pc[t] # "ack" /\ pc'[t] # "ack"
      BY <1>1, <1>4, <2>4
         DEF TaskStep, AcquireConnection, ConnectionBusy, DecideBounds, Resume,
             InsertBlock, StopAtEndBlock, StopAtLatestBlock, GetBlockData,
             AfterBlockData, GetBlockReward, AdvanceBlock, GetLogs, FinishLogs,
             LogFilter, ReadTopicSize, AdmitBatch, Stall, SpinOnEmptyTopic,
             ChooseNextPartition, ChooseLowestScorePartition, Goto, Finish,
             TypeInv, TypeOK
    <3>3. Transit[t] = 0 /\ Transit'[t] = 0
      BY <3>2 DEF Transit
    <3>. QED BY <1>2, <1>3, <2>1, <3>1, <3>3 DEF SumsTyped
  <2>. QED BY <2>2, <2>3, <2>4
<1>5. ASSUME NEW p \in Partitions, ConsumerDecrements(p) PROVE BacklogInv'
  <2>1. /\ drained' = [drained EXCEPT ![p] = @ + 1] /\ logEnd' = logEnd
        /\ score' = [score EXCEPT ![p] = @ - 1]
    BY <1>5 DEF ConsumerDecrements
  <2>2. /\ \A q \in Partitions \ {p} : logEnd'[q] = logEnd[q] /\ drained'[q] = drained[q]
        /\ logEnd'[p] - drained'[p] = (logEnd[p] - drained[p]) + (-1)
        /\ score' = [score EXCEPT ![p] = @ + (-1)] /\ -1 \in Int
    <3>1. /\ score[p] \in Int /\ drained[p] \in Nat /\ logEnd[p] \in Nat
          /\ drained'[p] = drained[p] + 1 /\ logEnd'[p] = logEnd[p]
          /\ \A q \in Partitions \ {p} : drained'[q] = drained[q] /\ logEnd'[q] = logEnd[q]
      BY <1>1, <2>1 DEF TypeInv, TypeOK
    <3>2. score[p] - 1 = score[p] + (-1) /\ -1 \in Int
      BY <3>1
    <3>3. \A a, b \in Int : a - (b + 1) = (a - b) + (-1)
      OBVIOUS
    <3>4. logEnd'[p] - drained'[p] = (logEnd[p] - drained[p]) + (-1)
      BY <3>1, <3>3
    <3>5. score' = [score EXCEPT ![p] = @ + (-1)]
      BY <2>1, <3>2
    <3>. QED BY <3>1, <3>2, <3>4, <3>5
  <2>3. SumOver(Backlog') = SumOver(Backlog) + (-1)
    BY <1>1, <2>2, BacklogOfOnePartition
  <2>4. Total' = Total + (-1)
    BY <1>1, <2>2, TotalOfOnePartition
  <2>5. Transit' = Transit
    BY <1>5 DEF ConsumerDecrements, taskVars, Transit, AppendedEnd, ChunkEnd, Size, SizeOf
  <2>. QED BY <1>1, <1>2, <2>3, <2>4, <2>5 DEF BacklogInv, SumsTyped
<1>6. CASE Exit
  <2>1. Transit' = Transit /\ UNCHANGED <<score, logEnd, drained>>
    BY <1>6 DEF Exit, taskVars, storeVars, Transit, AppendedEnd, ChunkEnd, Size, SizeOf
  <2>. QED BY <1>3, <2>1
<1>7. CASE UNCHANGED vars
  <2>1. Transit' = Transit /\ UNCHANGED <<score, logEnd, drained>>
    BY <1>7 DEF vars, taskVars, storeVars, Transit, AppendedEnd, ChunkEnd, Size, SizeOf
  <2>. QED BY <1>3, <2>1
<1>. QED BY <1>4, <1>5, <1>6, <1>7, StepKinds, DecrementIsLegal

-----------------------------------------------------------------------------
LEMMA StepPipelineInv == PipelineInv /\ [PipelineNext]_pipelineVars => PipelineInv'
  BY StepProducerInv, StepConsumerInv, StepQuietInv, StepBacklogInv DEF PipelineInv

LEMMA InitPipelineInv == PipelineInit => PipelineInv
<1>. SUFFICES ASSUME Init, Cons!Init PROVE PipelineInv
  BY DEF PipelineInit
<1>1. ProducerInv
  <2>1. TypeInv
    BY InitTypeInv
  <2>2. CounterMatchesTopic
    <3>1. ASSUME NEW p \in Partitions PROVE Unacknowledged(p) = 0
      BY NothingInTransit DEF Init, InitTasks, StartPc
    <3>. QED BY <3>1 DEF Init, CounterMatchesTopic
  <2>3. WithinCredits
    <3>1. CreditsTyped
      BY InitTypeInv, CreditsType
    <3>2. Total = 0
      BY PartitionsFinite, SumZero DEF Init, Total
    <3>. QED BY <3>1, <3>2 DEF WithinCredits, CreditsTyped
  <2>4. NoDuplicatesInv
    <3>1. SumOver(logEnd) = 0
      BY PartitionsFinite, SumZero DEF Init
    <3>. QED BY <3>1, FS_EmptySet
             DEF Init, NoDuplicatesInv, NoDuplicatesWithoutRestart, Fresh
  <2>. QED BY <2>1, <2>2, <2>3, <2>4 DEF ProducerInv, Init
<1>2. ConsumerInv
  <2>1. CP!Init
    BY SameInit
  <2>2. CP!TypeInv
    BY <2>1, CP!InitTypeInv, ConsumersAssumed
  <2>3. CP!LateInv /\ consumerFaults = 0
    BY <2>1, ConsumersAssumed
       DEF CP!Init, CP!LateInv, CP!TimerHeld, CP!Flawless, CP!HandledLate,
           CP!RolledBackLate, CP!SufferLate, CP!Handling, CP!Alive, CP!Running
  <2>4. CP!CounterInv
    <3>1. \A p \in CP!Partitions : CP!Taken(p) = {}
      BY <2>1 DEF CP!Init, CP!Taken
    <3>2. CP!Cardinality({}) = 0
      BY SameCardinality, FS_EmptySet
    <3>3. \A c \in Consumers : ~CP!Uncounted(c)
      BY <2>1 DEF CP!Init, CP!Uncounted
    <3>4. \A p \in CP!Partitions : score[p] = 0 /\ drained[p] = 0
      BY DEF Init, CP!Partitions, Partitions
    <3>5. \A p \in CP!Partitions : CP!Tracked(p)
      BY <3>1, <3>2, <3>4 DEF CP!Tracked, CP!Partitions, Partitions
    <3>. QED BY <3>3, <3>5 DEF CP!CounterInv, CP!OneEach
  <2>. QED BY <2>2, <2>3, <2>4 DEF ConsumerInv
<1>3. QuietInv
  BY DEF Cons!Init, QuietInv
<1>4. BacklogInv
  <2>1. Backlog = [p \in Partitions |-> 0] /\ Transit = [t \in Tasks |-> 0]
    BY DEF Init, InitTasks, StartPc, Backlog, Transit
  <2>2. SumOver(Backlog) = 0 /\ SumOver(Transit) = 0 /\ Total = 0
    BY <2>1, PartitionsFinite, ProducerAssumption, SumZero DEF Init, Total
  <2>. QED BY <2>2 DEF BacklogInv
<1>. QED BY <1>1, <1>2, <1>3, <1>4 DEF PipelineInv

LEMMA PipelineInvariant == PipelineSpec => []PipelineInv
  BY InitPipelineInv, StepPipelineInv, PTL DEF PipelineSpec
-----------------------------------------------------------------------------
(* The consumers subtract what they have taken in hand, and they have      *)
(* received that: the messages nobody has received are fewer than the      *)
(* messages nobody has subtracted.                                         *)
LEMMA WaitingIsInBacklog ==
    ASSUME PipelineInv, NEW p \in Partitions
    PROVE  /\ logEnd[p] - Cardinality(Taken(p)) \in Int
           /\ logEnd[p] - Cardinality(Taken(p)) <= Backlog[p]
<1>1. /\ logEnd[p] \in Nat /\ drained[p] = Cardinality(CP!Taken(p))
      /\ IsFiniteSet(Taken(p)) /\ IsFiniteSet(CP!Taken(p))
      /\ CP!Taken(p) \subseteq Taken(p)
  BY SubtractedIsTaken
<1>2. Cardinality(CP!Taken(p)) <= Cardinality(Taken(p))
  BY <1>1, FS_Subset
<1>3. Cardinality(CP!Taken(p)) \in Nat /\ Cardinality(Taken(p)) \in Nat
  BY <1>1, FS_CardinalityType
<1>4. \A e, i, j \in Nat : i <= j => e - j \in Int /\ e - j <= e - i
  OBVIOUS
<1>. QED BY <1>1, <1>2, <1>3, <1>4 DEF Backlog

(* What is counted is within the credits of the tasks, and what a task has *)
(* stored without counting it is the rest of the same batch.               *)
LEMMA CreditsCoverTransit ==
    ASSUME TypeInv, NEW t \in Tasks
    PROVE  /\ Credit(t) \in Nat /\ Transit[t] \in Nat /\ LargestBatch(t) \in Nat
           /\ Credit(t) + Transit[t] <= LargestBatch(t)
<1>1. Credit(t) \in Nat /\ Transit[t] \in Nat /\ LargestBatch(t) \in Nat
  BY CreditsType, SumsType, BatchBounds DEF CreditsTyped, SumsTyped, Credits
<1>2. CASE pc[t] = "ack"
  <2>1. Credit(t) = sent[t] /\ Transit[t] = AppendedEnd(t) - sent[t]
    BY <1>2 DEF Credit, Admitted, Transit
  <2>2. /\ sent[t] \in Nat /\ AppendedEnd(t) \in Nat /\ ChunkEnd(t) \in Nat
        /\ Size(t) \in Nat
        /\ AppendedEnd(t) <= ChunkEnd(t) /\ ChunkEnd(t) <= Size(t)
    BY <1>2, ChunkBounds DEF SendingPcs
  <2>3. Size(t) <= LargestBatch(t)
    BY <1>2, BatchBounds DEF LoadedPcs
  <2>. QED BY <1>1, <2>1, <2>2, <2>3
<1>3. CASE pc[t] # "ack"
  <2>1. Transit[t] = 0
    BY <1>3 DEF Transit
  <2>2. Credit(t) <= LargestBatch(t)
    <3>1. Credit(t) \in {sent[t], LargestBatch(t)}
          /\ (Credit(t) = sent[t] => pc[t] \in SendingPcs \/ sent[t] = LargestBatch(t))
      BY DEF Credit, Admitted, SendingPcs
    <3>. QED BY <1>1, <3>1, BatchBounds
  <2>. QED BY <1>1, <2>1, <2>2
<1>. QED BY <1>2, <1>3, <1>1

(* What waits <= the backlog = counted + in transit <= limit + batches.    *)
LEMMA InvariantBoundsWaiting == PipelineInv => WaitingBounded
<1>. SUFFICES ASSUME PipelineInv PROVE WaitingBounded
  OBVIOUS
<1>. DEFINE w == [p \in Partitions |-> logEnd[p] - Cardinality(Taken(p))]
            b == Backlog
            c == Credits
            d == Transit
            e == [t \in Tasks |-> c[t] + d[t]]
            g == [t \in Tasks |-> LargestBatch(t)]
<1>1. TypeInv /\ WithinCredits /\ BacklogInv
  BY DEF PipelineInv, ProducerInv
<1>2. SumsTyped /\ CreditsTyped
  BY <1>1, SumsType, CreditsType
<1>3. w \in [Partitions -> Int] /\ \A p \in Partitions : w[p] <= b[p]
  BY WaitingIsInBacklog
<1>4. /\ c \in [Tasks -> Nat] /\ d \in [Tasks -> Nat] /\ b \in [Partitions -> Int]
  BY <1>2 DEF SumsTyped, CreditsTyped
<1>5. /\ e \in [Tasks -> Int] /\ g \in [Tasks -> Int]
      /\ \A t \in Tasks : e[t] = c[t] + d[t] /\ e[t] <= g[t]
  <2>1. ASSUME NEW t \in Tasks
        PROVE  /\ e[t] = c[t] + d[t] /\ e[t] <= g[t]
               /\ e[t] \in Int /\ g[t] \in Int
    <3>1. c[t] = Credit(t) /\ g[t] = LargestBatch(t) /\ e[t] = c[t] + d[t]
      BY DEF Credits
    <3>. QED BY <1>1, <3>1, CreditsCoverTransit
  <2>. QED BY <2>1
<1>6. WaitingBounded <=> SumOver(w) <= Limit + SumOver(g)
  BY DEF WaitingBounded
<1>7. IsFiniteSet(Tasks) /\ IsFiniteSet(Partitions)
  BY ProducerAssumption, PartitionsFinite
<1>8. /\ SumOver(b) = Total + SumOver(d) /\ Total <= Limit + SumOver(c)
      /\ SumOver(d) \in Int /\ SumOver(c) \in Int /\ Total \in Int /\ Limit \in Int
      /\ SumOver(b) \in Int
  BY <1>1, <1>2 DEF BacklogInv, WithinCredits, SumsTyped, CreditsTyped
<1>9. c \in [Tasks -> Int] /\ d \in [Tasks -> Int]
  BY <1>4
<1>. HIDE DEF w, b, c, d, e, g
<1>10. SumOver(w) <= SumOver(b) /\ SumOver(w) \in Int
  BY <1>3, <1>4, <1>7, SumMonotonic, SumType
<1>11. SumOver(e) = SumOver(c) + SumOver(d)
  BY <1>5, <1>7, <1>9, SumPlus
<1>12. SumOver(e) <= SumOver(g) /\ SumOver(g) \in Int /\ SumOver(e) \in Int
  BY <1>5, <1>7, SumMonotonic, SumType
<1>. QED BY <1>6, <1>8, <1>10, <1>11, <1>12

-----------------------------------------------------------------------------
(* Back-pressure from end to end: what waits in the topic, whatever the    *)
(* counters say, exceeds the limit by at most a block of each task, for    *)
(* any number of tasks, partitions, consumers and blocks                   *)
(* (manager.py:105-144, 325-331, redis.py:43-49).                          *)
THEOREM WaitingIsBounded == PipelineSpec => []WaitingBounded
  BY PipelineInvariant, InvariantBoundsWaiting, PTL

(* The consumers are a legal environment of the producer: they subtract    *)
(* only what it has stored, each message once, although they count off     *)
(* messages that it has not counted yet (redis.py:43-49).                  *)
THEOREM PipelineImplementsProducer == PipelineSpec => ImplementsProducer
<1>1. PipelineInit => Init
  BY DEF PipelineInit
<1>. QED
  BY <1>1, PipelineInvariant, StepProducerInv, PTL
     DEF PipelineSpec, ImplementsProducer, Spec

(* The producer is a legal environment of the consumers: it appends to the *)
(* topic and counts later, by no more than it has appended                 *)
(* (manager.py:325-331).                                                   *)
THEOREM PipelineImplementsConsumer == PipelineSpec => ImplementsConsumer
<1>1. PipelineInit => Cons!Init
  BY DEF PipelineInit
<1>. QED
  BY <1>1, PipelineInvariant, StepConsumers, PTL
     DEF PipelineSpec, ImplementsConsumer, Cons!Spec
=============================================================================
