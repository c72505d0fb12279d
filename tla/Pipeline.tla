------------------------------ MODULE Pipeline ------------------------------
(***************************************************************************)
(* The producer and the consumers together: module Producer with the       *)
(* consumers of module Consumer at the other end of the Kafka topic and of *)
(* the Redis counters, which the two share.  Each module has an            *)
(* environment of its own in place of the other one (ConsumerDecrements,   *)
(* Store and Count); here these are gone, and the two refinements say that *)
(* they were right.                                                        *)
(*                                                                         *)
(* No faults are injected: Producer and Consumer have them.                *)
(***************************************************************************)
EXTENDS Producer

CONSTANTS
    Processes, Consumers, ProcessOf, Nobody,   \* see Consumer
    MaxOffset

(* Every message a task can make of the chain; the topic has room for all. *)
BlocksOf(t) == IF Mode[t] = "get_logs" THEN {0} ELSE 0 .. LatestBlock
AllWork ==
    UNION {UNION {{<<t, b, k>> : k \in 1 .. SizeOf(t, b)} : b \in BlocksOf(t)} : t \in Tasks}

ASSUME PipelineAssumption ==
    /\ Faults = {}
    /\ ProcessOf \in [Consumers -> Processes] /\ Nobody \notin Consumers
    /\ MaxOffset \in Nat /\ Cardinality(AllWork) <= MaxOffset

VARIABLES
    runner, listener, timer, current, code,
    consumerExit, consumerRestarts,
    owner, position, committed, stable,
    received, redelivered, late, processed, failed, dropped, consumerFaults

consumerVars ==
    <<runner, listener, timer, current, code, consumerExit, consumerRestarts,
      owner, position, committed, stable, received, redelivered, late,
      processed, failed, dropped, consumerFaults>>

(* What the producer has counted is what the score would be had nobody     *)
(* subtracted from it.                                                     *)
Cons == INSTANCE Consumer WITH
            Faults <- {}, MaxFaults <- 0, MaxRestarts <- 0,
            exitCode <- consumerExit, restarts <- consumerRestarts,
            faults <- consumerFaults,
            counted <- [p \in Partitions |-> score[p] + drained[p]]

pipelineVars == <<vars, consumerVars>>

(* What a step of the consumers other than Decrement leaves alone. *)
producerVars == <<taskVars, procVars, blocks, score, members, drained, history>>

PipelineInit == Init /\ Cons!Init

-----------------------------------------------------------------------------
ProducerStep(t) == TaskStep(t) /\ UNCHANGED consumerVars
ProducerExit == Exit /\ UNCHANGED consumerVars

(* ZINCRBY -1: the sorted set gains the partition if it is not a member. *)
Decrement(c) ==
    /\ listener[c] = "decrement"
    /\ LET p == current[c][1]
       IN  /\ drained' = [drained EXCEPT ![p] = @ + 1]
           /\ members' = members \cup {p}
    /\ Cons!Decrement(c)
    /\ UNCHANGED <<taskVars, procVars, blocks, history>>

Listen(c) ==
    \/ /\ UNCHANGED producerVars
       /\ \/ \E p \in Partitions : Cons!Receive(c, p)
          \/ Cons!HandleEvent(c)
    \/ Decrement(c)

ListenerStep(c) == Cons!Alive(ProcessOf[c]) /\ Listen(c)

(* event_retrieval_timeout is longer than the gaps between the messages of *)
(* a producer that is still at work.                                       *)
Expire(c) == exitCode # Running /\ Cons!Expire(c)

RunnerStep(c) ==
    /\ Cons!Alive(ProcessOf[c])
    /\ UNCHANGED producerVars
    /\ Expire(c) \/ Cons!CommitOnStop(c) \/ Cons!LeaveGroup(c)

AutoCommit(c) == UNCHANGED producerVars /\ Cons!AutoCommit(c)
Rebalance == UNCHANGED producerVars /\ Cons!Rebalance
ConsumersExit(w) == UNCHANGED producerVars /\ Cons!Exit(w)

PipelineTerminated ==
    /\ exitCode # Running /\ \A w \in Processes : ~Cons!Alive(w)
    /\ UNCHANGED pipelineVars

PipelineNext ==
    \/ \E t \in Tasks : ProducerStep(t)
    \/ ProducerExit
    \/ \E c \in Consumers : ListenerStep(c) \/ RunnerStep(c) \/ AutoCommit(c)
    \/ Rebalance
    \/ \E w \in Processes : ConsumersExit(w)
    \/ PipelineTerminated

PipelineSpec == PipelineInit /\ [][PipelineNext]_pipelineVars

(* As in Producer and Consumer. *)
FairPipelineSpec ==
    /\ PipelineSpec
    /\ \A t \in Tasks : WF_pipelineVars(ProducerStep(t))
    /\ WF_pipelineVars(ProducerExit)
    /\ \A c \in Consumers :
           WF_pipelineVars(ListenerStep(c)) /\ WF_pipelineVars(RunnerStep(c))
    /\ WF_pipelineVars(Rebalance)
    /\ \A w \in Processes : WF_pipelineVars(ConsumersExit(w))
-----------------------------------------------------------------------------
Taken(p) == {m \in received : m[1] = p}

(* Back-pressure from end to end: what waits in Kafka, whatever the        *)
(* counters say, exceeds the limit by no more than a block of each task    *)
(* (manager.py:105-144, 325-331, redis.py:43-49).                          *)
WaitingBounded ==
    SumOver([p \in Partitions |-> logEnd[p] - Cardinality(Taken(p))])
        <= Limit + SumOver([t \in Tasks |-> LargestBatch(t)])

(* Both environments were right: to the producer the consumers subtract    *)
(* each stored message once, ...                                           *)
ImplementsProducer == Spec

(* ... and to the consumers the producer stores batches of messages and    *)
(* counts them later, never more than it has stored.                       *)
ImplementsConsumer == Cons!Spec

(* Everything the producer publishes is processed, and received once: no   *)
(* message is overlooked between the two, and the consumers stay until the *)
(* last one (producer.py:92-190, manager.py:299-337).                      *)
Stored == {<<p, o>> : p \in Partitions, o \in 1 .. MaxOffset}

AllProcessed ==
    <>[](/\ processed = {m \in Stored : m[2] <= logEnd[m[1]]}
         /\ redelivered = {})

(* The producer gets through its range unless the consumers empty the      *)
(* topic while it waits for space, in which case it polls Redis for ever   *)
(* (manager.py:112-142).                                                   *)
SucceedsOrSpins ==
    <>(exitCode = 0 \/ [](\E t \in Tasks : stalled[t] /\ Total = 0))
=============================================================================
