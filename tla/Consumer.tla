------------------------------ MODULE Consumer ------------------------------
(***************************************************************************)
(* The data consumers: main.start (app/main.py) starts a number of         *)
(* DataConsumer tasks (app/consumer/__init__.py) in each process, each     *)
(* over a KafkaConsumerManager of its own (app/kafka/manager.py).  All     *)
(* consumers of all processes form one Kafka consumer group.               *)
(*                                                                         *)
(* A consumer is three coroutines: start_consuming, which gathers the      *)
(* listener (_start_listening_on_topic_task) and the idle timer            *)
(* (_event_timeout_task) and disconnects when either raises.  gather does  *)
(* not cancel the listener: it may receive one more record while the       *)
(* client is closing, and goes on until the process ends.                  *)
(*                                                                         *)
(* A message is a pair <<p, o>>: offset o of partition p, counted from 1.  *)
(***************************************************************************)
EXTENDS Integers, FiniteSets

CONSTANTS
    Processes,        \* consumer containers
    Consumers,        \* the DataConsumer tasks of all processes
    ProcessOf,        \* ProcessOf[c]: the process that runs c
    Nobody,           \* the owner of an unassigned partition
    NPartitions,
    MaxOffset,        \* bound: messages the producer stores in a partition
    Faults,           \* the faults the environment may inject
    MaxFaults,        \* bound: how many faults it injects
    MaxRestarts       \* restart_policy.max_attempts

FaultKinds == {"error", "evict", "crash"}

ASSUME ConsumerAssumption ==
    /\ ProcessOf \in [Consumers -> Processes]
    /\ Nobody \notin Consumers
    /\ NPartitions \in Nat \ {0}
    /\ MaxOffset \in Nat
    /\ Faults \subseteq FaultKinds
    /\ MaxFaults \in Nat
    /\ MaxRestarts \in Nat

Partitions == 0 .. NPartitions - 1
Offsets == 1 .. MaxOffset
AllMessages == Partitions \X Offsets
NoMessage == <<>>
Running == -1         \* exitCode of a process that has not exited

VARIABLES
    \* one consumer
    runner,      \* start_consuming: waiting in gather, or disconnecting
    listener,    \* the listening task
    timer,       \* the idle timer runs, or waits for the callback to end
    current,     \* the message the listener is handling
    code,        \* what start_consuming_data will return
    \* one process
    exitCode,
    restarts,
    \* the consumer group and the topic, kept by Kafka
    owner,       \* the consumer a partition is assigned to
    position,    \* the last offset the owner has received
    committed,   \* the last offset committed by the group
    stable,      \* no rebalance is due
    logEnd,      \* messages stored in each partition
    \* Redis
    counted,     \* messages the producer has added to the score
    score,       \* the sorted set <topic>_n_transactions
    \* history
    received,    \* messages a listener has received
    redelivered, \* messages received again
    late,        \* messages received by a consumer that was disconnecting
    processed,   \* messages whose callback returned
    failed,      \* failed[w]: messages whose handling raised and ended a consumer
    dropped,     \* messages whose handling was cut off, or raised unnoticed
    faults

consumerVars == <<runner, listener, timer, current, code>>
processVars == <<exitCode, restarts>>
groupVars == <<owner, position, committed, stable>>
topicVars == <<logEnd, counted, score>>
deliveries == <<received, redelivered, late>>
fates == <<processed, failed, dropped>>
vars == <<consumerVars, processVars, groupVars, topicVars, deliveries, fates, faults>>

-----------------------------------------------------------------------------
Alive(w) == exitCode[w] = Running
Team(w) == {c \in Consumers : ProcessOf[c] = w}

(* The consumers that would take part in a rebalance. *)
Members == {c \in Consumers : Alive(ProcessOf[c]) /\ runner[c] = "waiting"}
Owned(c) == {p \in Partitions : owner[p] = c}
Deliverable(c) == {p \in Owned(c) : position[p] < logEnd[p]}

Handling(c) == listener[c] \in {"decrement", "callback"}
InFlight == {current[c] : c \in {d \in Consumers :
                              Alive(ProcessOf[d]) /\ Handling(d)}}

Init ==
    /\ runner = [c \in Consumers |-> "waiting"]
    /\ listener = [c \in Consumers |-> "listening"]
    /\ timer = [c \in Consumers |-> "armed"]
    /\ current = [c \in Consumers |-> NoMessage]
    /\ code = [c \in Consumers |-> 0]
    /\ exitCode = [w \in Processes |-> Running]
    /\ restarts = [w \in Processes |-> 0]
    /\ owner = [p \in Partitions |-> Nobody]
    /\ position = [p \in Partitions |-> 0]
    /\ committed = [p \in Partitions |-> 0]
    /\ stable = FALSE
    /\ logEnd = [p \in Partitions |-> 0]
    /\ counted = [p \in Partitions |-> 0]
    /\ score = [p \in Partitions |-> 0]
    /\ received = {} /\ redelivered = {} /\ late = {}
    /\ processed = {} /\ failed = [w \in Processes |-> {}] /\ dropped = {}
    /\ faults = 0

-----------------------------------------------------------------------------
(* The producer *)

(* The broker stores a batch ... *)
Store(p) ==
    /\ \E end \in logEnd[p] + 1 .. MaxOffset : logEnd' = [logEnd EXCEPT ![p] = end]
    /\ UNCHANGED <<consumerVars, processVars, groupVars, counted, score,
                   deliveries, fates, faults>>

(* ... which incrby_n_transactions counts later. *)
Count(p) ==
    /\ \E n \in 1 .. logEnd[p] - counted[p] :
          /\ counted' = [counted EXCEPT ![p] = @ + n]
          /\ score' = [score EXCEPT ![p] = @ + n]
    /\ UNCHANGED <<consumerVars, processVars, groupVars, logEnd, deliveries,
                   fates, faults>>

-----------------------------------------------------------------------------
(* The listener *)

TimerOnEvent_Ignored(c) == timer[c]   \* mutant: kafka_timeout_event is not set
TimerOnEvent(c) == "held"

(* The next record of the partitions of c.  A pending getone still         *)
(* delivers one while the client is closing.                               *)
Receive(c, p) ==
    /\ listener[c] = "listening"
    /\ runner[c] \in {"waiting", "closing", "leaving"}
    /\ p \in Deliverable(c)
    /\ LET m == <<p, position[p] + 1>>
       IN  /\ current' = [current EXCEPT ![c] = m]
           /\ received' = received \cup {m}
           /\ redelivered' = redelivered \cup ({m} \cap received)
           /\ late' = IF runner[c] = "waiting" THEN late ELSE late \cup {m}
    /\ position' = [position EXCEPT ![p] = @ + 1]
    /\ listener' = [listener EXCEPT ![c] = "decrement"]
    /\ timer' = [timer EXCEPT ![c] = TimerOnEvent(c)]
    /\ UNCHANGED <<runner, code, processVars, owner, committed, stable,
                   topicVars, fates, faults>>

Decremented_Never(p) == score[p]      \* mutant: decr_transactions is not called
Decremented(p) == score[p] - 1

AfterDecrement_NotAwaited(c) == "listening"   \* mutant: the callback is not awaited
AfterDecrement(c) == "callback"

Decrement(c) ==
    /\ listener[c] = "decrement"
    /\ LET p == current[c][1]
       IN  score' = [score EXCEPT ![p] = Decremented(p)]
    /\ listener' = [listener EXCEPT ![c] = AfterDecrement(c)]
    /\ UNCHANGED <<runner, timer, current, code, processVars, groupVars, logEnd,
                   counted, deliveries, fates, faults>>

(* The client of a consumer that is disconnecting yields nothing more.     *)
AfterCallback_Once(c) == "ended"      \* mutant: the listener does not loop
AfterCallback(c) == IF runner[c] = "waiting" THEN "listening" ELSE "ended"

TimerAfterCallback_Held(c) == timer[c]   \* mutant: kafka_consuming_event is not set
TimerAfterCallback(c) == "armed"

HandleEvent(c) ==
    /\ listener[c] = "callback"
    /\ processed' = processed \cup {current[c]}
    /\ current' = [current EXCEPT ![c] = NoMessage]
    /\ listener' = [listener EXCEPT ![c] = AfterCallback(c)]
    /\ timer' = [timer EXCEPT ![c] = TimerAfterCallback(c)]
    /\ UNCHANGED <<runner, code, processVars, groupVars, topicVars, deliveries,
                   failed, dropped, faults>>

(* Redis, the node, PostgreSQL or the processing of the transaction        *)
(* raises.  If start_consuming still waits, the exception ends it; if it   *)
(* is already disconnecting, nobody retrieves the exception.               *)
HandlingRaises(c) ==
    /\ "error" \in Faults /\ faults < MaxFaults
    /\ Handling(c)
    /\ faults' = faults + 1
    /\ listener' = [listener EXCEPT ![c] = "ended"]
    /\ current' = [current EXCEPT ![c] = NoMessage]
    /\ \/ /\ runner[c] = "waiting"
          /\ runner' = [runner EXCEPT ![c] = "closing"]
          /\ code' = [code EXCEPT ![c] = 1]
          /\ failed' = [failed EXCEPT ![ProcessOf[c]] = @ \cup {current[c]}]
          /\ UNCHANGED dropped
       \/ /\ runner[c] # "waiting"
          /\ dropped' = dropped \cup {current[c]}
          /\ UNCHANGED <<runner, code, failed>>
    /\ UNCHANGED <<timer, processVars, groupVars, topicVars, deliveries, processed>>

-----------------------------------------------------------------------------
(* The idle timer and disconnecting *)

(* KafkaConsumerPartitionsEmptyError.  The retrieval timeout is far longer *)
(* than a fetch or a rebalance, so it expires on a consumer that has       *)
(* nothing to receive.                                                     *)
Expire(c) ==
    /\ runner[c] = "waiting"
    /\ timer[c] = "armed"
    /\ stable /\ Deliverable(c) = {}
    /\ runner' = [runner EXCEPT ![c] = "closing"]
    /\ UNCHANGED <<listener, timer, current, code, processVars, groupVars,
                   topicVars, deliveries, fates, faults>>

(* What a commit stores for a partition: the position of the client, which *)
(* has moved past the record as soon as the listener received it.          *)
Committable_Next(p) == position[p] + 1    \* mutant: one past the position
Committable(p) == position[p]
Commit_Nothing(ps) == committed           \* mutant: nothing is committed
Commit(ps) ==
    [p \in Partitions |-> IF p \in ps THEN Committable(p) ELSE committed[p]]

(* client.stop() commits a last time ...                                   *)
CommitOnStop(c) ==
    /\ runner[c] = "closing"
    /\ committed' = Commit(Owned(c))
    /\ runner' = [runner EXCEPT ![c] = "leaving"]
    /\ UNCHANGED <<listener, timer, current, code, processVars, owner, position,
                   stable, topicVars, deliveries, fates, faults>>

(* ... leaves the group and closes the fetcher.                            *)
LeaveGroup(c) ==
    /\ runner[c] = "leaving"
    /\ runner' = [runner EXCEPT ![c] = "returned"]
    /\ listener' = [listener EXCEPT ![c] = IF @ = "listening" THEN "ended" ELSE @]
    /\ owner' = [p \in Partitions |-> IF owner[p] = c THEN Nobody ELSE owner[p]]
    /\ stable' = FALSE
    /\ UNCHANGED <<timer, current, code, processVars, position, committed,
                   topicVars, deliveries, fates, faults>>

-----------------------------------------------------------------------------
(* The group *)

AutoCommit(c) ==
    /\ c \in Members
    /\ committed' = Commit(Owned(c))
    /\ UNCHANGED <<consumerVars, processVars, owner, position, stable, topicVars,
                   deliveries, fates, faults>>

Balanced(assignment) ==
    LET Load(c) == Cardinality({p \in Partitions : assignment[p] = c})
    IN  \A c, d \in Members : Load(c) <= Load(d) + 1

(* Members commit what they give up, whoever takes over starts at the      *)
(* committed offset.  The coordinator waits for members that are leaving.  *)
Rebalance ==
    /\ ~stable /\ Members # {}
    /\ \A c \in Consumers :
           Alive(ProcessOf[c]) => runner[c] \notin {"closing", "leaving"}
    /\ \E assignment \in [Partitions -> Members] :
           Balanced(assignment) /\ owner' = assignment
    /\ committed' = Commit({p \in Partitions : owner[p] \in Members})
    /\ position' = committed'
    /\ stable' = TRUE
    /\ UNCHANGED <<consumerVars, processVars, topicVars, deliveries, fates, faults>>

(* The session of c expired (its heartbeats were late): its partitions are *)
(* taken away before it could commit.                                      *)
Evict(c) ==
    /\ "evict" \in Faults /\ faults < MaxFaults
    /\ c \in Members /\ Owned(c) # {}
    /\ faults' = faults + 1
    /\ owner' = [p \in Partitions |-> IF owner[p] = c THEN Nobody ELSE owner[p]]
    /\ stable' = FALSE
    /\ UNCHANGED <<consumerVars, processVars, position, committed, topicVars,
                   deliveries, fates>>

-----------------------------------------------------------------------------
(* The processes *)

(* main.start: int(any(result)) of the team *)
ExitStatus_All(w) == IF \A c \in Team(w) : code[c] # 0 THEN 1 ELSE 0   \* mutant
ExitStatus(w) == IF \E c \in Team(w) : code[c] # 0 THEN 1 ELSE 0

CutOff(w) == {current[c] : c \in {d \in Team(w) : Handling(d)}}
Idle(w) == [c \in Consumers |-> IF c \in Team(w) THEN "ended" ELSE listener[c]]
Forgotten(w) == [c \in Consumers |-> IF c \in Team(w) THEN NoMessage ELSE current[c]]

(* Every start_consuming has returned; sys.exit cuts off the listeners     *)
(* that still handle a message.                                            *)
Exit(w) ==
    /\ Alive(w)
    /\ \A c \in Team(w) : runner[c] = "returned"
    /\ exitCode' = [exitCode EXCEPT ![w] = ExitStatus(w)]
    /\ dropped' = dropped \cup CutOff(w)
    /\ listener' = Idle(w)
    /\ current' = Forgotten(w)
    /\ UNCHANGED <<runner, timer, code, restarts, groupVars, topicVars,
                   deliveries, processed, failed, faults>>

(* The container is killed, or one consumer's connect raised and took the  *)
(* others down with it.                                                    *)
Crash(w) ==
    /\ "crash" \in Faults /\ faults < MaxFaults
    /\ Alive(w)
    /\ faults' = faults + 1
    /\ exitCode' = [exitCode EXCEPT ![w] = 1]
    /\ dropped' = dropped \cup CutOff(w)
    /\ listener' = Idle(w)
    /\ current' = Forgotten(w)
    /\ owner' = [p \in Partitions |->
                    IF owner[p] \in Team(w) THEN Nobody ELSE owner[p]]
    /\ stable' = FALSE
    /\ UNCHANGED <<runner, timer, code, restarts, position, committed, topicVars,
                   deliveries, processed, failed>>

(* restart_policy on-failure: new consumers join the group *)
Restart(w) ==
    /\ exitCode[w] = 1 /\ restarts[w] < MaxRestarts
    /\ restarts' = [restarts EXCEPT ![w] = @ + 1]
    /\ exitCode' = [exitCode EXCEPT ![w] = Running]
    /\ runner' = [c \in Consumers |-> IF c \in Team(w) THEN "waiting" ELSE runner[c]]
    /\ listener' = [c \in Consumers |->
                       IF c \in Team(w) THEN "listening" ELSE listener[c]]
    /\ timer' = [c \in Consumers |-> IF c \in Team(w) THEN "armed" ELSE timer[c]]
    /\ code' = [c \in Consumers |-> IF c \in Team(w) THEN 0 ELSE code[c]]
    /\ stable' = FALSE
    /\ UNCHANGED <<current, owner, position, committed, topicVars, deliveries,
                   fates, faults>>

Ended(w) == exitCode[w] = 0 \/ (exitCode[w] = 1 /\ restarts[w] = MaxRestarts)

Terminated ==
    /\ \A w \in Processes : Ended(w)
    /\ UNCHANGED vars

-----------------------------------------------------------------------------
ListenerStep(c) ==
    /\ Alive(ProcessOf[c])
    /\ \/ \E p \in Partitions : Receive(c, p)
       \/ Decrement(c) \/ HandleEvent(c)

RunnerStep(c) ==
    /\ Alive(ProcessOf[c])
    /\ Expire(c) \/ CommitOnStop(c) \/ LeaveGroup(c)

ConsumerFault(c) ==
    /\ Alive(ProcessOf[c])
    /\ HandlingRaises(c) \/ Evict(c)

Next ==
    \/ \E p \in Partitions : Store(p) \/ Count(p)
    \/ \E c \in Consumers :
          ListenerStep(c) \/ RunnerStep(c) \/ AutoCommit(c) \/ ConsumerFault(c)
    \/ Rebalance
    \/ \E w \in Processes : Exit(w) \/ Crash(w) \/ Restart(w)
    \/ Terminated

Spec == Init /\ [][Next]_vars

(* The event loop runs every coroutine that is ready, awaited calls        *)
(* return, the coordinator completes a rebalance, and the container        *)
(* runtime restarts what failed.  Neither a message nor a fault is owed.   *)
Fairness ==
    /\ \A c \in Consumers : WF_vars(ListenerStep(c)) /\ WF_vars(RunnerStep(c))
    /\ WF_vars(Rebalance)
    /\ \A w \in Processes : WF_vars(Exit(w)) /\ WF_vars(Restart(w))

FairSpec == Spec /\ Fairness
-----------------------------------------------------------------------------
TypeOK ==
    /\ runner \in [Consumers -> {"waiting", "closing", "leaving", "returned"}]
    /\ listener \in [Consumers -> {"listening", "decrement", "callback", "ended"}]
    /\ timer \in [Consumers -> {"armed", "held"}]
    /\ current \in [Consumers -> AllMessages \cup {NoMessage}]
    /\ code \in [Consumers -> {0, 1}]
    /\ exitCode \in [Processes -> {Running, 0, 1}]
    /\ restarts \in [Processes -> 0 .. MaxRestarts]
    /\ owner \in [Partitions -> Consumers \cup {Nobody}]
    /\ position \in [Partitions -> 0 .. MaxOffset]
    /\ committed \in [Partitions -> 0 .. MaxOffset]
    /\ stable \in BOOLEAN
    /\ logEnd \in [Partitions -> 0 .. MaxOffset]
    /\ counted \in [Partitions -> 0 .. MaxOffset]
    /\ score \in [Partitions -> Int]
    /\ received \subseteq AllMessages
    /\ redelivered \subseteq AllMessages
    /\ late \subseteq AllMessages
    /\ processed \subseteq AllMessages
    /\ failed \in [Processes -> SUBSET AllMessages]
    /\ dropped \subseteq AllMessages
    /\ faults \in 0 .. MaxFaults

(* A committed offset is never delivered again, so every message up to it  *)
(* has a fate: processed, being handled, or lost for a known reason; the   *)
(* commit of a position that is ahead of the callback (manager.py:325-333) *)
(* skips nothing else.                                                     *)
HasFate(m) ==
    \/ m \in processed \cup InFlight \cup dropped
    \/ \E w \in Processes : m \in failed[w]

CommittedHaveFates ==
    \A p \in Partitions : \A o \in 1 .. committed[p] : HasFate(<<p, o>>)

(* Without a fault a message is cut off or delivered twice only if a       *)
(* consumer received it while it was already disconnecting: the idle timer *)
(* never ends a consumer in the middle of a message (manager.py:299-333).  *)
OnlyLateMessagesSuffer ==
    faults = 0 => dropped \cup redelivered \subseteq late

(* A process that has exited with 0 without ever being restarted has had   *)
(* no exception in a consumer it was waiting for (main.py:37-42,           *)
(* consumer/__init__.py:105-138).                                          *)
FailureReported ==
    \A w \in Processes :
        exitCode[w] = 0 /\ restarts[w] = 0 => failed[w] = {}

(* The counter follows consumption: while no delivery has gone wrong it is *)
(* what the producer has counted minus what the listeners have taken       *)
(* (manager.py:325-331, redis.py:43-49).                                   *)
Taken(p) ==
    {m \in received : m[1] = p /\ ~\E c \in Consumers :
                          listener[c] = "decrement" /\ current[c] = m}

CounterTracksConsumption ==
    faults = 0 /\ dropped \cup redelivered = {} =>
        \A p \in Partitions : score[p] = counted[p] - Cardinality(Taken(p))

(* A stored message gets its fate, or no consumer is left to give it one   *)
(* (consumer/__init__.py:105-138, docker-compose.prod.yml:21-25).          *)
MessagesGetFates ==
    \A m \in AllMessages :
        m[2] <= logEnd[m[1]] ~> (HasFate(m) \/ \A w \in Processes : Ended(w))

(* Consumers do not wait for ever: when the producer is done, the idle     *)
(* timer ends every process (manager.py:299-316).                          *)
ConsumersExit == <>[](\A w \in Processes : Ended(w))

(* The group implements the abstract one of module Delivery: what is       *)
(* committed was taken and is never taken again, whoever commits, fails,   *)
(* is evicted or takes over (manager.py:318-361, main.py:37-42).           *)
Group == INSTANCE Delivery WITH
             Workers <- Consumers,
             stored <- {m \in AllMessages : m[2] <= logEnd[m[1]]},
             inHand <- current,
             lost <- dropped \cup UNION {failed[w] : w \in Processes},
             settled <- {m \in AllMessages : m[2] <= committed[m[1]]}

ImplementsDelivery == Group!Spec

(* manager.py:295 "used for indefinite waiting while consumer is consuming *)
(* messages": without a fault no message that is being consumed is cut     *)
(* off.                                                                    *)
ConsumingIsNeverCutOff == faults = 0 => dropped = {}
=============================================================================
