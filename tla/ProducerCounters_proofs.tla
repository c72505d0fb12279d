----------------------- MODULE ProducerCounters_proofs -----------------------
(* Theorems about the producer's counters: the Redis scores against the    *)
(* topic, the overshoot of the limiter, and the length of the topic.       *)
EXTENDS Producer_proofs, FiniteSums_proofs, FiniteSetTheorems

-----------------------------------------------------------------------------
(* The counter against the topic *)

InTransitTyped ==
    \A p : /\ InTransit(p) \in [Tasks -> Nat] /\ Unacknowledged(p) \in Nat
           /\ \A t \in Tasks : pc[t] # "ack" => InTransit(p)[t] = 0

LEMMA InTransitType == TypeInv => InTransitTyped
<1>1. ASSUME TypeInv, NEW t \in Tasks, pc[t] = "ack"
      PROVE  AppendedEnd(t) - sent[t] \in Nat
  BY <1>1, ChunkBounds DEF SendingPcs
<1>2. ASSUME TypeInv, NEW p PROVE InTransit(p) \in [Tasks -> Nat]
  BY <1>1, <1>2 DEF InTransit
<1>. QED
  BY <1>2, SumNonnegative, ProducerAssumption
     DEF InTransitTyped, Unacknowledged, InTransit

(* A step of task t changes what is in transit by the share of t. *)
LEMMA InTransitOfOneTask ==
    ASSUME TypeInv, NEW t \in Tasks, TaskStep(t) \/ TaskFault(t), NEW p
    PROVE  /\ Unacknowledged(p)' \in Nat
           /\ Unacknowledged(p)' =
                 Unacknowledged(p) + (InTransit(p)'[t] - InTransit(p)[t])
<1>. DEFINE f == InTransit(p)
            g == InTransit(p)'
<1>1. TypeInv'
  BY NextTypeInv DEF Next
<1>2. InTransitTyped /\ InTransitTyped'
  BY <1>1, InTransitType, PTL
<1>3. f \in [Tasks -> Int] /\ g \in [Tasks -> Int] /\ Unacknowledged(p)' \in Nat
  BY <1>2 DEF InTransitTyped
<1>4. ASSUME NEW u \in Tasks \ {t} PROVE g[u] = f[u]
  BY TaskFrame DEF InTransit, AppendedEnd, ChunkEnd, Size, SizeOf
<1>. HIDE DEF f, g
<1>5. IsFiniteSet(Tasks)
  BY ProducerAssumption
<1>6. SumOver(g) = SumOver(f) + (g[t] - f[t])
  BY <1>3, <1>4, <1>5, SumChange
<1>. QED BY <1>3, <1>6 DEF Unacknowledged, f, g

(* CounterMatchesTopic is inductive given the types: a batch is in transit *)
(* from its storage to its count, and a failure in between only leaves the *)
(* counter behind the topic.                                               *)
ErrorsEnd == \A t \in Tasks : outcome[t] = "error" => pc[t] = "done"

LEMMA TaskKeepsCounter ==
    ASSUME TypeInv, CounterMatchesTopic, Faults = {} \/ ErrorsEnd,
           NEW t \in Tasks, TaskStep(t) \/ TaskFault(t)
    PROVE  CounterMatchesTopic'
<1>. SUFFICES ASSUME NEW p \in Partitions
              PROVE  /\ score'[p] + Unacknowledged(p)' <= logEnd'[p] - drained'[p]
                     /\ Undisturbed' =>
                           score'[p] + Unacknowledged(p)' = logEnd'[p] - drained'[p]
  BY DEF CounterMatchesTopic
<1>. DEFINE before == InTransit(p)[t]
            after == InTransit(p)'[t]
<1>1. /\ score[p] + Unacknowledged(p) <= logEnd[p] - drained[p]
      /\ Undisturbed => score[p] + Unacknowledged(p) = logEnd[p] - drained[p]
      /\ score[p] \in Int /\ logEnd[p] \in Nat /\ drained[p] \in Nat
      /\ Unacknowledged(p) \in Nat
  BY InTransitType DEF CounterMatchesTopic, TypeInv, TypeOK, InTransitTyped
<1>2. Unacknowledged(p)' = Unacknowledged(p) + (after - before)
  BY InTransitOfOneTask
<1>3. before \in Nat /\ exitCode = Running /\ exitCode' = Running
  BY InTransitType, TaskFrame DEF InTransitTyped
<1>4. drained' = drained
  BY DEF TaskStep, TaskFault, AcquireConnection, ConnectionBusy, DecideBounds,
         Resume, InsertBlock, StopAtEndBlock, StopAtLatestBlock, GetBlockData,
         GetBlockReward, AdvanceBlock, GetLogs, FinishLogs, LogFilter,
         ReadTopicSize, AdmitBatch, Stall, SpinOnEmptyTopic,
         ChooseNextPartition, ChooseLowestScorePartition, StoreBatch,
         CountBatch, SendTimesOut, CallRaises, storeVars
<1>9. Undisturbed' => Undisturbed /\ ~TaskFault(t)
  <2>1. pc[t] # "done" /\ restarts' = restarts
    BY StepFromPc, TaskFrame
  <2>2. \A u \in Tasks : u # t => outcome'[u] = outcome[u]
    BY TaskFrame
  <2>3. SendTimesOut(t) => "timeout" \in Faults
    BY DEF SendTimesOut
  <2>4. CallRaises(t) => Faults # {} /\ outcome'[t] = "error"
    BY DEF CallRaises, Finish, TypeInv, TypeOK
  <2>. QED BY <2>1, <2>2, <2>3, <2>4 DEF Undisturbed, ErrorsEnd, TaskFault
<1>. HIDE DEF Undisturbed
<1>5. CASE StoreBatch(t)
  <2>. DEFINE n == AppendedEnd(t) - sent[t]
  <2>1. n \in Nat
    BY <1>5, ChunkBounds DEF StoreBatch, SendingPcs
  <2>2. before = 0
    BY <1>5 DEF StoreBatch, InTransit
  <2>3. after = IF part[t] = p THEN n ELSE 0
    BY <1>3, <1>5 DEF StoreBatch, Goto, InTransit, AppendedEnd, ChunkEnd, Size,
                      SizeOf, TypeInv, TypeOK
  <2>4. logEnd'[p] = logEnd[p] + (IF part[t] = p THEN n ELSE 0) /\ score' = score
    BY <1>1, <1>5, <2>1 DEF StoreBatch, TypeInv, TypeOK
  <2>. HIDE DEF before, after, n
  <2>. QED BY <1>1, <1>2, <1>4, <1>9, <2>1, <2>2, <2>3, <2>4
<1>6. CASE CountBatch(t)
  <2>. DEFINE n == AppendedEnd(t) - sent[t]
  <2>1. n \in Nat
    BY <1>6, ChunkBounds DEF CountBatch, SendingPcs
  <2>2. before = IF part[t] = p THEN n ELSE 0
    BY <1>3, <1>6 DEF CountBatch, InTransit
  <2>3. after = 0
    BY <1>6 DEF CountBatch, Goto, AfterChunk, AfterBatch, InTransit, TypeInv,
                TypeOK
  <2>4. score'[p] = score[p] + (IF part[t] = p THEN n ELSE 0) /\ logEnd' = logEnd
    BY <1>1, <1>6, <2>1 DEF CountBatch, Appended, TypeInv, TypeOK
  <2>. HIDE DEF before, after, n
  <2>. QED BY <1>1, <1>2, <1>4, <1>9, <2>1, <2>2, <2>3, <2>4
<1>7. CASE TaskFault(t)
  <2>1. score' = score /\ logEnd' = logEnd
    BY <1>7 DEF TaskFault, SendTimesOut, CallRaises, storeVars
  <2>2. after = 0
    BY <1>7 DEF TaskFault, SendTimesOut, AfterTimeout, AfterBatch, CallRaises,
                Goto, Finish, InTransit, TypeInv, TypeOK
  <2>. HIDE DEF before, after
  <2>. QED BY <1>1, <1>2, <1>3, <1>4, <1>7, <1>9, <2>1, <2>2
<1>8. CASE ~StoreBatch(t) /\ ~CountBatch(t) /\ ~TaskFault(t)
  <2>1. score' = score /\ logEnd' = logEnd /\ pc[t] # "ack" /\ pc'[t] # "ack"
    BY <1>8 DEF TypeInv, TypeOK, TaskStep, AcquireConnection, ConnectionBusy,
                DecideBounds, Resume, InsertBlock, StopAtEndBlock,
                StopAtLatestBlock, GetBlockData, AfterBlockData,
                GetBlockReward, AdvanceBlock, GetLogs, FinishLogs, LogFilter,
                ReadTopicSize, AdmitBatch, Stall, SpinOnEmptyTopic,
                ChooseNextPartition, ChooseLowestScorePartition, Goto, Finish,
                storeVars
  <2>2. before = 0 /\ after = 0
    BY <2>1 DEF InTransit
  <2>. HIDE DEF before, after
  <2>. QED BY <1>1, <1>2, <1>4, <1>9, <2>1, <2>2
<1>. QED BY <1>5, <1>6, <1>7, <1>8

LEMMA NothingInTransit ==
    ASSUME NEW p, exitCode # Running \/ \A t \in Tasks : pc[t] # "ack"
    PROVE  Unacknowledged(p) = 0
<1>1. InTransit(p) = [t \in Tasks |-> 0]
  BY DEF InTransit
<1>. QED BY <1>1, SumZero, ProducerAssumption DEF Unacknowledged

LEMMA NextCounter ==
    TypeInv /\ (Faults = {} \/ ErrorsEnd) /\ CounterMatchesTopic /\ [Next]_vars
        => CounterMatchesTopic'
<1>. SUFFICES ASSUME TypeInv, Faults = {} \/ ErrorsEnd, CounterMatchesTopic,
                     [Next]_vars
              PROVE  CounterMatchesTopic'
  OBVIOUS
<1>1. ASSUME NEW p \in Partitions
      PROVE  /\ score[p] + Unacknowledged(p) <= logEnd[p] - drained[p]
             /\ Undisturbed => score[p] + Unacknowledged(p) = logEnd[p] - drained[p]
             /\ score[p] \in Int /\ logEnd[p] \in Nat /\ drained[p] \in Nat
             /\ Unacknowledged(p) \in Nat
  BY InTransitType DEF CounterMatchesTopic, TypeInv, TypeOK, InTransitTyped
<1>2. CASE ProcessStep
  <2>1. score' = score /\ logEnd' = logEnd /\ drained' = drained
    BY <1>2 DEF ProcessStep, Exit, Crash, Restart, storeVars
  <2>2. ASSUME NEW p \in Partitions PROVE Unacknowledged(p)' = 0
    <3>1. exitCode' # Running \/ \A t \in Tasks : pc'[t] # "ack"
      BY <1>2 DEF ProcessStep, Exit, ExitStatus, Crash, Restart, Running,
                            StartPc
    <3>2. InTransit(p)' = [t \in Tasks |-> 0]
      BY <3>1 DEF InTransit
    <3>. QED BY <3>2, SumZero, ProducerAssumption DEF Unacknowledged
  <2>3. ASSUME NEW p \in Partitions, Undisturbed'
        PROVE  Undisturbed /\ Unacknowledged(p) = 0
    <3>1. ~Crash /\ (Exit \/ Faults = {})
      BY <1>2, <2>3 DEF ProcessStep, Crash, Restart, Undisturbed, TypeInv, TypeOK
    <3>2. exitCode # Running \/ \A t \in Tasks : pc[t] # "ack"
      BY <1>2, <3>1 DEF ProcessStep, Exit, Restart, Running
    <3>3. Undisturbed
      BY <2>3, <3>1 DEF Exit, Undisturbed, taskVars
    <3>. QED BY <3>2, <3>3, NothingInTransit
  <2>. QED BY <1>1, <2>1, <2>2, <2>3 DEF CounterMatchesTopic
<1>3. ASSUME NEW q \in Partitions, ConsumerDecrements(q) PROVE CounterMatchesTopic'
  <2>1. ASSUME NEW p \in Partitions PROVE Unacknowledged(p)' = Unacknowledged(p)
    BY <1>3 DEF ConsumerDecrements, taskVars, procVars, Unacknowledged,
                InTransit, AppendedEnd, ChunkEnd, Size, SizeOf
  <2>4. Undisturbed' => Undisturbed
    BY <1>3 DEF ConsumerDecrements, taskVars, procVars, Undisturbed
  <2>2. ASSUME NEW p \in Partitions
        PROVE  /\ logEnd'[p] = logEnd[p]
               /\ drained'[p] = drained[p] + (IF p = q THEN 1 ELSE 0)
               /\ score'[p] = score[p] - (IF p = q THEN 1 ELSE 0)
    BY <1>1, <1>3 DEF ConsumerDecrements, TypeInv, TypeOK
  <2>3. ASSUME NEW p \in Partitions
        PROVE  /\ score'[p] + Unacknowledged(p)' <= logEnd'[p] - drained'[p]
               /\ Undisturbed' =>
                     score'[p] + Unacknowledged(p)' = logEnd'[p] - drained'[p]
    <3>. DEFINE n == IF p = q THEN 1 ELSE 0
    <3>1. n \in Int
      OBVIOUS
    <3>. HIDE DEF n
    <3>2. /\ Unacknowledged(p)' = Unacknowledged(p) /\ logEnd'[p] = logEnd[p]
          /\ drained'[p] = drained[p] + n /\ score'[p] = score[p] - n
      BY <2>1, <2>2 DEF n
    <3>3. /\ score[p] + Unacknowledged(p) <= logEnd[p] - drained[p]
          /\ Undisturbed => score[p] + Unacknowledged(p) = logEnd[p] - drained[p]
          /\ score[p] \in Int /\ logEnd[p] \in Int /\ drained[p] \in Int
          /\ Unacknowledged(p) \in Int
      BY <1>1
    <3>. QED BY <2>4, <3>1, <3>2, <3>3
  <2>. QED BY <2>3 DEF CounterMatchesTopic
<1>4. CASE UNCHANGED vars
  BY <1>4 DEF vars, taskVars, procVars, storeVars, CounterMatchesTopic,
              Undisturbed, Unacknowledged, InTransit, AppendedEnd, ChunkEnd, Size, SizeOf
<1>. QED
  BY <1>2, <1>3, <1>4, TaskKeepsCounter DEF Next, Terminated

(* The counter the limiter reads never claims more messages than wait in   *)
(* the topic, and until something goes wrong exactly these, batches whose  *)
(* acknowledgement is on its way apart (manager.py:249-255, redis.py:43-49). *)
THEOREM CounterAlwaysMatchesTopic == Spec => []CounterMatchesTopic
<1>1. Init => CounterMatchesTopic
  <2>1. ASSUME Init, NEW p \in Partitions PROVE Unacknowledged(p) = 0
    BY <2>1, NothingInTransit DEF Init, InitTasks, StartPc
  <2>. QED BY <2>1 DEF Init, CounterMatchesTopic
<1>2. SafetyInv => TypeInv /\ ErrorsEnd
  BY DEF SafetyInv, Progress, ErrorsEnd
<1>. QED BY <1>1, <1>2, InitSafetyInv, NextSafetyInv, NextCounter, PTL DEF Spec

-----------------------------------------------------------------------------
(* The overshoot of the limiter *)

LEMMA PartitionsFinite == IsFiniteSet(Partitions)
  BY FS_Interval, ProducerAssumption DEF Partitions

LEMMA LargestBlock ==
    /\ Max({BlockSize[b] : b \in 0 .. LatestBlock}) \in Nat
    /\ \A b \in 0 .. LatestBlock :
           BlockSize[b] <= Max({BlockSize[c] : c \in 0 .. LatestBlock})
<1>. DEFINE Largest(n, i) == \A j \in 0 .. n : BlockSize[j] <= BlockSize[i]
            T == {n \in Nat : n <= LatestBlock => \E i \in 0 .. n : Largest(n, i)}
            S == {BlockSize[b] : b \in 0 .. LatestBlock}
<1>1. LatestBlock \in Nat /\ \A b \in 0 .. LatestBlock : BlockSize[b] \in Nat
  BY ProducerAssumption
<1>2. 0 \in T
  BY <1>1
<1>3. ASSUME NEW n \in Nat, n \in T PROVE n + 1 \in T
  <2>1. SUFFICES ASSUME n + 1 <= LatestBlock
                 PROVE  \E i \in 0 .. n + 1 : Largest(n + 1, i)
    OBVIOUS
  <2>2. PICK i \in 0 .. n : Largest(n, i)
    BY <1>1, <1>3, <2>1
  <2>3. CASE BlockSize[n + 1] <= BlockSize[i]
    BY <2>2, <2>3
  <2>4. CASE ~(BlockSize[n + 1] <= BlockSize[i])
    <3>1. BlockSize[n + 1] \in Nat /\ \A j \in 0 .. n : BlockSize[j] \in Nat
      BY <1>1, <2>1
    <3>2. \A j \in 0 .. n + 1 : j = n + 1 \/ j \in 0 .. n
      OBVIOUS
    <3>3. Largest(n + 1, n + 1)
      BY <2>2, <2>4, <3>1, <3>2
    <3>. QED BY <3>3
  <2>. QED BY <2>3, <2>4
<1>4. LatestBlock \in T
  <2>. HIDE DEF T
  <2>. QED BY <1>1, <1>2, <1>3, NatSetInduction
<1>5. \E x \in S : \A y \in S : x >= y
  BY <1>1, <1>4
<1>6. Max(S) \in S /\ \A y \in S : Max(S) >= y
  BY <1>5 DEF Max
<1>. QED BY <1>1, <1>6

LEMMA BatchBounds ==
    ASSUME TypeInv, NEW t \in Tasks
    PROVE  /\ LargestBatch(t) \in Nat
           /\ pc[t] \in LoadedPcs => Size(t) <= LargestBatch(t)
           /\ pc[t] \in SendingPcs => sent[t] <= LargestBatch(t)
<1>1. LargestBatch(t) \in Nat
  BY LargestBlock, ProducerAssumption DEF LargestBatch
<1>2. ASSUME pc[t] \in LoadedPcs PROVE Size(t) <= LargestBatch(t)
  <2>1. CASE Mode[t] = "get_logs"
    BY <2>1, ProducerAssumption DEF LargestBatch, Size, SizeOf
  <2>2. CASE Mode[t] # "get_logs"
    <3>1. block[t] \in 0 .. LatestBlock
      BY <1>2, <2>2, ProducerAssumption DEF TypeInv, TypeOK, WellPlaced
    <3>. QED BY <2>2, <3>1, LargestBlock DEF LargestBatch, Size, SizeOf
  <2>. QED BY <2>1, <2>2
<1>. QED
  BY <1>1, <1>2, SizeInNat
     DEF TypeInv, TypeOK, WellPlaced, LoadedPcs, SendingPcs

(* What a task may have added to the counter on top of the limit: nothing  *)
(* when it reads the counter and finds room, from then on what it has      *)
(* counted of its batch, and a whole batch once that is done.              *)
Admitted(t) == \/ pc[t] \in {"chunk", "send", "ack"}
               \/ pc[t] = "decide" /\ seen[t] # "full"
Credit(t) == IF Admitted(t) THEN sent[t] ELSE LargestBatch(t)
Credits == [t \in Tasks |-> Credit(t)]

WithinCredits == Total <= Limit + SumOver(Credits)

CreditsTyped ==
    /\ Credits \in [Tasks -> Nat] /\ SumOver(Credits) \in Nat
    /\ Total \in Int /\ Limit \in Nat

LEMMA CreditsType == TypeInv => CreditsTyped
<1>. SUFFICES ASSUME TypeInv PROVE CreditsTyped
  OBVIOUS
<1>1. Credits \in [Tasks -> Nat]
  BY BatchBounds DEF Credits, Credit, TypeInv, TypeOK
<1>2. Total \in Int
  BY SumType, PartitionsFinite DEF TypeInv, TypeOK, Total
<1>3. Limit \in Nat
  BY ProducerAssumption DEF Limit
<1>. QED
  BY <1>1, <1>2, <1>3, SumNonnegative, ProducerAssumption DEF CreditsTyped

LEMMA TaskKeepsCredits ==
    ASSUME TypeInv, WithinCredits, NEW t \in Tasks, TaskStep(t) \/ TaskFault(t)
    PROVE  WithinCredits'
<1>. DEFINE f == Credits
            g == Credits'
<1>1. TypeInv' /\ IsFiniteSet(Tasks)
  BY NextTypeInv, ProducerAssumption DEF Next
<1>2. CreditsTyped /\ CreditsTyped'
  BY <1>1, CreditsType, PTL
<1>3. /\ f \in [Tasks -> Int] /\ SumOver(f) \in Nat /\ Total \in Int
      /\ g \in [Tasks -> Int] /\ SumOver(g) \in Nat /\ Total' \in Int
      /\ Limit \in Nat
  BY <1>2 DEF CreditsTyped
<1>4. f[t] = Credit(t) /\ g[t] = Credit(t)'
  BY DEF Credits
<1>5. SumOver(g) = SumOver(f) + (Credit(t)' - Credit(t))
  <2>1. ASSUME NEW u \in Tasks \ {t} PROVE g[u] = f[u]
    <3>1. LargestBatch(u)' = LargestBatch(u)
      BY DEF LargestBatch
    <3>2. seen'[u] = seen[u]
      BY DEF TaskStep, TaskFault, AcquireConnection, ConnectionBusy,
             DecideBounds, Resume, InsertBlock, StopAtEndBlock,
             StopAtLatestBlock, GetBlockData, GetBlockReward, AdvanceBlock,
             GetLogs, FinishLogs, LogFilter, ReadTopicSize, AdmitBatch, Stall,
             SpinOnEmptyTopic, ChooseNextPartition, ChooseLowestScorePartition,
             StoreBatch, CountBatch, SendTimesOut, CallRaises, TypeInv, TypeOK
    <3>. QED BY <3>1, <3>2, TaskFrame DEF Credits, Credit, Admitted
  <2>. HIDE DEF f, g
  <2>2. SumOver(g) = SumOver(f) + (g[t] - f[t])
    BY <1>1, <1>3, <2>1, SumChange
  <2>. QED BY <1>4, <2>2
<1>6. /\ Credit(t) \in Nat /\ Credit(t) <= LargestBatch(t)
      /\ LargestBatch(t) \in Nat /\ LargestBatch(t)' = LargestBatch(t)
      /\ Credit(t)' \in Nat
  <2>1. Credit(t) \in Nat /\ Credit(t)' \in Nat
    BY <1>2, <1>4 DEF CreditsTyped
  <2>2. Credit(t) \in {sent[t], LargestBatch(t)}
        /\ (Credit(t) = sent[t] => pc[t] \in SendingPcs \/ sent[t] = LargestBatch(t))
    BY DEF Credit, Admitted, SendingPcs
  <2>3. LargestBatch(t)' = LargestBatch(t)
    BY DEF LargestBatch
  <2>. HIDE DEF f, g
  <2>. QED BY <2>1, <2>2, <2>3, BatchBounds
<1>7. CASE CountBatch(t)
  <2>. DEFINE n == AppendedEnd(t) - sent[t]
  <2>1. /\ pc[t] = "ack" /\ sent[t] \in Nat /\ n \in Nat /\ ChunkEnd(t) \in Nat
        /\ sent[t] + n <= ChunkEnd(t) /\ ChunkEnd(t) <= LargestBatch(t)
    BY <1>7, ChunkBounds, BatchBounds DEF CountBatch, SendingPcs, LoadedPcs
  <2>2. Credit(t) = sent[t]
    BY <2>1 DEF Credit, Admitted
  <2>3. Credit(t)' \in {ChunkEnd(t), LargestBatch(t)}
    BY <1>6, <1>7 DEF CountBatch, Goto, AfterChunk, AfterBatch, Credit, Admitted,
                      TypeInv, TypeOK
  <2>4. Total' = Total + n
    <3>1. /\ score \in [Partitions -> Int] /\ score' \in [Partitions -> Int]
          /\ part[t] \in Partitions
      BY <1>1 DEF TypeInv, TypeOK
    <3>2. /\ score'[part[t]] = score[part[t]] + n
          /\ \A p \in Partitions \ {part[t]} : score'[p] = score[p]
      BY <1>7, <3>1 DEF CountBatch, Appended
    <3>3. SumOver(score') = SumOver(score) + (score'[part[t]] - score[part[t]])
      BY <3>1, <3>2, SumChange, PartitionsFinite
    <3>4. score[part[t]] \in Int
      BY <3>1
    <3>. HIDE DEF n
    <3>. QED BY <1>3, <2>1, <3>2, <3>3, <3>4 DEF Total
  <2>. HIDE DEF f, g, n
  <2>5. SumOver(f) + n <= SumOver(g)
    BY <1>3, <1>5, <1>6, <2>1, <2>2, <2>3
  <2>6. Total <= Limit + SumOver(f)
    BY DEF WithinCredits, f
  <2>7. Total + n <= Limit + SumOver(g)
    BY <1>3, <2>1, <2>5, <2>6
  <2>. QED BY <2>4, <2>7 DEF WithinCredits, Limit, g
<1>8. CASE ~CountBatch(t)
  <2>1. score' = score /\ Total' = Total /\ Limit' = Limit
    <3>1. score' = score
      BY <1>8 DEF TaskStep, TaskFault, AcquireConnection, ConnectionBusy,
                  DecideBounds, Resume, InsertBlock, StopAtEndBlock,
                  StopAtLatestBlock, GetBlockData, GetBlockReward,
                  AdvanceBlock, GetLogs, FinishLogs, LogFilter, ReadTopicSize,
                  AdmitBatch, Stall, SpinOnEmptyTopic, ChooseNextPartition,
                  ChooseLowestScorePartition, StoreBatch, SendTimesOut,
                  CallRaises, storeVars
    <3>. QED BY <3>1 DEF Total, Limit
  <2>2. CASE ReadTopicSize(t) /\ Verdict # "full"
    <3>1. Total <= Limit
      BY <1>3, <2>2 DEF Verdict
    <3>. QED BY <1>3, <2>1, <3>1 DEF WithinCredits
  <2>3. CASE ~(ReadTopicSize(t) /\ Verdict # "full")
    <3>1. Credit(t)' = Credit(t) \/ Credit(t)' = LargestBatch(t)
      BY <1>1, <1>6, <1>8, <2>3
         DEF TaskStep, TaskFault, AcquireConnection, ConnectionBusy,
             DecideBounds, Resume, InsertBlock, StopAtEndBlock,
             StopAtLatestBlock, GetBlockData, AfterBlockData, GetBlockReward,
             AdvanceBlock, GetLogs, FinishLogs, LogFilter, ReadTopicSize,
             AdmitBatch, HasSpace, Stall, SpinOnEmptyTopic,
             ChooseNextPartition, ChooseLowestScorePartition, StoreBatch,
             SendTimesOut, AfterTimeout, AfterBatch, CallRaises, Goto, Finish,
             Credit, Admitted, TypeInv, TypeOK
    <3>2. SumOver(f) <= SumOver(g)
      BY <1>3, <1>5, <1>6, <3>1
    <3>. QED BY <1>3, <2>1, <3>2 DEF WithinCredits
  <2>. QED BY <2>2, <2>3
<1>. QED BY <1>7, <1>8

LEMMA NextCredits == TypeInv /\ WithinCredits /\ [Next]_vars => WithinCredits'
<1>. SUFFICES ASSUME TypeInv, WithinCredits, [Next]_vars PROVE WithinCredits'
  OBVIOUS
<1>1. CreditsTyped /\ CreditsTyped' /\ TypeInv' /\ Limit' = Limit
  <2>1. CreditsTyped /\ CreditsTyped' /\ TypeInv'
    BY NextTypeInv, CreditsType, PTL
  <2>. QED BY <2>1 DEF Limit
<1>2. CASE Restart
  <2>1. ASSUME NEW t \in Tasks PROVE Credits[t] <= Credits'[t]
    <3>1. Credits'[t] = LargestBatch(t)
      BY <1>2 DEF Restart, StartPc, Credits, Credit, Admitted, LargestBatch
    <3>2. Credits[t] \in {sent[t], LargestBatch(t)}
          /\ (Credits[t] = sent[t] => pc[t] \in SendingPcs \/ sent[t] = LargestBatch(t))
      BY DEF Credits, Credit, Admitted, SendingPcs
    <3>. QED BY <3>1, <3>2, BatchBounds
  <2>. DEFINE f == Credits
              g == Credits'
  <2>2. f \in [Tasks -> Int] /\ g \in [Tasks -> Int] /\ IsFiniteSet(Tasks)
    BY <1>1, ProducerAssumption DEF CreditsTyped
  <2>. HIDE DEF f, g
  <2>3. SumOver(f) <= SumOver(g)
    <3>1. \A t \in Tasks : f[t] <= g[t]
      BY <2>1 DEF f, g
    <3>. QED BY <2>2, <3>1, SumMonotonic
  <2>4. Total' = Total
    BY <1>2 DEF Restart, storeVars, Total
  <2>. QED BY <1>1, <2>3, <2>4 DEF WithinCredits, CreditsTyped, f, g
<1>3. CASE Exit \/ Crash \/ UNCHANGED vars
  <2>1. Credits' = Credits /\ Total' = Total
    BY <1>3 DEF Exit, Crash, vars, taskVars, storeVars, Total, Credits, Credit,
                Admitted, LargestBatch
  <2>. QED BY <1>1, <2>1 DEF WithinCredits
<1>4. ASSUME NEW q \in Partitions, ConsumerDecrements(q) PROVE WithinCredits'
  <2>1. Credits' = Credits
    BY <1>4 DEF ConsumerDecrements, taskVars, Credits, Credit, Admitted,
                LargestBatch
  <2>2. /\ score \in [Partitions -> Int] /\ score' \in [Partitions -> Int]
    BY <1>1 DEF TypeInv, TypeOK
  <2>3. \A p \in Partitions : score'[p] <= score[p]
    BY <1>4, <2>2 DEF ConsumerDecrements
  <2>4. Total' <= Total
    BY <2>2, <2>3, SumMonotonic, PartitionsFinite DEF Total
  <2>. QED BY <1>1, <2>1, <2>4 DEF WithinCredits, CreditsTyped
<1>. QED
  BY <1>2, <1>3, <1>4, TaskKeepsCredits DEF Next, ProcessStep, Terminated

(* The counter passes the limit by no more than one block of each task,    *)
(* whatever the interleaving of the tasks' checks (manager.py:105-144).    *)
THEOREM OvershootIsBounded == Spec => []OvershootBounded
<1>1. Init => WithinCredits
  <2>. SUFFICES ASSUME Init PROVE WithinCredits
    OBVIOUS
  <2>1. CreditsTyped
    BY InitTypeInv, CreditsType
  <2>2. Total = 0
    BY PartitionsFinite, SumZero DEF Init, Total
  <2>. QED BY <2>1, <2>2 DEF WithinCredits, CreditsTyped
<1>2. TypeInv /\ WithinCredits => OvershootBounded
  <2>. SUFFICES ASSUME TypeInv, WithinCredits PROVE OvershootBounded
    OBVIOUS
  <2>. DEFINE f == Credits
              g == [t \in Tasks |-> LargestBatch(t)]
  <2>1. CreditsTyped
    BY CreditsType
  <2>2. /\ f \in [Tasks -> Int] /\ g \in [Tasks -> Int] /\ IsFiniteSet(Tasks)
    BY <2>1, BatchBounds, ProducerAssumption DEF CreditsTyped
  <2>3. ASSUME NEW t \in Tasks PROVE f[t] <= g[t]
    <3>1. f[t] \in {sent[t], LargestBatch(t)}
          /\ (f[t] = sent[t] => pc[t] \in SendingPcs \/ sent[t] = LargestBatch(t))
      BY DEF Credits, Credit, Admitted, SendingPcs
    <3>. QED BY <3>1, BatchBounds
  <2>4. OvershootBounded <=> Total <= Limit + SumOver(g)
    BY DEF OvershootBounded
  <2>. HIDE DEF f, g
  <2>5. SumOver(f) <= SumOver(g) /\ SumOver(g) \in Int
    BY <2>2, <2>3, SumMonotonic, SumType
  <2>. QED BY <2>1, <2>4, <2>5 DEF WithinCredits, CreditsTyped, f
<1>. QED BY <1>1, <1>2, InitTypeInv, NextTypeInv, NextCredits, PTL DEF Spec

-----------------------------------------------------------------------------
(* The length of the topic *)

LEMMA MessagesCounted ==
    ASSUME NEW t, NEW from \in Nat, NEW to \in Nat, from <= to
    PROVE  /\ IsFiniteSet(Messages(t, from, to))
           /\ Cardinality(Messages(t, from, to)) = to - from
<1>. DEFINE S == from + 1 .. to
            M == Messages(t, from, to)
            f == [k \in S |-> <<t, block[t], k>>]
<1>1. f \in Bijection(S, M)
  <2>1. f \in [S -> M] /\ \A m \in M : \E k \in S : f[k] = m
    BY DEF Messages
  <2>2. \A j, k \in S : f[j] = f[k] => j = k
    OBVIOUS
  <2>. HIDE DEF f, S, M
  <2>. QED BY <2>1, <2>2 DEF Bijection, Injection, Surjection, IsInjective
<1>2. IsFiniteSet(S) /\ Cardinality(S) = to - from
  <2>1. from + 1 \in Int /\ to \in Int
    OBVIOUS
  <2>2. /\ IsFiniteSet(S)
        /\ Cardinality(S) = IF from + 1 > to THEN 0 ELSE to - (from + 1) + 1
    BY <2>1, FS_Interval
  <2>. HIDE DEF S
  <2>. QED BY <2>2
<1>. HIDE DEF f, S, M
<1>3. IsFiniteSet(M) /\ Cardinality(M) = Cardinality(S)
  BY <1>1, <1>2, FS_Bijection DEF ExistsBijection
<1>. QED BY <1>2, <1>3 DEF M

(* What a task has published of its current block precedes what it will    *)
(* publish next.                                                           *)
Fresh(t) ==
    \A m \in published : m[1] = t =>
        /\ pc[t] \notin {"bounds", "reading", "resume"}
        /\ m[2] <= block[t]
        /\ m[2] = block[t] =>
              \/ pc[t] \in {"advance", "finish", "done"}
              \/ pc[t] \in SendingPcs /\ m[3] <= sent[t]
              \/ pc[t] = "ack" /\ m[3] <= AppendedEnd(t)

NoDuplicatesInv ==
    /\ IsFiniteSet(published)
    /\ NoDuplicatesWithoutRestart
    /\ restarts = 0 => \A t \in Tasks : Fresh(t)

LEMMA StoreBatchIsNew ==
    ASSUME TypeInv, NoDuplicatesInv, NEW t \in Tasks,
           TaskStep(t), StoreBatch(t)
    PROVE  NoDuplicatesInv'
<1>. DEFINE n == AppendedEnd(t) - sent[t]
            M == Messages(t, sent[t], AppendedEnd(t))
<1>1. /\ sent[t] \in Nat /\ AppendedEnd(t) \in Nat /\ sent[t] <= AppendedEnd(t)
      /\ pc[t] = "send" /\ n \in Nat
  BY ChunkBounds DEF StoreBatch, SendingPcs
<1>2. IsFiniteSet(M) /\ Cardinality(M) = n
  BY <1>1, MessagesCounted
<1>3. published' = published \cup M /\ IsFiniteSet(published)
  BY DEF StoreBatch, NoDuplicatesInv
<1>4. IsFiniteSet(published')
  BY <1>2, <1>3, FS_Union
<1>5. restarts' = restarts /\ block' = block /\ sent' = sent /\ pc'[t] = "ack"
      /\ AppendedEnd(t)' = AppendedEnd(t)
  BY DEF StoreBatch, Goto, procVars, AppendedEnd, ChunkEnd, Size, SizeOf,
         TypeInv, TypeOK
<1>6. ASSUME restarts = 0 PROVE SumOver(logEnd') = Cardinality(published')
  <2>1. ASSUME NEW m \in published, m \in M PROVE FALSE
    <3>1. m[1] = t /\ m[2] = block[t] /\ m[3] \in sent[t] + 1 .. AppendedEnd(t)
      BY <2>1 DEF Messages
    <3>2. Fresh(t)
      BY <1>6 DEF NoDuplicatesInv
    <3>3. m[3] <= sent[t]
      BY <1>1, <2>1, <3>1, <3>2 DEF Fresh
    <3>. QED BY <1>1, <3>1, <3>3
  <2>2. published \cap M = {}
    BY <2>1
  <2>. HIDE DEF M, n
  <2>3. Cardinality(published') = Cardinality(published) + n
    <3>1. Cardinality(published \cup M) =
              Cardinality(published) + Cardinality(M) - Cardinality(published \cap M)
      BY <1>2, <1>3, FS_Union
    <3>2. Cardinality(published) \in Nat /\ Cardinality({}) = 0
      BY <1>3, FS_CardinalityType, FS_EmptySet
    <3>3. Cardinality(published \cap M) = 0
      BY <2>2, <3>2
    <3>4. Cardinality(published') = Cardinality(published \cup M)
      BY <1>3
    <3>. QED BY <1>1, <1>2, <3>1, <3>2, <3>3, <3>4
  <2>4. logEnd \in [Partitions -> Int] /\ part[t] \in Partitions
    BY DEF TypeInv, TypeOK
  <2>5. /\ logEnd' \in [Partitions -> Int]
        /\ logEnd'[part[t]] = logEnd[part[t]] + n
        /\ \A p \in Partitions \ {part[t]} : logEnd'[p] = logEnd[p]
    BY <1>1, <2>4 DEF StoreBatch, n
  <2>6. SumOver(logEnd') = SumOver(logEnd) + (logEnd'[part[t]] - logEnd[part[t]])
    BY <2>4, <2>5, SumChange, PartitionsFinite
  <2>7. SumOver(logEnd) \in Int /\ logEnd[part[t]] \in Int
    BY <2>4, SumType, PartitionsFinite
  <2>8. SumOver(logEnd) = Cardinality(published)
    BY <1>6 DEF NoDuplicatesInv, NoDuplicatesWithoutRestart
  <2>. QED BY <1>1, <2>3, <2>5, <2>6, <2>7, <2>8
<1>7. ASSUME restarts = 0, NEW u \in Tasks PROVE Fresh(u)'
  <2>1. Fresh(u) /\ Fresh(t)
    BY <1>7 DEF NoDuplicatesInv
  <2>2. ASSUME u = t PROVE Fresh(t)'
    <3>1. ASSUME NEW m \in published', m[1] = t
          PROVE  /\ m[2] <= block[t]
                 /\ m[2] = block[t] => m[3] <= sent[t] \/ m[3] <= AppendedEnd(t)
      <4>1. CASE m \in published
        BY <1>1, <2>1, <3>1, <4>1 DEF Fresh
      <4>2. CASE m \in M
        <5>1. m[2] = block[t] /\ m[3] <= AppendedEnd(t) /\ block[t] \in Nat
          BY <4>2 DEF Messages, TypeInv, TypeOK
        <5>. QED BY <5>1
      <4>. QED BY <1>3, <4>1, <4>2
    <3>. QED BY <1>5, <3>1 DEF Fresh, SendingPcs
  <2>3. ASSUME u # t PROVE Fresh(u)'
    <3>1. \A m \in published' : m[1] = u => m \in published
      BY <1>3, <2>3 DEF Messages
    <3>2. pc'[u] = pc[u] /\ AppendedEnd(u)' = AppendedEnd(u)
      BY <1>5, <2>3, TaskFrame DEF AppendedEnd, ChunkEnd, Size, SizeOf
    <3>. QED BY <1>5, <2>1, <3>1, <3>2 DEF Fresh
  <2>. QED BY <2>2, <2>3
<1>. QED
  BY <1>4, <1>5, <1>6, <1>7 DEF NoDuplicatesInv, NoDuplicatesWithoutRestart

LEMMA NextNoDuplicates ==
    TypeInv /\ NoDuplicatesInv /\ [Next]_vars => NoDuplicatesInv'
<1>. SUFFICES ASSUME TypeInv, NoDuplicatesInv, [Next]_vars PROVE NoDuplicatesInv'
  OBVIOUS
<1>1. ASSUME NEW t \in Tasks, TaskStep(t) \/ TaskFault(t), ~StoreBatch(t)
      PROVE  NoDuplicatesInv'
  <2>1. published' = published /\ logEnd' = logEnd /\ restarts' = restarts
    <3>1. published' = published /\ logEnd' = logEnd
      BY <1>1 DEF TaskStep, TaskFault, AcquireConnection, ConnectionBusy,
                  DecideBounds, Resume, InsertBlock, StopAtEndBlock,
                  StopAtLatestBlock, GetBlockData, GetBlockReward,
                  AdvanceBlock, GetLogs, FinishLogs, LogFilter, ReadTopicSize,
                  AdmitBatch, Stall, SpinOnEmptyTopic, ChooseNextPartition,
                  ChooseLowestScorePartition, CountBatch, SendTimesOut,
                  CallRaises, storeVars, history
    <3>. QED BY <1>1, <3>1, TaskFrame
  <2>2. ASSUME NEW u \in Tasks, u # t, Fresh(u) PROVE Fresh(u)'
    <3>1. /\ pc'[u] = pc[u] /\ block'[u] = block[u] /\ sent'[u] = sent[u]
          /\ AppendedEnd(u)' = AppendedEnd(u)
      BY <1>1, <2>2, TaskFrame DEF AppendedEnd, ChunkEnd, Size, SizeOf
    <3>. QED BY <2>1, <2>2, <3>1 DEF Fresh
  <2>3. ASSUME Fresh(t) PROVE Fresh(t)'
    <3>. SUFFICES ASSUME NEW m \in published, m[1] = t
                  PROVE  (/\ pc[t] \notin {"bounds", "reading", "resume"}
                          /\ m[2] <= block[t]
                          /\ m[2] = block[t] =>
                                \/ pc[t] \in {"advance", "finish", "done"}
                                \/ pc[t] \in SendingPcs /\ m[3] <= sent[t]
                                \/ pc[t] = "ack" /\ m[3] <= AppendedEnd(t))'
      BY <2>1 DEF Fresh
    <3>1. /\ m[2] \in Nat /\ m[3] \in Nat /\ block[t] \in Nat /\ sent[t] \in Nat
          /\ pc[t] \notin {"bounds", "reading", "resume"}
          /\ m[2] <= block[t]
          /\ m[2] = block[t] =>
                \/ pc[t] \in {"advance", "finish", "done"}
                \/ pc[t] \in SendingPcs /\ m[3] <= sent[t]
                \/ pc[t] = "ack" /\ m[3] <= AppendedEnd(t)
      BY <2>3 DEF Fresh, TypeInv, TypeOK
    <3>2. CASE CountBatch(t)
      <4>1. /\ sent[t] <= ChunkEnd(t) /\ AppendedEnd(t) <= ChunkEnd(t)
            /\ ChunkEnd(t) \in Nat /\ AppendedEnd(t) \in Nat /\ pc[t] = "ack"
        BY <3>2, ChunkBounds DEF CountBatch, SendingPcs
      <4>2. block' = block /\ sent'[t] = ChunkEnd(t)
            /\ pc'[t] \in {"chunk", "advance", "finish"}
        BY <3>2 DEF CountBatch, Goto, AfterChunk, AfterBatch, TypeInv, TypeOK
      <4>3. m[2] = block[t] => m[3] <= ChunkEnd(t)
        BY <3>1, <4>1
      <4>. QED BY <3>1, <4>1, <4>2, <4>3 DEF SendingPcs
    <3>3. CASE AdvanceBlock(t)
      BY <3>1, <3>3 DEF AdvanceBlock, Goto, Finish, TypeInv, TypeOK
    <3>4. CASE pc[t] \in {"fetch", "reward", "insert", "inserting"}
      <4>1. /\ block' = block
            /\ pc'[t] \notin {"bounds", "reading", "resume"}
        BY <1>1, <3>4
           DEF TaskStep, TaskFault, AcquireConnection, ConnectionBusy,
               DecideBounds, Resume, InsertBlock, StopAtEndBlock,
               StopAtLatestBlock, GetBlockData, AfterBlockData,
               GetBlockReward, AdvanceBlock, GetLogs, FinishLogs, LogFilter,
               ReadTopicSize, AdmitBatch, Stall, SpinOnEmptyTopic,
               ChooseNextPartition, ChooseLowestScorePartition, CountBatch,
               SendTimesOut, CallRaises, Goto, Finish, TypeInv, TypeOK
      <4>2. m[2] < block[t]
        BY <3>1, <3>4 DEF SendingPcs
      <4>. QED BY <3>1, <4>1, <4>2
    <3>5. CASE ~CountBatch(t) /\ ~AdvanceBlock(t)
               /\ pc[t] \notin {"fetch", "reward", "insert", "inserting"}
      <4>1. block' = block /\ sent' = sent
        BY <1>1, <3>1, <3>5
           DEF TaskStep, TaskFault, AcquireConnection, ConnectionBusy,
               DecideBounds, Resume, InsertBlock, StopAtEndBlock,
               StopAtLatestBlock, GetBlockData, GetBlockReward, GetLogs,
               FinishLogs, LogFilter, ReadTopicSize, AdmitBatch, Stall,
               SpinOnEmptyTopic, ChooseNextPartition,
               ChooseLowestScorePartition, SendTimesOut, CallRaises
      <4>2. \/ pc'[t] \in {"advance", "finish", "done"}
            \/ pc[t] \in SendingPcs \ {"ack"} /\ pc'[t] \in SendingPcs
        BY <1>1, <3>1, <3>5
           DEF TaskStep, TaskFault, AcquireConnection, ConnectionBusy,
               DecideBounds, Resume, InsertBlock, StopAtEndBlock,
               StopAtLatestBlock, GetBlockData, GetBlockReward, GetLogs,
               FinishLogs, LogFilter, ReadTopicSize, AdmitBatch, Stall,
               SpinOnEmptyTopic, ChooseNextPartition,
               ChooseLowestScorePartition, SendTimesOut, AfterTimeout,
               AfterBatch, CallRaises, Goto, Finish, SendingPcs, TypeInv,
               TypeOK
      <4>. QED BY <3>1, <4>1, <4>2 DEF SendingPcs
    <3>. QED BY <3>2, <3>3, <3>4, <3>5
  <2>. QED
    BY <2>1, <2>2, <2>3 DEF NoDuplicatesInv, NoDuplicatesWithoutRestart
<1>2. CASE Exit \/ Crash
  BY <1>2 DEF Exit, Crash, taskVars, storeVars, history, NoDuplicatesInv,
              NoDuplicatesWithoutRestart, Fresh, AppendedEnd, ChunkEnd, Size,
              SizeOf
<1>3. CASE Restart
  <2>1. restarts' # 0
    BY <1>3 DEF Restart, TypeInv, TypeOK
  <2>. QED
    BY <1>3, <2>1 DEF Restart, history, NoDuplicatesInv,
                      NoDuplicatesWithoutRestart
<1>4. ASSUME NEW q \in Partitions, ConsumerDecrements(q) PROVE NoDuplicatesInv'
  BY <1>4 DEF ConsumerDecrements, taskVars, procVars, history, NoDuplicatesInv,
              NoDuplicatesWithoutRestart, Fresh, AppendedEnd, ChunkEnd, Size,
              SizeOf
<1>5. CASE UNCHANGED vars
  BY <1>5 DEF vars, taskVars, procVars, storeVars, history, NoDuplicatesInv,
              NoDuplicatesWithoutRestart, Fresh, AppendedEnd, ChunkEnd, Size,
              SizeOf
<1>6. ASSUME NEW t \in Tasks, TaskStep(t) \/ TaskFault(t), StoreBatch(t)
      PROVE  NoDuplicatesInv'
  <2>1. TaskStep(t)
    BY <1>6 DEF TaskStep, TaskFault
  <2>. QED BY <1>6, <2>1, StoreBatchIsNew
<1>. QED
  BY <1>1, <1>2, <1>3, <1>4, <1>5, <1>6 DEF Next, ProcessStep, Terminated

(* Until a restart the topic holds every message once: its partitions are  *)
(* as long, together, as the number of distinct messages in them           *)
(* (manager.py:263-270).                                                   *)
THEOREM NothingIsDuplicated == Spec => []NoDuplicatesWithoutRestart
<1>1. Init => NoDuplicatesInv
  <2>. SUFFICES ASSUME Init PROVE NoDuplicatesInv
    OBVIOUS
  <2>1. SumOver(logEnd) = 0
    BY PartitionsFinite, SumZero DEF Init
  <2>. QED
    BY <2>1, FS_EmptySet DEF Init, NoDuplicatesInv, NoDuplicatesWithoutRestart,
                             Fresh
<1>2. NoDuplicatesInv => NoDuplicatesWithoutRestart
  BY DEF NoDuplicatesInv
<1>. QED BY <1>1, <1>2, InitTypeInv, NextTypeInv, NextNoDuplicates, PTL DEF Spec
==============================================================================
