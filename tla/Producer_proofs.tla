-------------------------- MODULE Producer_proofs --------------------------
(* Theorems about module Producer, for every value of its constants: the   *)
(* types, what its tasks have sent when they move on, finish and exit,     *)
(* which rows and failures they leave, and that it implements BlockFeed.   *)
EXTENDS Producer, TLAPS

BlockPcs == {"bounds", "reading", "resume", "reward", "insert", "inserting",
             "advance"}
LoadedPcs == {"reward", "insert", "inserting", "limit", "decide", "chunk",
              "send", "ack", "advance"}
SendingPcs == {"limit", "decide", "chunk", "send", "ack"}

WellPlaced(t) ==
    /\ pc[t] \in BlockPcs => Mode[t] \in BlockModes
    /\ pc[t] = "finish" => Mode[t] = "get_logs"
    /\ pc[t] \in SendingPcs => Mode[t] # "log_filter"
    /\ pc[t] \in LoadedPcs /\ Mode[t] # "get_logs" => block[t] <= LatestBlock
    /\ Mode[t] = "get_logs" => block[t] = 0 /\ first[t] = 0
    /\ pc[t] \in {"bounds", "reading"} => block[t] = 0
    /\ Mode[t] = "get_logs" /\ pc[t] = "fetch" => sent[t] = 0
    /\ pc[t] \in SendingPcs => sent[t] <= Size(t)

TypeInv == TypeOK /\ \A t \in Tasks : WellPlaced(t)

LEMMA SizeInNat ==
    ASSUME TypeInv, NEW t \in Tasks, pc[t] \in LoadedPcs
    PROVE  Size(t) \in Nat
  BY ProducerAssumption
     DEF TypeInv, TypeOK, WellPlaced, LoadedPcs, Size, SizeOf

LEMMA ChunkBounds ==
    ASSUME TypeInv, NEW t \in Tasks, pc[t] \in SendingPcs
    PROVE  /\ sent[t] \in Nat /\ Size(t) \in Nat
           /\ AppendedEnd(t) \in Nat /\ ChunkEnd(t) \in Nat
           /\ sent[t] <= AppendedEnd(t)
           /\ AppendedEnd(t) <= ChunkEnd(t)
           /\ ChunkEnd(t) <= Size(t)
           /\ sent[t] < Size(t) => sent[t] < ChunkEnd(t)
  <1>1. Size(t) \in Nat /\ sent[t] \in Nat /\ sent[t] <= Size(t)
    BY SizeInNat DEF TypeInv, TypeOK, WellPlaced, LoadedPcs, SendingPcs
  <1>2. MessagesPerBatch \in Nat \ {0} /\ BatchCapacity \in Nat \ {0}
    BY ProducerAssumption
  <1>. QED BY <1>1, <1>2 DEF AppendedEnd, ChunkEnd, Lesser

LEMMA InitTypeInv == Init => TypeInv
  BY ProducerAssumption
     DEF Init, InitTasks, TypeInv, TypeOK, WellPlaced, StartPc, Running,
         LowestScoreMode, BlockPcs, LoadedPcs, SendingPcs, BlockModes, Modes,
         Partitions


LEMMA MessagesTyped ==
    ASSUME TypeInv, NEW t \in Tasks, NEW from \in Nat, NEW to \in Nat
    PROVE  Messages(t, from, to) \subseteq Tasks \X Nat \X Nat
  BY DEF TypeInv, TypeOK, Messages

LEMMA PartitionFacts ==
    ASSUME TypeOK
    PROVE  /\ 0 \in Partitions
           /\ LowestScorePartitions \subseteq Partitions
           /\ iPartition # LowestScoreMode =>
                 /\ iPartition \in Partitions
                 /\ iPartition + 1 # NPartitions => iPartition + 1 \in Partitions
  <1>1. NPartitions \in Nat \ {0}
    BY ProducerAssumption
  <1>2. 0 \in Partitions
    BY <1>1 DEF Partitions
  <1>3. LowestScorePartitions \subseteq Partitions
    BY <1>2 DEF LowestScorePartitions, TypeOK
  <1>4. ASSUME iPartition # LowestScoreMode
        PROVE  /\ iPartition \in Partitions
               /\ iPartition + 1 # NPartitions => iPartition + 1 \in Partitions
    <2>1. iPartition \in Partitions
      BY <1>4 DEF TypeOK
    <2>. QED BY <1>1, <2>1 DEF Partitions
  <1>. QED BY <1>2, <1>3, <1>4

(* Every step keeps the types, and every task in a place its mode allows.  *)
LEMMA NextTypeInv == TypeInv /\ [Next]_vars => TypeInv'
<1>. SUFFICES ASSUME TypeInv, [Next]_vars PROVE TypeInv'
  OBVIOUS
<1>. USE DEF TypeInv, BlockPcs, LoadedPcs, SendingPcs, BlockModes
<1>1. ASSUME NEW t \in Tasks, AcquireConnection(t) PROVE TypeInv'
  <2>1. TypeOK'
    BY <1>1 DEF AcquireConnection, Goto, Finish, TypeOK, procVars, storeVars,
                history
  <2>2. ASSUME NEW u \in Tasks PROVE WellPlaced(u)'
    BY <1>1 DEF AcquireConnection, Goto, Finish, TypeOK, WellPlaced, Size,
                SizeOf, procVars, storeVars, history
  <2>. QED BY <2>1, <2>2
<1>2. ASSUME NEW t \in Tasks, ConnectionBusy(t) PROVE TypeInv'
  <2>1. TypeOK'
    BY <1>2 DEF ConnectionBusy, Goto, Finish, TypeOK, procVars, storeVars,
                history
  <2>2. ASSUME NEW u \in Tasks PROVE WellPlaced(u)'
    BY <1>2 DEF ConnectionBusy, Goto, Finish, TypeOK, WellPlaced, Size, SizeOf,
                procVars, storeVars, history
  <2>. QED BY <2>1, <2>2
<1>3. ASSUME NEW t \in Tasks, Resume(t) PROVE TypeInv'
  <2>1. TypeOK'
    BY <1>3 DEF Resume, Goto, Finish, TypeOK, procVars, storeVars, history
  <2>2. ASSUME NEW u \in Tasks PROVE WellPlaced(u)'
    BY <1>3 DEF Resume, Goto, Finish, TypeOK, WellPlaced, Size, SizeOf,
                procVars, storeVars, history
  <2>. QED BY <2>1, <2>2
<1>4. ASSUME NEW t \in Tasks, StopAtEndBlock(t) PROVE TypeInv'
  <2>1. TypeOK'
    BY <1>4 DEF StopAtEndBlock, Goto, Finish, TypeOK, procVars, storeVars,
                history
  <2>2. ASSUME NEW u \in Tasks PROVE WellPlaced(u)'
    BY <1>4 DEF StopAtEndBlock, Goto, Finish, TypeOK, WellPlaced, Size, SizeOf,
                procVars, storeVars, history
  <2>. QED BY <2>1, <2>2
<1>5. ASSUME NEW t \in Tasks, StopAtLatestBlock(t) PROVE TypeInv'
  <2>1. TypeOK'
    BY <1>5 DEF StopAtLatestBlock, Goto, Finish, TypeOK, procVars, storeVars,
                history
  <2>2. ASSUME NEW u \in Tasks PROVE WellPlaced(u)'
    BY <1>5 DEF StopAtLatestBlock, Goto, Finish, TypeOK, WellPlaced, Size,
                SizeOf, procVars, storeVars, history
  <2>. QED BY <2>1, <2>2
<1>6. ASSUME NEW t \in Tasks, GetBlockData(t) PROVE TypeInv'
  <2>1. TypeOK'
    BY <1>6 DEF GetBlockData, AfterBlockData, Goto, Finish, TypeOK, procVars,
                storeVars, history
  <2>2. ASSUME NEW u \in Tasks PROVE WellPlaced(u)'
    BY <1>6 DEF GetBlockData, AfterBlockData, Goto, Finish, TypeOK, WellPlaced,
                Size, SizeOf, procVars, storeVars, history
  <2>. QED BY <2>1, <2>2
<1>7. ASSUME NEW t \in Tasks, GetBlockReward(t) PROVE TypeInv'
  <2>1. TypeOK'
    BY <1>7 DEF GetBlockReward, Goto, Finish, TypeOK, procVars, storeVars,
                history
  <2>2. ASSUME NEW u \in Tasks PROVE WellPlaced(u)'
    BY <1>7 DEF GetBlockReward, Goto, Finish, TypeOK, WellPlaced, Size, SizeOf,
                procVars, storeVars, history
  <2>. QED BY <2>1, <2>2
<1>8. ASSUME NEW t \in Tasks, AdvanceBlock(t) PROVE TypeInv'
  <2>1. TypeOK'
    BY <1>8 DEF AdvanceBlock, Goto, Finish, TypeOK, procVars, storeVars,
                history
  <2>2. ASSUME NEW u \in Tasks PROVE WellPlaced(u)'
    BY <1>8 DEF AdvanceBlock, Goto, Finish, TypeOK, WellPlaced, Size, SizeOf,
                procVars, storeVars, history
  <2>. QED BY <2>1, <2>2
<1>9. ASSUME NEW t \in Tasks, FinishLogs(t) PROVE TypeInv'
  <2>1. TypeOK'
    BY <1>9 DEF FinishLogs, Goto, Finish, TypeOK, procVars, storeVars, history
  <2>2. ASSUME NEW u \in Tasks PROVE WellPlaced(u)'
    BY <1>9 DEF FinishLogs, Goto, Finish, TypeOK, WellPlaced, Size, SizeOf,
                procVars, storeVars, history
  <2>. QED BY <2>1, <2>2
<1>10. ASSUME NEW t \in Tasks, LogFilter(t) PROVE TypeInv'
  <2>1. TypeOK'
    BY <1>10 DEF LogFilter, Goto, Finish, TypeOK, procVars, storeVars, history
  <2>2. ASSUME NEW u \in Tasks PROVE WellPlaced(u)'
    BY <1>10 DEF LogFilter, Goto, Finish, TypeOK, WellPlaced, Size, SizeOf,
                 procVars, storeVars, history
  <2>. QED BY <2>1, <2>2
<1>11. ASSUME NEW t \in Tasks, AdmitBatch(t) PROVE TypeInv'
  <2>1. TypeOK'
    BY <1>11 DEF AdmitBatch, HasSpace, Goto, Finish, TypeOK, procVars,
                 storeVars, history
  <2>2. ASSUME NEW u \in Tasks PROVE WellPlaced(u)'
    BY <1>11 DEF AdmitBatch, HasSpace, Goto, Finish, TypeOK, WellPlaced, Size,
                 SizeOf, procVars, storeVars, history
  <2>. QED BY <2>1, <2>2
<1>12. ASSUME NEW t \in Tasks, Stall(t) PROVE TypeInv'
  <2>1. TypeOK'
    BY <1>12 DEF Stall, Goto, Finish, TypeOK, procVars, storeVars, history
  <2>2. ASSUME NEW u \in Tasks PROVE WellPlaced(u)'
    BY <1>12 DEF Stall, Goto, Finish, TypeOK, WellPlaced, Size, SizeOf,
                 procVars, storeVars, history
  <2>. QED BY <2>1, <2>2
<1>13. ASSUME NEW t \in Tasks, SpinOnEmptyTopic(t) PROVE TypeInv'
  <2>1. TypeOK'
    BY <1>13 DEF SpinOnEmptyTopic, Goto, Finish, TypeOK, procVars, storeVars,
                 history
  <2>2. ASSUME NEW u \in Tasks PROVE WellPlaced(u)'
    BY <1>13 DEF SpinOnEmptyTopic, Goto, Finish, TypeOK, WellPlaced, Size,
                 SizeOf, procVars, storeVars, history
  <2>. QED BY <2>1, <2>2
<1>14. ASSUME NEW t \in Tasks, CallRaises(t) PROVE TypeInv'
  <2>1. TypeOK'
    BY <1>14 DEF CallRaises, Released, Goto, Finish, TypeOK, procVars,
                 storeVars, history
  <2>2. ASSUME NEW u \in Tasks PROVE WellPlaced(u)'
    BY <1>14 DEF CallRaises, Released, Goto, Finish, TypeOK, WellPlaced, Size,
                 SizeOf, procVars, storeVars, history
  <2>. QED BY <2>1, <2>2
<1>15. ASSUME NEW t \in Tasks, DecideBounds(t) PROVE TypeInv'
  <2>1. PICK b \in Nat :
            /\ (first' = [first EXCEPT ![t] = b] \/ first' = first)
            /\ (block' = [block EXCEPT ![t] = b] \/ block' = block)
    BY <1>15, ProducerAssumption DEF DecideBounds, FirstBlock, Released
  <2>2. TypeOK'
    BY <1>15, <2>1 DEF DecideBounds, Released, Goto, TypeOK, storeVars, history
  <2>3. Mode[t] \in BlockModes
    BY <1>15 DEF DecideBounds, Released, WellPlaced
  <2>4. ASSUME NEW u \in Tasks PROVE WellPlaced(u)'
    <3>1. CASE u = t
      BY <1>15, <2>1, <2>3, <3>1 DEF DecideBounds, Released, Goto, TypeOK,
                                     WellPlaced
    <3>2. CASE u # t
      BY <1>15, <2>1, <3>2 DEF DecideBounds, Released, Goto, TypeOK,
                               WellPlaced, Size, SizeOf
    <3>. QED BY <3>1, <3>2
  <2>. QED BY <2>2, <2>4
<1>16. ASSUME NEW t \in Tasks, InsertBlock(t) PROVE TypeInv'
  <2>1. TypeOK'
    BY <1>16 DEF InsertBlock, Released, Goto, TypeOK, history
  <2>2. Size(t) \in Nat
    BY <1>16, SizeInNat DEF InsertBlock, Released
  <2>3. ASSUME NEW u \in Tasks PROVE WellPlaced(u)'
    <3>1. CASE u = t
      BY <1>16, <2>2, <3>1 DEF InsertBlock, Released, Goto, TypeOK, WellPlaced,
                               Size, SizeOf
    <3>2. CASE u # t
      BY <1>16, <3>2 DEF InsertBlock, Released, Goto, TypeOK, WellPlaced, Size,
                         SizeOf
    <3>. QED BY <3>1, <3>2
  <2>. QED BY <2>1, <2>3
<1>17. ASSUME NEW t \in Tasks, GetLogs(t) PROVE TypeInv'
  <2>1. TypeOK'
    BY <1>17 DEF GetLogs, Goto, TypeOK, procVars, storeVars, history
  <2>2. LogCount[t] \in Nat
    BY ProducerAssumption
  <2>3. ASSUME NEW u \in Tasks PROVE WellPlaced(u)'
    BY <1>17, <2>2 DEF GetLogs, Goto, TypeOK, WellPlaced, Size, SizeOf
  <2>. QED BY <2>1, <2>3
<1>18. ASSUME NEW t \in Tasks, ReadTopicSize(t) PROVE TypeInv'
  <2>1. Verdict \in {"empty", "full", "room"}
    BY DEF Verdict
  <2>2. TypeOK'
    BY <1>18, <2>1 DEF ReadTopicSize, Goto, TypeOK, procVars, storeVars,
                       history
  <2>3. ASSUME NEW u \in Tasks PROVE WellPlaced(u)'
    BY <1>18 DEF ReadTopicSize, Goto, TypeOK, WellPlaced, Size, SizeOf
  <2>. QED BY <2>2, <2>3
<1>19. ASSUME NEW t \in Tasks, ChooseNextPartition(t) PROVE TypeInv'
  <2>1. /\ pc[t] \in SendingPcs
        /\ \E p \in Partitions : part' = [part EXCEPT ![t] = p]
        /\ iPartition' \in Partitions \cup {LowestScoreMode}
    BY <1>19, PartitionFacts DEF ChooseNextPartition, NextPartition, TypeOK,
                                 procVars
  <2>2. Messages(t, AppendedEnd(t), ChunkEnd(t)) \subseteq Tasks \X Nat \X Nat
    BY <2>1, ChunkBounds, MessagesTyped
  <2>3. TypeOK'
    BY <1>19, <2>1, <2>2
       DEF ChooseNextPartition, NextPartition, LogOverflow, Goto, TypeOK,
           procVars, storeVars
  <2>4. ASSUME NEW u \in Tasks PROVE WellPlaced(u)'
    BY <1>19 DEF ChooseNextPartition, NextPartition, Goto, TypeOK, WellPlaced,
                 Size, SizeOf
  <2>. QED BY <2>3, <2>4
<1>20. ASSUME NEW t \in Tasks, ChooseLowestScorePartition(t) PROVE TypeInv'
  <2>1. /\ pc[t] \in SendingPcs
        /\ \E p \in Partitions : part' = [part EXCEPT ![t] = p]
        /\ iPartition' \in Partitions \cup {LowestScoreMode}
    BY <1>20, PartitionFacts DEF ChooseLowestScorePartition, TypeOK, procVars
  <2>2. Messages(t, AppendedEnd(t), ChunkEnd(t)) \subseteq Tasks \X Nat \X Nat
    BY <2>1, ChunkBounds, MessagesTyped
  <2>3. TypeOK'
    BY <1>20, <2>1, <2>2
       DEF ChooseLowestScorePartition, LogOverflow, Goto, TypeOK, procVars,
           storeVars
  <2>4. ASSUME NEW u \in Tasks PROVE WellPlaced(u)'
    BY <1>20 DEF ChooseLowestScorePartition, Goto, TypeOK, WellPlaced, Size,
                 SizeOf
  <2>. QED BY <2>3, <2>4
<1>21. ASSUME NEW t \in Tasks, StoreBatch(t) PROVE TypeInv'
  <2>1. pc[t] \in SendingPcs
    BY <1>21 DEF StoreBatch
  <2>2. /\ Messages(t, sent[t], AppendedEnd(t)) \subseteq Tasks \X Nat \X Nat
        /\ AppendedEnd(t) - sent[t] \in Nat
    BY <2>1, ChunkBounds, MessagesTyped
  <2>3. TypeOK'
    BY <1>21, <2>2 DEF StoreBatch, Goto, TypeOK, procVars
  <2>4. ASSUME NEW u \in Tasks PROVE WellPlaced(u)'
    BY <1>21 DEF StoreBatch, Goto, TypeOK, WellPlaced, Size, SizeOf
  <2>. QED BY <2>3, <2>4
<1>22. ASSUME NEW t \in Tasks, CountBatch(t) PROVE TypeInv'
  <2>1. pc[t] \in SendingPcs
    BY <1>22 DEF CountBatch, AfterChunk, Appended
  <2>2. /\ ChunkEnd(t) \in Nat /\ ChunkEnd(t) <= Size(t)
        /\ AppendedEnd(t) - sent[t] \in Int
        /\ AfterBatch(t) \in {"finish", "advance"}
    BY <2>1, ChunkBounds DEF AfterBatch
  <2>3. TypeOK'
    BY <1>22, <2>2 DEF CountBatch, AfterChunk, Appended, Goto, TypeOK,
                       procVars, history
  <2>4. Mode[t] \in BlockModes \cup {"get_logs"}
    BY <2>1, ProducerAssumption DEF WellPlaced, Modes
  <2>5. ASSUME NEW u \in Tasks PROVE WellPlaced(u)'
    <3>1. CASE u = t
      BY <1>22, <2>1, <2>2, <2>4, <3>1
         DEF CountBatch, AfterChunk, Appended, Goto, TypeOK, WellPlaced, Size,
             SizeOf, AfterBatch
    <3>2. CASE u # t
      BY <1>22, <3>2 DEF CountBatch, AfterChunk, Appended, Goto, TypeOK,
                         WellPlaced, Size, SizeOf
    <3>. QED BY <3>1, <3>2
  <2>. QED BY <2>3, <2>5
<1>23. ASSUME NEW t \in Tasks, SendTimesOut(t) PROVE TypeInv'
  <2>1. pc[t] \in SendingPcs
    BY <1>23 DEF SendTimesOut, AfterTimeout
  <2>2. /\ Messages(t, sent[t], Size(t)) \subseteq Tasks \X Nat \X Nat
        /\ AfterBatch(t) \in {"finish", "advance"}
    BY <2>1, ChunkBounds, MessagesTyped DEF AfterBatch
  <2>3. TypeOK'
    BY <1>23, <2>2 DEF SendTimesOut, AfterTimeout, Goto, TypeOK, procVars,
                       storeVars
  <2>4. Mode[t] \in BlockModes \cup {"get_logs"}
    BY <2>1, ProducerAssumption DEF WellPlaced, Modes
  <2>5. ASSUME NEW u \in Tasks PROVE WellPlaced(u)'
    BY <1>23, <2>1, <2>4
       DEF SendTimesOut, AfterTimeout, Goto, TypeOK, WellPlaced, Size, SizeOf,
           AfterBatch
  <2>. QED BY <2>3, <2>5
<1>24. CASE Exit
  BY <1>24 DEF Exit, ExitStatus, taskVars, storeVars, history, Running, TypeOK,
               WellPlaced,
               Size, SizeOf
<1>25. CASE Crash
  BY <1>25 DEF Crash, taskVars, storeVars, history, Running, TypeOK,
               WellPlaced, Size, SizeOf
<1>26. CASE Restart
  <2>1. TypeOK'
    <3>1. restarts' \in 0 .. MaxRestarts
      BY <1>26, ProducerAssumption DEF Restart, TypeOK
    <3>2. 0 \in Partitions
      BY PartitionFacts
    <3>. QED
      BY <1>26, <3>1, <3>2 DEF Restart, TypeOK, StartPc, Running, storeVars,
                               history
  <2>2. ASSUME NEW u \in Tasks PROVE WellPlaced(u)'
    BY <1>26 DEF Restart, WellPlaced, StartPc
  <2>. QED BY <2>1, <2>2
<1>27. ASSUME NEW p \in Partitions, ConsumerDecrements(p) PROVE TypeInv'
  BY <1>27 DEF ConsumerDecrements, TypeOK, WellPlaced, Size, SizeOf, taskVars,
               procVars, history
<1>28. CASE UNCHANGED vars
  BY <1>28 DEF vars, TypeOK, WellPlaced, Size, SizeOf, taskVars, procVars,
               storeVars, history
<1>. QED
  BY <1>1, <1>2, <1>3, <1>4, <1>5, <1>6, <1>7, <1>8, <1>9, <1>10,
     <1>11, <1>12, <1>13, <1>14, <1>15, <1>16, <1>17, <1>18, <1>19,
     <1>20, <1>21, <1>22, <1>23, <1>24, <1>25, <1>26, <1>27, <1>28
  DEF Next, TaskStep, TaskFault, ProcessStep, Terminated

THEOREM TypeCorrect == Spec => []TypeOK
<1>1. TypeInv => TypeOK
  BY DEF TypeInv
<1>. QED BY InitTypeInv, NextTypeInv, <1>1, PTL DEF Spec

-----------------------------------------------------------------------------
(* Frames *)

(* A step of a task changes nothing of the other tasks, and no store or    *)
(* history forgets anything.                                               *)
LEMMA TaskFrame ==
    ASSUME TypeInv, NEW t \in Tasks, TaskStep(t) \/ TaskFault(t)
    PROVE  /\ exitCode = Running /\ exitCode' = exitCode /\ restarts' = restarts
           /\ published \subseteq published' /\ givenUp \subseteq givenUp'
           /\ blocks \subseteq blocks'
           /\ \A u \in Tasks : u # t =>
                 /\ pc'[u] = pc[u] /\ outcome'[u] = outcome[u]
                 /\ first'[u] = first[u] /\ block'[u] = block[u]
                 /\ sent'[u] = sent[u] /\ part'[u] = part[u]
  BY DEF TypeInv, TypeOK, TaskStep, TaskFault, AcquireConnection,
         ConnectionBusy, DecideBounds, Released, Resume, InsertBlock,
         StopAtEndBlock, StopAtLatestBlock, GetBlockData, AfterBlockData,
         GetBlockReward, AdvanceBlock, GetLogs, FinishLogs, LogFilter,
         ReadTopicSize, AdmitBatch, HasSpace, Stall, SpinOnEmptyTopic,
         ChooseNextPartition, NextPartition, ChooseLowestScorePartition,
         StoreBatch, CountBatch, AfterChunk, Appended, SendTimesOut,
         AfterTimeout, CallRaises, Goto, Finish, LogOverflow, procVars,
         storeVars, history

-----------------------------------------------------------------------------
(* The connection.  Who uses it is where its query says: the bookkeeping   *)
(* the theorems on contention rest on, no claim of its own.                *)

ConnectionExclusive ==
    exitCode = Running =>
        \A t \in Tasks : dbUser = t <=> pc[t] \in {"reading", "inserting"}

LEMMA NextConnectionExclusive ==
    TypeInv /\ ConnectionExclusive /\ [Next]_vars => ConnectionExclusive'
<1>. SUFFICES ASSUME TypeInv, ConnectionExclusive, [Next]_vars
              PROVE  ConnectionExclusive'
  OBVIOUS
<1>. USE DEF TypeInv, TypeOK, ConnectionExclusive
<1>0. NoTask \notin Tasks
  BY ProducerAssumption
<1>1. ASSUME NEW t \in Tasks, exitCode = Running, AcquireConnection(t)
      PROVE  ConnectionExclusive'
  BY <1>0, <1>1 DEF AcquireConnection, Goto, procVars
<1>2. ASSUME NEW t \in Tasks, exitCode = Running, ConnectionBusy(t)
      PROVE  ConnectionExclusive'
  BY <1>0, <1>2 DEF ConnectionBusy, Finish, procVars
<1>3. ASSUME NEW t \in Tasks, exitCode = Running, DecideBounds(t)
      PROVE  ConnectionExclusive'
  BY <1>0, <1>3 DEF DecideBounds, Released, Goto, procVars
<1>4. ASSUME NEW t \in Tasks, exitCode = Running, Resume(t)
      PROVE  ConnectionExclusive'
  BY <1>0, <1>4 DEF Resume, Finish, procVars
<1>5. ASSUME NEW t \in Tasks, exitCode = Running, InsertBlock(t)
      PROVE  ConnectionExclusive'
  BY <1>0, <1>5 DEF InsertBlock, Released, Goto, procVars
<1>6. ASSUME NEW t \in Tasks, exitCode = Running, StopAtEndBlock(t)
      PROVE  ConnectionExclusive'
  BY <1>0, <1>6 DEF StopAtEndBlock, Finish, procVars
<1>7. ASSUME NEW t \in Tasks, exitCode = Running, StopAtLatestBlock(t)
      PROVE  ConnectionExclusive'
  BY <1>0, <1>7 DEF StopAtLatestBlock, Finish, procVars
<1>8. ASSUME NEW t \in Tasks, exitCode = Running, GetBlockData(t)
      PROVE  ConnectionExclusive'
  BY <1>0, <1>8 DEF GetBlockData, AfterBlockData, Goto, procVars
<1>9. ASSUME NEW t \in Tasks, exitCode = Running, GetBlockReward(t)
      PROVE  ConnectionExclusive'
  BY <1>0, <1>9 DEF GetBlockReward, Goto, procVars
<1>10. ASSUME NEW t \in Tasks, exitCode = Running, AdvanceBlock(t)
      PROVE  ConnectionExclusive'
  BY <1>0, <1>10 DEF AdvanceBlock, Goto, Finish, procVars
<1>11. ASSUME NEW t \in Tasks, exitCode = Running, GetLogs(t)
      PROVE  ConnectionExclusive'
  BY <1>0, <1>11 DEF GetLogs, Goto, procVars
<1>12. ASSUME NEW t \in Tasks, exitCode = Running, FinishLogs(t)
      PROVE  ConnectionExclusive'
  BY <1>0, <1>12 DEF FinishLogs, Finish, procVars
<1>13. ASSUME NEW t \in Tasks, exitCode = Running, LogFilter(t)
      PROVE  ConnectionExclusive'
  BY <1>0, <1>13 DEF LogFilter, Finish, procVars
<1>14. ASSUME NEW t \in Tasks, exitCode = Running, ReadTopicSize(t)
      PROVE  ConnectionExclusive'
  BY <1>0, <1>14 DEF ReadTopicSize, Goto, procVars
<1>15. ASSUME NEW t \in Tasks, exitCode = Running, AdmitBatch(t)
      PROVE  ConnectionExclusive'
  BY <1>0, <1>15 DEF AdmitBatch, HasSpace, Goto, procVars
<1>16. ASSUME NEW t \in Tasks, exitCode = Running, Stall(t)
      PROVE  ConnectionExclusive'
  BY <1>0, <1>16 DEF Stall, Goto, procVars
<1>17. ASSUME NEW t \in Tasks, exitCode = Running, SpinOnEmptyTopic(t)
      PROVE  ConnectionExclusive'
  BY <1>0, <1>17 DEF SpinOnEmptyTopic, Goto, procVars
<1>18. ASSUME NEW t \in Tasks, exitCode = Running, ChooseNextPartition(t)
      PROVE  ConnectionExclusive'
  BY <1>0, <1>18 DEF ChooseNextPartition, NextPartition, Goto, procVars
<1>19. ASSUME NEW t \in Tasks, exitCode = Running, ChooseLowestScorePartition(t)
      PROVE  ConnectionExclusive'
  BY <1>0, <1>19 DEF ChooseLowestScorePartition, Goto, procVars
<1>20. ASSUME NEW t \in Tasks, exitCode = Running, StoreBatch(t)
      PROVE  ConnectionExclusive'
  BY <1>0, <1>20 DEF StoreBatch, Goto, procVars
<1>21. ASSUME NEW t \in Tasks, exitCode = Running, CountBatch(t)
      PROVE  ConnectionExclusive'
  BY <1>0, <1>21 DEF CountBatch, AfterChunk, Appended, Goto, AfterBatch,
                     procVars
<1>22. ASSUME NEW t \in Tasks, exitCode = Running, SendTimesOut(t)
      PROVE  ConnectionExclusive'
  BY <1>0, <1>22 DEF SendTimesOut, AfterTimeout, Goto, AfterBatch, procVars
<1>23. ASSUME NEW t \in Tasks, exitCode = Running, CallRaises(t)
      PROVE  ConnectionExclusive'
  BY <1>0, <1>23 DEF CallRaises, Released, Finish, procVars
<1>24. CASE Exit
  BY <1>0, <1>24 DEF Exit, ExitStatus, Running
<1>25. CASE Crash
  BY <1>0, <1>25 DEF Crash, Running
<1>26. CASE Restart
  BY <1>0, <1>26 DEF Restart, StartPc
<1>27. ASSUME NEW p \in Partitions, ConsumerDecrements(p)
      PROVE  ConnectionExclusive'
  BY <1>27 DEF ConsumerDecrements, taskVars, procVars
<1>28. CASE UNCHANGED vars
  BY <1>28 DEF vars, taskVars, procVars
<1>. QED
  BY <1>0, <1>1, <1>2, <1>3, <1>4, <1>5, <1>6, <1>7, <1>8, <1>9, <1>10, <1>11,
     <1>12, <1>13, <1>14, <1>15, <1>16, <1>17, <1>18, <1>19, <1>20, <1>21,
     <1>22, <1>23, <1>24, <1>25, <1>26, <1>27, <1>28
  DEF Next, TaskStep, TaskFault, ProcessStep, Terminated

-----------------------------------------------------------------------------
(* What has been sent.  NothingSkipped is not inductive by itself: at the  *)
(* end of a block it takes what the chunks before have sent (sent[t]), and *)
(* what became of the chunk at hand.                                       *)

Safe == published \cup givenUp

Progress(t) ==
    /\ \A b \in first[t] .. block[t] - 1 : Accounted(t, b)
    /\ pc[t] \in SendingPcs => \A k \in 1 .. sent[t] : <<t, block[t], k>> \in Safe
    /\ pc[t] \in {"send", "ack"} =>
          \A k \in AppendedEnd(t) + 1 .. ChunkEnd(t) : <<t, block[t], k>> \in Safe
    /\ pc[t] = "ack" =>
          \A k \in sent[t] + 1 .. AppendedEnd(t) : <<t, block[t], k>> \in Safe
    /\ pc[t] \in {"advance", "finish"} => Accounted(t, block[t])
    /\ outcome[t] = "ok" => \A b \in Workload(t) : Accounted(t, b)
    /\ outcome[t] = "running" <=> pc[t] # "done"

SafetyInv ==
    /\ TypeInv
    /\ \A t \in Tasks : Progress(t)
    /\ exitCode = 0 => \A t \in Tasks : outcome[t] = "ok"

LEMMA ProgressFrame ==
    ASSUME NEW u \in Tasks, Progress(u),
           published \subseteq published', givenUp \subseteq givenUp',
           pc'[u] = pc[u], outcome'[u] = outcome[u], first'[u] = first[u],
           block'[u] = block[u], sent'[u] = sent[u]
    PROVE  Progress(u)'
  BY DEF Progress, Safe, Accounted, SizeOf, AppendedEnd, ChunkEnd, Size,
         Lesser, Workload, BlocksFrom, LastBlock

LEMMA InitSafetyInv == Init => SafetyInv
<1>. SUFFICES ASSUME Init PROVE SafetyInv
  OBVIOUS
<1>1. TypeInv
  BY InitTypeInv
<1>2. ASSUME NEW t \in Tasks PROVE Progress(t)
  BY DEF Init, InitTasks, StartPc, Progress, SendingPcs, Accounted
<1>. QED BY <1>1, <1>2 DEF Init, SafetyInv, Running

LEMMA NextProgress ==
    ASSUME SafetyInv, NEW t \in Tasks, TaskStep(t) \/ TaskFault(t)
    PROVE  Progress(t)'
<1>. USE DEF SafetyInv, TypeInv
<1>0. /\ published \subseteq published' /\ givenUp \subseteq givenUp'
      /\ Progress(t)
  BY TaskFrame
<1>1. CASE AcquireConnection(t)
  BY <1>0, <1>1
     DEF AcquireConnection, Goto, Finish, TypeOK, Progress, Safe, SendingPcs,
         Accounted, SizeOf, AppendedEnd, ChunkEnd, Size, Workload, BlocksFrom,
         procVars, storeVars, history
<1>2. CASE ConnectionBusy(t)
  BY <1>0, <1>2
     DEF ConnectionBusy, Goto, Finish, TypeOK, Progress, Safe, SendingPcs,
         Accounted, SizeOf, AppendedEnd, ChunkEnd, Size, Workload, BlocksFrom,
         procVars, storeVars, history
<1>3. CASE Resume(t)
  BY <1>0, <1>3
     DEF Resume, Goto, Finish, TypeOK, Progress, Safe, SendingPcs, Accounted,
         SizeOf, AppendedEnd, ChunkEnd, Size, Workload, BlocksFrom, procVars,
         storeVars, history
<1>4. CASE GetBlockData(t)
  BY <1>0, <1>4
     DEF GetBlockData, AfterBlockData, Goto, Finish, TypeOK, Progress, Safe,
         SendingPcs, Accounted, SizeOf, AppendedEnd, ChunkEnd, Size, Workload,
         BlocksFrom, procVars, storeVars, history
<1>5. CASE GetBlockReward(t)
  BY <1>0, <1>5
     DEF GetBlockReward, Goto, Finish, TypeOK, Progress, Safe, SendingPcs,
         Accounted, SizeOf, AppendedEnd, ChunkEnd, Size, Workload, BlocksFrom,
         procVars, storeVars, history
<1>6. CASE LogFilter(t)
  BY <1>0, <1>6
     DEF LogFilter, Goto, Finish, TypeOK, Progress, Safe, SendingPcs,
         Accounted, SizeOf, AppendedEnd, ChunkEnd, Size, Workload, BlocksFrom,
         procVars, storeVars, history
<1>7. CASE ReadTopicSize(t)
  BY <1>0, <1>7
     DEF ReadTopicSize, Goto, Finish, TypeOK, Progress, Safe, SendingPcs,
         Accounted, SizeOf, AppendedEnd, ChunkEnd, Size, Workload, BlocksFrom,
         procVars, storeVars, history
<1>8. CASE AdmitBatch(t)
  BY <1>0, <1>8
     DEF AdmitBatch, HasSpace, Goto, Finish, TypeOK, Progress, Safe,
         SendingPcs, Accounted, SizeOf, AppendedEnd, ChunkEnd, Size, Workload,
         BlocksFrom, procVars, storeVars, history
<1>9. CASE Stall(t)
  BY <1>0, <1>9
     DEF Stall, Goto, Finish, TypeOK, Progress, Safe, SendingPcs, Accounted,
         SizeOf, AppendedEnd, ChunkEnd, Size, Workload, BlocksFrom, procVars,
         storeVars, history
<1>10. CASE SpinOnEmptyTopic(t)
  BY <1>0, <1>10
     DEF SpinOnEmptyTopic, Goto, Finish, TypeOK, Progress, Safe, SendingPcs,
         Accounted, SizeOf, AppendedEnd, ChunkEnd, Size, Workload, BlocksFrom,
         procVars, storeVars, history
<1>11. CASE CallRaises(t)
  BY <1>0, <1>11
     DEF CallRaises, Released, Goto, Finish, TypeOK, Progress, Safe,
         SendingPcs, Accounted, SizeOf, AppendedEnd, ChunkEnd, Size, Workload,
         BlocksFrom, procVars, storeVars, history
<1>12. CASE DecideBounds(t)
  <2>1. \/ \E b \in Nat : first'[t] = b /\ block'[t] = b
        \/ first' = first /\ block' = block
    BY <1>12, ProducerAssumption DEF DecideBounds, FirstBlock, Released, TypeOK
  <2>2. \A b : Accounted(t, b)' <=> Accounted(t, b)
    BY <1>12 DEF DecideBounds, Released, SizeOf, Accounted, history
  <2>3. \A b \in first'[t] .. block'[t] - 1 : Accounted(t, b)'
    BY <1>0, <2>1, <2>2 DEF Progress
  <2>4. pc'[t] \in {"fetch", "resume"} /\ outcome'[t] = "running"
    BY <1>0, <1>12 DEF DecideBounds, Released, Goto, TypeOK, Progress
  <2>. QED BY <2>3, <2>4 DEF Progress, SendingPcs
<1>13. CASE InsertBlock(t)
  <2>1. Size(t) \in Nat /\ (Size(t) > 0 \/ Size(t) = 0)
    BY <1>13, SizeInNat DEF InsertBlock, Released, LoadedPcs
  <2>2. Size(t)' = Size(t) /\ \A b : Accounted(t, b)' <=> Accounted(t, b)
    BY <1>13 DEF InsertBlock, Released, Size, SizeOf, Accounted, history
  <2>3. Size(t) = 0 => Accounted(t, block[t])
    BY <2>1 DEF Accounted, Size
  <2>. QED
    BY <1>0, <1>13, <2>1, <2>2, <2>3
       DEF InsertBlock, Released, Goto, TypeOK, Progress, SendingPcs
<1>14. CASE AdvanceBlock(t)
  <2>1. block[t] \in Nat /\ block'[t] = block[t] + 1 /\ first'[t] = first[t]
    BY <1>14 DEF AdvanceBlock, TypeOK
  <2>2. \A b : Accounted(t, b)' <=> Accounted(t, b)
    BY <1>14 DEF AdvanceBlock, SizeOf, Accounted, history
  <2>3. Accounted(t, block[t])
    BY <1>0, <1>14 DEF AdvanceBlock, Progress
  <2>4. \A b \in first'[t] .. block'[t] - 1 :
           b \in first[t] .. block[t] - 1 \/ b = block[t]
    BY <2>1 DEF TypeOK
  <2>5. \A b \in first'[t] .. block'[t] - 1 : Accounted(t, b)'
    BY <1>0, <2>2, <2>3, <2>4 DEF Progress
  <2>. QED
    BY <1>0, <1>14, <2>5
       DEF AdvanceBlock, Goto, Finish, TypeOK, Progress, SendingPcs
<1>15. CASE GetLogs(t)
  <2>1. LogCount[t] \in Nat /\ (LogCount[t] > 0 \/ LogCount[t] = 0)
    BY ProducerAssumption
  <2>2. sent[t] = 0 /\ sent'[t] = 0
    BY <1>15 DEF GetLogs, WellPlaced
  <2>3. \A b : Accounted(t, b)' <=> Accounted(t, b)
    BY <1>15 DEF GetLogs, SizeOf, Accounted, history
  <2>4. LogCount[t] = 0 => Accounted(t, block[t])
    BY <1>15, <2>1 DEF GetLogs, Accounted, SizeOf
  <2>. QED
    BY <1>0, <1>15, <2>1, <2>2, <2>3, <2>4
       DEF GetLogs, Goto, TypeOK, Progress, SendingPcs
<1>16. CASE StopAtEndBlock(t)
  <2>0. /\ block[t] \in Nat /\ LatestBlock \in Nat
        /\ EndBlock[t] \in Nat \/ EndBlock[t] = None
    BY ProducerAssumption DEF TypeOK
  <2>1. Mode[t] # "get_logs" /\ LastBlock(t) \in Nat /\ LastBlock(t) <= block[t] - 1
    BY <1>16, <2>0 DEF StopAtEndBlock, ShouldContinue, LastBlock, Lesser,
                       BlockModes
  <2>2. Workload(t) \subseteq first[t] .. block[t] - 1
    BY <2>1 DEF Workload, BlocksFrom, TypeOK
  <2>3. \A b \in Workload(t) : Accounted(t, b)
    BY <1>0, <2>2 DEF Progress
  <2>4. /\ \A b : Accounted(t, b)' <=> Accounted(t, b)
        /\ Workload(t)' = Workload(t)
    BY <1>16 DEF StopAtEndBlock, SizeOf, Accounted, Workload, BlocksFrom,
                 history
  <2>. QED
    BY <1>0, <1>16, <2>3, <2>4 DEF StopAtEndBlock, Finish, TypeOK, Progress,
                                   SendingPcs
<1>17. CASE StopAtLatestBlock(t)
  <2>0. /\ block[t] \in Nat /\ LatestBlock \in Nat
        /\ EndBlock[t] \in Nat \/ EndBlock[t] = None
    BY ProducerAssumption DEF TypeOK
  <2>1. Mode[t] # "get_logs" /\ LastBlock(t) \in Nat /\ LastBlock(t) <= block[t] - 1
    BY <1>17, <2>0 DEF StopAtLatestBlock, ShouldContinue, LastBlock, Lesser,
                       BlockModes
  <2>2. Workload(t) \subseteq first[t] .. block[t] - 1
    BY <2>1 DEF Workload, BlocksFrom, TypeOK
  <2>3. \A b \in Workload(t) : Accounted(t, b)
    BY <1>0, <2>2 DEF Progress
  <2>4. /\ \A b : Accounted(t, b)' <=> Accounted(t, b)
        /\ Workload(t)' = Workload(t)
    BY <1>17 DEF StopAtLatestBlock, SizeOf, Accounted, Workload, BlocksFrom,
                 history
  <2>. QED
    BY <1>0, <1>17, <2>3, <2>4 DEF StopAtLatestBlock, Finish, TypeOK, Progress,
                                   SendingPcs
<1>18. CASE FinishLogs(t)
  <2>1. Mode[t] = "get_logs" /\ block[t] = 0
    BY <1>18 DEF FinishLogs, WellPlaced
  <2>2. \A b \in Workload(t) : Accounted(t, b)
    BY <1>0, <1>18, <2>1 DEF FinishLogs, Progress, Workload, BlocksFrom
  <2>3. /\ \A b : Accounted(t, b)' <=> Accounted(t, b)
        /\ Workload(t)' = Workload(t)
    BY <1>18 DEF FinishLogs, SizeOf, Accounted, Workload, BlocksFrom, history
  <2>. QED
    BY <1>0, <1>18, <2>2, <2>3 DEF FinishLogs, Finish, TypeOK, Progress,
                                   SendingPcs
<1>19. CASE ChooseNextPartition(t)
  <2>1. pc[t] \in SendingPcs
    BY <1>19 DEF ChooseNextPartition, NextPartition, SendingPcs
  <2>2. /\ sent[t] \in Nat /\ Size(t) \in Nat /\ AppendedEnd(t) \in Nat
        /\ ChunkEnd(t) \in Nat /\ sent[t] <= AppendedEnd(t)
        /\ AppendedEnd(t) <= ChunkEnd(t) /\ ChunkEnd(t) <= Size(t)
    BY <2>1, ChunkBounds
  <2>3. \A b : Accounted(t, b) => Accounted(t, b)'
    BY <1>0 DEF Accounted, SizeOf
  <2>4. \A x : x \in Safe => x \in Safe'
    BY <1>0 DEF Safe
  <2>5. /\ AppendedEnd(t)' = AppendedEnd(t) /\ ChunkEnd(t)' = ChunkEnd(t)
        /\ block' = block /\ sent' = sent /\ first' = first
    BY <1>19 DEF ChooseNextPartition, NextPartition, AppendedEnd, ChunkEnd,
                 Size, SizeOf
  <2>6. \A k \in AppendedEnd(t) + 1 .. ChunkEnd(t) : <<t, block[t], k>> \in Safe'
    BY <1>19 DEF ChooseNextPartition, NextPartition, LogOverflow, Messages,
                 Safe
  <2>. QED
    BY <1>0, <1>19, <2>1, <2>3, <2>4, <2>5, <2>6
       DEF ChooseNextPartition, NextPartition, Goto, TypeOK, Progress,
           SendingPcs
<1>20. CASE ChooseLowestScorePartition(t)
  <2>1. pc[t] \in SendingPcs
    BY <1>20 DEF ChooseLowestScorePartition, SendingPcs
  <2>2. /\ sent[t] \in Nat /\ Size(t) \in Nat /\ AppendedEnd(t) \in Nat
        /\ ChunkEnd(t) \in Nat /\ sent[t] <= AppendedEnd(t)
        /\ AppendedEnd(t) <= ChunkEnd(t) /\ ChunkEnd(t) <= Size(t)
    BY <2>1, ChunkBounds
  <2>3. \A b : Accounted(t, b) => Accounted(t, b)'
    BY <1>0 DEF Accounted, SizeOf
  <2>4. \A x : x \in Safe => x \in Safe'
    BY <1>0 DEF Safe
  <2>5. /\ AppendedEnd(t)' = AppendedEnd(t) /\ ChunkEnd(t)' = ChunkEnd(t)
        /\ block' = block /\ sent' = sent /\ first' = first
    BY <1>20 DEF ChooseLowestScorePartition, AppendedEnd, ChunkEnd, Size,
                 SizeOf
  <2>6. \A k \in AppendedEnd(t) + 1 .. ChunkEnd(t) : <<t, block[t], k>> \in Safe'
    BY <1>20 DEF ChooseLowestScorePartition, LogOverflow, Messages, Safe
  <2>. QED
    BY <1>0, <1>20, <2>1, <2>3, <2>4, <2>5, <2>6
       DEF ChooseLowestScorePartition, Goto, TypeOK, Progress, SendingPcs
<1>21. CASE StoreBatch(t)
  <2>1. pc[t] \in SendingPcs
    BY <1>21 DEF StoreBatch, SendingPcs
  <2>2. /\ sent[t] \in Nat /\ Size(t) \in Nat /\ AppendedEnd(t) \in Nat
        /\ ChunkEnd(t) \in Nat /\ sent[t] <= AppendedEnd(t)
        /\ AppendedEnd(t) <= ChunkEnd(t) /\ ChunkEnd(t) <= Size(t)
    BY <2>1, ChunkBounds
  <2>3. \A b : Accounted(t, b) => Accounted(t, b)'
    BY <1>0 DEF Accounted, SizeOf
  <2>4. \A x : x \in Safe => x \in Safe'
    BY <1>0 DEF Safe
  <2>5. /\ AppendedEnd(t)' = AppendedEnd(t) /\ ChunkEnd(t)' = ChunkEnd(t)
        /\ block' = block /\ sent' = sent /\ first' = first
    BY <1>21 DEF StoreBatch, AppendedEnd, ChunkEnd, Size, SizeOf
  <2>6. \A k \in sent[t] + 1 .. AppendedEnd(t) : <<t, block[t], k>> \in Safe'
    BY <1>21 DEF StoreBatch, Messages, Safe
  <2>. QED
    BY <1>0, <1>21, <2>1, <2>3, <2>4, <2>5, <2>6
       DEF StoreBatch, Goto, TypeOK, Progress, SendingPcs
<1>22. CASE CountBatch(t)
  <2>1. pc[t] \in SendingPcs
    BY <1>22 DEF CountBatch, AfterChunk, Appended, SendingPcs
  <2>2. /\ sent[t] \in Nat /\ Size(t) \in Nat /\ AppendedEnd(t) \in Nat
        /\ ChunkEnd(t) \in Nat /\ sent[t] <= AppendedEnd(t)
        /\ AppendedEnd(t) <= ChunkEnd(t) /\ ChunkEnd(t) <= Size(t)
    BY <2>1, ChunkBounds
  <2>3. \A b : Accounted(t, b) => Accounted(t, b)'
    BY <1>0 DEF Accounted, SizeOf
  <2>4. \A x : x \in Safe => x \in Safe'
    BY <1>0 DEF Safe
  <2>5. \A k \in 1 .. ChunkEnd(t) : <<t, block[t], k>> \in Safe'
    <3>1. \A k \in 1 .. ChunkEnd(t) : \/ k \in 1 .. sent[t]
                                     \/ k \in sent[t] + 1 .. AppendedEnd(t)
                                     \/ k \in AppendedEnd(t) + 1 .. ChunkEnd(t)
      BY <2>2
    <3>. QED BY <1>0, <1>22, <2>1, <2>4, <3>1 DEF CountBatch, AfterChunk,
                                                  Appended, Progress
  <2>6. block' = block /\ first' = first /\ sent'[t] = ChunkEnd(t)
    BY <1>22 DEF CountBatch, AfterChunk, Appended, TypeOK
  <2>7. ~(ChunkEnd(t) < Size(t)) => Accounted(t, block[t])'
    BY <2>2, <2>5, <2>6 DEF Accounted, Size, SizeOf, Safe
  <2>8. AfterBatch(t) \in {"finish", "advance"}
    BY DEF AfterBatch
  <2>. QED
    BY <1>0, <1>22, <2>1, <2>3, <2>5, <2>6, <2>7, <2>8
       DEF CountBatch, AfterChunk, Appended, Goto, TypeOK, Progress, SendingPcs
<1>23. CASE SendTimesOut(t)
  <2>1. pc[t] \in SendingPcs
    BY <1>23 DEF SendTimesOut, AfterTimeout, SendingPcs
  <2>2. /\ sent[t] \in Nat /\ Size(t) \in Nat /\ AppendedEnd(t) \in Nat
        /\ ChunkEnd(t) \in Nat /\ sent[t] <= AppendedEnd(t)
        /\ AppendedEnd(t) <= ChunkEnd(t) /\ ChunkEnd(t) <= Size(t)
    BY <2>1, ChunkBounds
  <2>3. \A b : Accounted(t, b) => Accounted(t, b)'
    BY <1>0 DEF Accounted, SizeOf
  <2>4. \A x : x \in Safe => x \in Safe'
    BY <1>0 DEF Safe
  <2>5. \A k \in 1 .. Size(t) : <<t, block[t], k>> \in Safe'
    <3>1. \A k \in 1 .. Size(t) : k \in 1 .. sent[t] \/ k \in sent[t] + 1 .. Size(t)
      BY <2>2
    <3>2. \A k \in sent[t] + 1 .. Size(t) : <<t, block[t], k>> \in givenUp'
      BY <1>23 DEF SendTimesOut, AfterTimeout, Messages
    <3>. QED BY <1>0, <2>1, <2>4, <3>1, <3>2 DEF Progress, Safe
  <2>6. block' = block /\ first' = first /\ sent' = sent
    BY <1>23 DEF SendTimesOut, AfterTimeout
  <2>7. Accounted(t, block[t])'
    BY <2>5, <2>6 DEF Accounted, Size, SizeOf, Safe
  <2>8. AfterBatch(t) \in {"finish", "advance"}
    BY DEF AfterBatch
  <2>. QED
    BY <1>0, <1>23, <2>1, <2>3, <2>6, <2>7, <2>8
       DEF SendTimesOut, AfterTimeout, Goto, TypeOK, Progress, SendingPcs
<1>. QED
  BY <1>1, <1>2, <1>3, <1>4, <1>5, <1>6, <1>7, <1>8, <1>9, <1>10, <1>11,
     <1>12, <1>13, <1>14, <1>15, <1>16, <1>17, <1>18, <1>19, <1>20, <1>21,
     <1>22, <1>23
  DEF TaskStep, TaskFault

LEMMA NextSafetyInv == SafetyInv /\ [Next]_vars => SafetyInv'
<1>. SUFFICES ASSUME SafetyInv, [Next]_vars PROVE SafetyInv'
  OBVIOUS
<1>. USE DEF SafetyInv
<1>1. TypeInv'
  BY NextTypeInv
<1>2. ASSUME NEW t \in Tasks, TaskStep(t) \/ TaskFault(t) PROVE SafetyInv'
  <2>1. Progress(t)'
    BY <1>2, NextProgress
  <2>2. ASSUME NEW u \in Tasks, u # t PROVE Progress(u)'
    BY <1>2, <2>2, TaskFrame, ProgressFrame
  <2>3. exitCode' # 0
    BY <1>2, TaskFrame DEF Running
  <2>. QED BY <1>1, <2>1, <2>2, <2>3
<1>3. CASE Exit
  <2>1. ASSUME NEW t \in Tasks PROVE Progress(t)'
    BY <1>3, ProgressFrame DEF Exit, taskVars, history
  <2>2. exitCode' = 0 => \A t \in Tasks : outcome'[t] = "ok"
    BY <1>3 DEF Exit, ExitStatus, taskVars
  <2>. QED BY <1>1, <2>1, <2>2
<1>4. CASE Crash
  <2>1. ASSUME NEW t \in Tasks PROVE Progress(t)'
    BY <1>4, ProgressFrame DEF Crash, taskVars, history
  <2>. QED BY <1>1, <1>4, <2>1 DEF Crash
<1>5. CASE Restart
  <2>1. ASSUME NEW t \in Tasks PROVE Progress(t)'
    BY <1>5 DEF Restart, StartPc, Progress, SendingPcs, Accounted
  <2>. QED BY <1>1, <1>5, <2>1 DEF Restart, Running
<1>6. ASSUME NEW p \in Partitions, ConsumerDecrements(p) PROVE SafetyInv'
  <2>1. ASSUME NEW t \in Tasks PROVE Progress(t)'
    BY <1>6, ProgressFrame DEF ConsumerDecrements, taskVars, history
  <2>. QED BY <1>1, <1>6, <2>1 DEF ConsumerDecrements, taskVars, procVars
<1>7. CASE UNCHANGED vars
  <2>1. ASSUME NEW t \in Tasks PROVE Progress(t)'
    BY <1>7, ProgressFrame DEF vars, taskVars, history
  <2>. QED BY <1>1, <1>7, <2>1 DEF vars, taskVars, procVars
<1>. QED
  BY <1>2, <1>3, <1>4, <1>5, <1>6, <1>7 DEF Next, ProcessStep, Terminated

LEMMA SafetyInvariant == Spec => []SafetyInv
  BY InitSafetyInv, NextSafetyInv, PTL DEF Spec

(* Nothing is lost in silence: each message of a block a task has left     *)
(* behind was published or logged as given up (producer.py:131-148).       *)
THEOREM NothingIsSkipped == Spec => []NothingSkipped
<1>1. SafetyInv => NothingSkipped
  BY DEF SafetyInv, Progress, NothingSkipped
<1>. QED BY <1>1, SafetyInvariant, PTL

(* Exit code 0 means the whole configured range is accounted for           *)
(* (producer.py:229-263).                                                  *)
THEOREM SuccessCoversTheRange == Spec => []SuccessCoversRange
<1>1. SafetyInv => SuccessCoversRange
  BY DEF SafetyInv, Progress, SuccessCoversRange
<1>. QED BY <1>1, SafetyInvariant, PTL
-----------------------------------------------------------------------------
(* The order of effects on the stores *)

(* A row follows its block from the insertion to the end of the batch.     *)
RowInv ==
    /\ SafetyInv
    /\ RowBeforeMessages
    /\ \A t \in Tasks : pc[t] \in SendingPcs /\ Mode[t] \in BlockModes =>
                            block[t] \in blocks

LEMMA NextRowInv == RowInv /\ [Next]_vars => RowInv'
<1>. SUFFICES ASSUME RowInv, [Next]_vars PROVE RowInv'
  OBVIOUS
<1>. USE DEF RowInv
<1>0. SafetyInv' /\ TypeInv /\ TypeOK
  BY NextSafetyInv DEF SafetyInv, TypeInv
<1>1. ASSUME NEW t \in Tasks, TaskStep(t) \/ TaskFault(t) PROVE RowInv'
  <2>1. CASE InsertBlock(t)
    BY <1>0, <2>1 DEF InsertBlock, Released, Goto, TypeOK, RowBeforeMessages,
                      SendingPcs, history
  <2>2. CASE StoreBatch(t)
    <3>1. \A m \in Messages(t, sent[t], AppendedEnd(t)) : m[1] = t /\ m[2] = block[t]
      BY DEF Messages
    <3>2. RowBeforeMessages'
      BY <2>2, <3>1 DEF StoreBatch, RowBeforeMessages, SendingPcs
    <3>. QED
      BY <1>0, <2>2, <3>2 DEF StoreBatch, Goto, TypeOK, SendingPcs
  <2>3. CASE ~InsertBlock(t) /\ ~StoreBatch(t)
    <3>1. published' = published /\ blocks' = blocks
      BY <1>1, <2>3 DEF TaskStep, TaskFault, AcquireConnection, ConnectionBusy,
                        DecideBounds, Released, Resume, InsertBlock,
                        StopAtEndBlock, StopAtLatestBlock, GetBlockData,
                        AfterBlockData, GetBlockReward, AdvanceBlock, GetLogs,
                        FinishLogs, LogFilter, ReadTopicSize, AdmitBatch,
                        HasSpace, Stall, SpinOnEmptyTopic, ChooseNextPartition,
                        NextPartition, ChooseLowestScorePartition, StoreBatch,
                        CountBatch, AfterChunk, Appended, SendTimesOut,
                        AfterTimeout, CallRaises, Goto, Finish, LogOverflow,
                        AfterBatch, procVars, storeVars, history
    <3>2. pc'[t] \in SendingPcs /\ Mode[t] \in BlockModes =>
             pc[t] \in SendingPcs /\ block'[t] = block[t]
      BY <1>0, <1>1, <2>3 DEF TypeOK, BlockModes, TaskStep, TaskFault,
                              AcquireConnection, ConnectionBusy, DecideBounds,
                              Released, Resume, InsertBlock, StopAtEndBlock,
                              StopAtLatestBlock, GetBlockData, AfterBlockData,
                              GetBlockReward, AdvanceBlock, GetLogs,
                              FinishLogs, LogFilter, ReadTopicSize, AdmitBatch,
                              HasSpace, Stall, SpinOnEmptyTopic,
                              ChooseNextPartition, NextPartition,
                              ChooseLowestScorePartition, StoreBatch,
                              CountBatch, AfterChunk, Appended, SendTimesOut,
                              AfterTimeout, CallRaises, Goto, Finish,
                              LogOverflow, AfterBatch, SendingPcs
    <3>3. ASSUME NEW u \in Tasks PROVE pc'[u] \in SendingPcs /\ Mode[u] \in BlockModes =>
                                          block'[u] \in blocks'
      BY <1>0, <1>1, <3>1, <3>2, TaskFrame
    <3>. QED BY <1>0, <3>1, <3>3 DEF RowBeforeMessages
  <2>. QED BY <2>1, <2>2, <2>3
<1>2. CASE Exit \/ Crash
  BY <1>0, <1>2 DEF Exit, Crash, RowBeforeMessages, taskVars, storeVars,
                    history
<1>3. CASE Restart
  BY <1>0, <1>3 DEF Restart, RowBeforeMessages, StartPc, SendingPcs, storeVars,
                    history
<1>4. ASSUME NEW p \in Partitions, ConsumerDecrements(p) PROVE RowInv'
  BY <1>0, <1>4 DEF ConsumerDecrements, RowBeforeMessages, taskVars, history
<1>5. CASE UNCHANGED vars
  BY <1>0, <1>5 DEF vars, RowBeforeMessages, taskVars, storeVars, history
<1>. QED
  BY <1>1, <1>2, <1>3, <1>4, <1>5 DEF Next, ProcessStep, Terminated

(* A block's row precedes every message of it (producer.py:127-138).       *)
THEOREM RowsPrecedeMessages == Spec => []RowBeforeMessages
<1>1. Init => RowInv
  BY InitSafetyInv
     DEF Init, InitTasks, RowInv, RowBeforeMessages, StartPc, SendingPcs
<1>. QED BY <1>1, NextRowInv, PTL DEF Spec, RowInv

-----------------------------------------------------------------------------
(* The range of each task *)

(* A task that reads its start from the configuration works on the blocks  *)
(* from FirstBlock to LastBlock, and only on these; so the rows of failed  *)
(* processes lie in the range of a task that has to go through it again.   *)
WithinRange(t) ==
    /\ pc[t] \in LoadedPcs \cup {"fetch"} \/ outcome[t] = "ok" =>
           first[t] = FirstBlock(t) /\ first[t] <= block[t]
    /\ pc[t] \in LoadedPcs => block[t] <= LastBlock(t)

RowsInRange ==
    \A b \in blocks : \E t \in BlockTasks : b \in FirstBlock(t) .. LastBlock(t)

RangeInv ==
    /\ SafetyInv
    /\ \A t \in BlockTasks : WithinRange(t)
    /\ RowsInRange

LEMMA RangeTypes ==
    ASSUME TypeInv, NEW t \in Tasks
    PROVE  /\ FirstBlock(t) \in Nat /\ LastBlock(t) \in Nat
           /\ block[t] \in Nat /\ first[t] \in Nat
           /\ EndBlock[t] \in Nat \/ EndBlock[t] = None
           /\ LatestBlock \in Nat
  BY ProducerAssumption DEF TypeInv, TypeOK, FirstBlock, LastBlock, Lesser

LEMMA NextWithinRange ==
    ASSUME RangeInv, NEW t \in BlockTasks, TaskStep(t) \/ TaskFault(t)
    PROVE  WithinRange(t)'
<1>. USE DEF RangeInv, SafetyInv, TypeInv, BlockTasks
<1>1. /\ WithinRange(t) /\ Progress(t) /\ WellPlaced(t) /\ TypeOK
      /\ Mode[t] \in BlockModes /\ pc[t] # "done" /\ outcome[t] = "running"
  <2>1. WithinRange(t) /\ Progress(t) /\ WellPlaced(t) /\ TypeOK /\ Mode[t] \in BlockModes
    OBVIOUS
  <2>2. pc[t] # "done"
    BY DEF TaskStep, TaskFault, AcquireConnection, ConnectionBusy,
           DecideBounds, Resume, InsertBlock, StopAtEndBlock,
           StopAtLatestBlock, GetBlockData, GetBlockReward, AdvanceBlock,
           GetLogs, FinishLogs, LogFilter, ReadTopicSize, AdmitBatch, Stall,
           SpinOnEmptyTopic, ChooseNextPartition, ChooseLowestScorePartition,
           StoreBatch, CountBatch, SendTimesOut, CallRaises, Awaiting
  <2>. QED BY <2>1, <2>2 DEF Progress
<1>2. /\ FirstBlock(t) \in Nat /\ LastBlock(t) \in Nat
      /\ block[t] \in Nat /\ first[t] \in Nat
      /\ EndBlock[t] \in Nat \/ EndBlock[t] = None
      /\ LatestBlock \in Nat
      /\ FirstBlock(t)' = FirstBlock(t) /\ LastBlock(t)' = LastBlock(t)
  BY RangeTypes DEF FirstBlock, LastBlock, Lesser
<1>3. CASE DecideBounds(t)
  BY <1>1, <1>2, <1>3 DEF DecideBounds, Goto, WithinRange, LoadedPcs, TypeOK
<1>4. CASE GetBlockData(t)
  <2>1. block[t] <= LastBlock(t) /\ block' = block /\ first' = first
    BY <1>2, <1>4 DEF GetBlockData, ShouldContinue, LastBlock, Lesser
  <2>2. pc[t] = "fetch" /\ outcome' = outcome
    BY <1>4 DEF GetBlockData, Goto
  <2>. QED BY <1>1, <1>2, <2>1, <2>2 DEF WithinRange
<1>5. CASE AdvanceBlock(t)
  BY <1>1, <1>2, <1>5 DEF AdvanceBlock, Goto, Finish, WithinRange, LoadedPcs,
                          TypeOK
<1>6. CASE ~DecideBounds(t) /\ ~GetBlockData(t) /\ ~AdvanceBlock(t)
  <2>1. /\ block' = block /\ first' = first
        /\ pc'[t] \in LoadedPcs => pc[t] \in LoadedPcs
        /\ pc'[t] # "fetch"
        /\ outcome'[t] = "ok" => pc[t] = "fetch"
    BY <1>1, <1>6
       DEF TypeOK, TaskStep, TaskFault, AcquireConnection, ConnectionBusy,
           Resume, InsertBlock, StopAtEndBlock, StopAtLatestBlock,
           GetBlockReward, GetLogs, FinishLogs, LogFilter, ReadTopicSize,
           AdmitBatch, Stall, SpinOnEmptyTopic, ChooseNextPartition,
           ChooseLowestScorePartition, StoreBatch, CountBatch, AfterChunk,
           SendTimesOut, AfterTimeout, AfterBatch, CallRaises, Goto, Finish,
           LoadedPcs, WellPlaced, BlockModes
  <2>. QED BY <1>1, <1>2, <2>1 DEF WithinRange
<1>. QED BY <1>3, <1>4, <1>5, <1>6

LEMMA NextRangeInv == RangeInv /\ [Next]_vars => RangeInv'
<1>. SUFFICES ASSUME RangeInv, [Next]_vars PROVE RangeInv'
  OBVIOUS
<1>. USE DEF RangeInv
<1>0. SafetyInv' /\ TypeInv /\ TypeOK
  BY NextSafetyInv DEF SafetyInv, TypeInv
<1>1. /\ \A u : FirstBlock(u)' = FirstBlock(u) /\ LastBlock(u)' = LastBlock(u)
      /\ BlockTasks' = BlockTasks /\ BlockTasks \subseteq Tasks
  BY DEF FirstBlock, LastBlock, Lesser, BlockTasks
<1>2. ASSUME blocks' = blocks PROVE RowsInRange'
  BY <1>1, <1>2 DEF RowsInRange
<1>3. ASSUME NEW u \in BlockTasks, pc'[u] = pc[u], outcome'[u] = outcome[u],
             first'[u] = first[u], block'[u] = block[u]
      PROVE  WithinRange(u)'
  BY <1>1, <1>3 DEF WithinRange
<1>4. ASSUME NEW t \in Tasks, TaskStep(t) \/ TaskFault(t) PROVE RangeInv'
  <2>1. ASSUME NEW u \in BlockTasks PROVE WithinRange(u)'
    BY <1>0, <1>1, <1>3, <1>4, <2>1, TaskFrame, NextWithinRange
  <2>2. CASE InsertBlock(t)
    <3>1. t \in BlockTasks /\ pc[t] = "inserting" /\ blocks' = blocks \cup {block[t]}
      BY <1>0, <2>2 DEF InsertBlock, TypeInv, WellPlaced, BlockPcs, BlockTasks
    <3>2. block[t] \in FirstBlock(t) .. LastBlock(t)
      BY <1>0, <3>1, RangeTypes DEF WithinRange, LoadedPcs, BlockTasks
    <3>3. RowsInRange'
      BY <1>1, <3>1, <3>2 DEF RowsInRange
    <3>. QED BY <1>0, <1>1, <2>1, <3>3
  <2>3. CASE ~InsertBlock(t)
    <3>1. blocks' = blocks
      BY <1>4, <2>3
         DEF TaskStep, TaskFault, AcquireConnection, ConnectionBusy,
             DecideBounds, Resume, StopAtEndBlock, StopAtLatestBlock,
             GetBlockData, GetBlockReward, AdvanceBlock, GetLogs, FinishLogs,
             LogFilter, ReadTopicSize, AdmitBatch, Stall, SpinOnEmptyTopic,
             ChooseNextPartition, ChooseLowestScorePartition, StoreBatch,
             CountBatch, SendTimesOut, CallRaises, storeVars
    <3>. QED BY <1>0, <1>1, <1>2, <2>1, <3>1
  <2>. QED BY <2>2, <2>3
<1>5. CASE Exit \/ Crash
  BY <1>0, <1>1, <1>2, <1>3, <1>5 DEF Exit, Crash, taskVars, storeVars
<1>6. CASE Restart
  <2>1. ASSUME NEW u \in BlockTasks PROVE WithinRange(u)'
    BY <1>1, <1>6, <2>1 DEF Restart, StartPc, WithinRange, LoadedPcs,
                            BlockTasks
  <2>. QED BY <1>0, <1>1, <1>2, <1>6, <2>1 DEF Restart, storeVars
<1>7. ASSUME NEW p \in Partitions, ConsumerDecrements(p) PROVE RangeInv'
  BY <1>0, <1>1, <1>2, <1>3, <1>7 DEF ConsumerDecrements, taskVars
<1>8. CASE UNCHANGED vars
  BY <1>0, <1>1, <1>2, <1>3, <1>8 DEF vars, taskVars, storeVars
<1>. QED
  BY <1>4, <1>5, <1>6, <1>7, <1>8 DEF Next, ProcessStep, Terminated

LEMMA RangeInvariant == Spec => []RangeInv
<1>1. Init => RangeInv
  BY InitSafetyInv
     DEF Init, InitTasks, StartPc, RangeInv, WithinRange, RowsInRange,
         BlockTasks, LoadedPcs
<1>. QED BY <1>1, NextRangeInv, PTL DEF Spec

(* Once a producer has succeeded, the blocks that have a row have their    *)
(* messages too, also those whose rows were left by processes that failed  *)
(* between the insertion and the end of the batch (producer.py:127-138,    *)
(* block_explorer.py:46-51).                                               *)
THEOREM RowsGetTheirMessages == Spec => []RowsGetMessages
<1>1. RangeInv => RowsGetMessages
  <2>. SUFFICES ASSUME RangeInv, exitCode = 0, NEW b \in blocks
                PROVE  \E t \in BlockTasks : Accounted(t, b)
    BY DEF RowsGetMessages
  <2>1. PICK t \in BlockTasks : b \in FirstBlock(t) .. LastBlock(t)
    BY DEF RangeInv, RowsInRange
  <2>2. /\ t \in Tasks /\ Mode[t] # "get_logs"
        /\ outcome[t] = "ok" /\ Progress(t) /\ first[t] = FirstBlock(t)
    BY DEF BlockTasks, BlockModes, RangeInv, SafetyInv, WithinRange
  <2>3. b \in Workload(t)
    BY <2>1, <2>2 DEF Workload, BlocksFrom
  <2>. QED BY <2>2, <2>3 DEF Progress
<1>. QED BY <1>1, RangeInvariant, PTL

(* A task sends messages of the blocks of its range only.                  *)
LEMMA SendsInRange ==
    ASSUME RangeInv, NEW t \in Tasks, pc[t] \in SendingPcs
    PROVE  block[t] \in BlocksFrom(t, first[t])
<1>1. TypeInv /\ WellPlaced(t) /\ Mode[t] \in Modes
  BY ProducerAssumption DEF RangeInv, SafetyInv, TypeInv
<1>2. CASE Mode[t] = "get_logs"
  BY <1>1, <1>2 DEF WellPlaced, BlocksFrom
<1>3. CASE Mode[t] # "get_logs"
  <2>1. t \in BlockTasks
    BY <1>1, <1>3 DEF WellPlaced, Modes, BlockModes, BlockTasks
  <2>2. WithinRange(t) /\ pc[t] \in LoadedPcs
    BY <2>1 DEF RangeInv, SendingPcs, LoadedPcs
  <2>. QED BY <1>1, <1>3, <2>2, RangeTypes DEF WithinRange, BlocksFrom
<1>. QED BY <1>2, <1>3

LEMMA NextFirstRound ==
    TypeInv /\ FirstRoundInOrder /\ [Next]_vars => FirstRoundInOrder'
<1>. SUFFICES ASSUME TypeInv, FirstRoundInOrder, [Next]_vars
              PROVE  FirstRoundInOrder'
  OBVIOUS
<1>. USE DEF FirstRoundInOrder, TypeInv, TypeOK
<1>1. ASSUME NEW t \in Tasks, TaskStep(t) \/ TaskFault(t) PROVE FirstRoundInOrder'
  <2>1. CASE ChooseNextPartition(t)
    <3>1. NPartitions \in Nat /\ iPartition \in Nat
      BY <2>1, ProducerAssumption DEF ChooseNextPartition, NextPartition,
                                      Partitions
    <3>2. SUFFICES ASSUME restarts' = 0, iPartition' # LowestScoreMode,
                          NEW p \in iPartition' .. NPartitions - 1
                   PROVE  /\ logEnd'[p] = 0
                          /\ \A u \in Tasks : pc'[u] \in {"send", "ack"} => part'[u] # p
      OBVIOUS
    <3>3. p \in iPartition .. NPartitions - 1 /\ p # iPartition
      BY <2>1, <3>1, <3>2 DEF ChooseNextPartition, NextPartition
    <3>4. /\ logEnd[p] = 0
          /\ \A u \in Tasks : pc[u] \in {"send", "ack"} => part[u] # p
      BY <2>1, <3>2, <3>3 DEF ChooseNextPartition, NextPartition
    <3>. QED
      BY <2>1, <3>3, <3>4 DEF ChooseNextPartition, NextPartition, Goto,
                              storeVars
  <2>2. CASE StoreBatch(t)
    <3>1. SUFFICES ASSUME restarts' = 0, iPartition' # LowestScoreMode,
                          NEW p \in iPartition' .. NPartitions - 1
                   PROVE  /\ logEnd'[p] = 0
                          /\ \A u \in Tasks : pc'[u] \in {"send", "ack"} => part'[u] # p
      OBVIOUS
    <3>2. p \in iPartition .. NPartitions - 1 /\ p \in Partitions
      BY <2>2, <3>1, ProducerAssumption
         DEF StoreBatch, Partitions, LowestScoreMode, procVars
    <3>3. /\ logEnd[p] = 0
          /\ \A u \in Tasks : pc[u] \in {"send", "ack"} => part[u] # p
      BY <2>2, <3>1, <3>2 DEF StoreBatch, procVars
    <3>. QED
      BY <2>2, <3>2, <3>3 DEF StoreBatch, Goto, procVars
  <2>3. CASE ~ChooseNextPartition(t) /\ ~StoreBatch(t)
    <3>1. /\ iPartition' = iPartition /\ logEnd' = logEnd /\ restarts' = restarts
          /\ \/ iPartition = LowestScoreMode
             \/ /\ pc'[t] \in {"send", "ack"} => pc[t] \in {"send", "ack"}
                /\ part'[t] = part[t]
      BY <1>1, <2>3 DEF TaskStep, TaskFault, AcquireConnection, ConnectionBusy,
                        DecideBounds, Released, Resume, InsertBlock,
                        StopAtEndBlock, StopAtLatestBlock, GetBlockData,
                        AfterBlockData, GetBlockReward, AdvanceBlock, GetLogs,
                        FinishLogs, LogFilter, ReadTopicSize, AdmitBatch,
                        HasSpace, Stall, SpinOnEmptyTopic, ChooseNextPartition,
                        NextPartition, ChooseLowestScorePartition, StoreBatch,
                        CountBatch, AfterChunk, Appended, SendTimesOut,
                        AfterTimeout, CallRaises, Goto, Finish, LogOverflow,
                        AfterBatch, procVars, storeVars
    <3>. QED BY <1>1, <3>1, TaskFrame
  <2>. QED BY <2>1, <2>2, <2>3
<1>2. CASE Exit \/ Crash
  BY <1>2 DEF Exit, Crash, taskVars, storeVars
<1>3. CASE Restart
  BY <1>3 DEF Restart
<1>4. ASSUME NEW p \in Partitions, ConsumerDecrements(p) PROVE FirstRoundInOrder'
  BY <1>4 DEF ConsumerDecrements, taskVars, procVars
<1>5. CASE UNCHANGED vars
  BY <1>5 DEF vars, taskVars, procVars, storeVars
<1>. QED
  BY <1>1, <1>2, <1>3, <1>4, <1>5 DEF Next, ProcessStep, Terminated

(* No partition gets a batch before its turn in the first round            *)
(* (manager.py:152-165).                                                   *)
THEOREM FirstRoundIsInOrder == Spec => []FirstRoundInOrder
<1>1. Init => FirstRoundInOrder
  BY DEF Init, InitTasks, FirstRoundInOrder, StartPc, Partitions
<1>. QED BY <1>1, InitTypeInv, NextTypeInv, NextFirstRound, PTL DEF Spec

LEMMA NextContention ==
    SafetyInv /\ ConnectionExclusive /\ ContentionSparesOne /\ [Next]_vars
        => ContentionSparesOne'
<1>. SUFFICES ASSUME SafetyInv, ConnectionExclusive, ContentionSparesOne, [Next]_vars,
                     BlockTasks # {}
              PROVE  \E u \in BlockTasks : outcome'[u] # "interface_error"
  BY DEF ContentionSparesOne, BlockTasks
<1>. USE DEF SafetyInv, TypeInv, TypeOK, BlockTasks
<1>0. PICK v \in BlockTasks : outcome[v] # "interface_error"
  BY DEF ContentionSparesOne
<1>1. ASSUME NEW t \in Tasks, TaskStep(t) \/ TaskFault(t)
      PROVE  \E u \in BlockTasks : outcome'[u] # "interface_error"
  <2>1. CASE ConnectionBusy(t)
    <3>1. /\ dbUser \in Tasks /\ pc[dbUser] \in {"reading", "inserting"}
          /\ dbUser # t
      BY <1>1, <2>1, TaskFrame DEF ConnectionBusy, ConnectionExclusive
    <3>2. outcome'[dbUser] = "running"
      BY <1>1, <3>1, TaskFrame DEF Progress
    <3>3. dbUser \in BlockTasks
      BY <3>1 DEF WellPlaced, BlockPcs
    <3>. QED BY <3>2, <3>3
  <2>2. CASE ~ConnectionBusy(t)
    <3>1. outcome'[t] = outcome[t] \/ outcome'[t] # "interface_error"
      BY <1>1, <2>2 DEF TaskStep, TaskFault, AcquireConnection, ConnectionBusy,
                        DecideBounds, Released, Resume, InsertBlock,
                        StopAtEndBlock, StopAtLatestBlock, GetBlockData,
                        AfterBlockData, GetBlockReward, AdvanceBlock, GetLogs,
                        FinishLogs, LogFilter, ReadTopicSize, AdmitBatch,
                        HasSpace, Stall, SpinOnEmptyTopic, ChooseNextPartition,
                        NextPartition, ChooseLowestScorePartition, StoreBatch,
                        CountBatch, AfterChunk, Appended, SendTimesOut,
                        AfterTimeout, CallRaises, Goto, Finish, LogOverflow,
                        AfterBatch
    <3>. QED BY <1>0, <1>1, <3>1, TaskFrame
  <2>. QED BY <2>1, <2>2
<1>2. CASE Exit \/ Crash
  BY <1>0, <1>2 DEF Exit, Crash, taskVars
<1>3. CASE Restart
  BY <1>3 DEF Restart
<1>4. ASSUME NEW p \in Partitions, ConsumerDecrements(p)
      PROVE  \E u \in BlockTasks : outcome'[u] # "interface_error"
  BY <1>0, <1>4 DEF ConsumerDecrements, taskVars
<1>5. CASE UNCHANGED vars
  BY <1>0, <1>5 DEF vars, taskVars
<1>. QED
  BY <1>1, <1>2, <1>3, <1>4, <1>5 DEF Next, ProcessStep, Terminated

(* Whoever holds the connection goes on: contention never fails all tasks  *)
(* (producer.py:241-246, db/manager.py:29).                                *)
THEOREM ContentionNeverFailsAll == Spec => []ContentionSparesOne
<1>1. Init => ContentionSparesOne /\ ConnectionExclusive
  BY ProducerAssumption
     DEF Init, InitTasks, StartPc, ContentionSparesOne, BlockTasks, ConnectionExclusive
<1>2. SafetyInv => TypeInv
  BY DEF SafetyInv
<1>. QED
  BY <1>1, <1>2, InitSafetyInv, NextSafetyInv, NextConnectionExclusive,
     NextContention, PTL DEF Spec

-----------------------------------------------------------------------------
(* Of the tasks that use the connection one is left when the first queries *)
(* have been issued: every task issues its own before any is answered, and *)
(* only the first finds the connection free.                               *)

SurvivorInv ==
    /\ \A t \in Tasks : pc[t] = "bounds" => block[t] = 0 /\ first[t] = 0
    /\ \A t \in BlockTasks :
          pc[t] \notin {"bounds", "reading"} /\ outcome[t] # "interface_error"
              => AllStarted
    /\ \A t, u \in BlockTasks :
          t # u /\ pc[t] # "bounds" /\ pc[u] # "bounds" =>
              "interface_error" \in {outcome[t], outcome[u]}

LEMMA StepFromPc ==
    ASSUME TypeInv, NEW t \in Tasks, TaskStep(t) \/ TaskFault(t)
    PROVE  /\ pc[t] # "done" /\ pc'[t] # "bounds"
           /\ pc[t] = "bounds" => AcquireConnection(t) \/ ConnectionBusy(t)
           /\ pc[t] # "bounds" => AllStarted
  BY DEF TypeInv, TypeOK, TaskStep, TaskFault, AcquireConnection,
         ConnectionBusy, DecideBounds, Resume, InsertBlock, StopAtEndBlock,
         StopAtLatestBlock, GetBlockData, AfterBlockData, GetBlockReward,
         AdvanceBlock, GetLogs, FinishLogs, LogFilter, ReadTopicSize,
         AdmitBatch, Stall, SpinOnEmptyTopic, ChooseNextPartition,
         ChooseLowestScorePartition, StoreBatch, CountBatch, AfterChunk,
         SendTimesOut, AfterTimeout, AfterBatch, CallRaises, Awaiting, Goto,
         Finish, AllStarted

LEMMA NextSurvivor ==
    SafetyInv /\ ConnectionExclusive /\ SurvivorInv /\ [Next]_vars => SurvivorInv'
<1>. SUFFICES ASSUME SafetyInv, ConnectionExclusive, SurvivorInv, [Next]_vars
              PROVE  SurvivorInv'
  OBVIOUS
<1>0. TypeInv /\ TypeOK /\ \A t \in Tasks : Progress(t)
  BY DEF SafetyInv, TypeInv
<1>1. ASSUME NEW t \in Tasks, TaskStep(t) \/ TaskFault(t) PROVE SurvivorInv'
  <2>1. /\ pc[t] # "done" /\ pc'[t] # "bounds"
        /\ pc[t] = "bounds" => AcquireConnection(t) \/ ConnectionBusy(t)
        /\ pc[t] # "bounds" => AllStarted
    BY <1>0, <1>1, StepFromPc
  <2>2. \A u \in Tasks : u # t =>
           /\ pc'[u] = pc[u] /\ outcome'[u] = outcome[u]
           /\ first'[u] = first[u] /\ block'[u] = block[u]
    BY <1>0, <1>1, TaskFrame
  <2>3. outcome[t] = "running"
    BY <1>0, <2>1 DEF Progress
  <2>4. CASE AllStarted
    BY <2>1, <2>2, <2>3, <2>4 DEF AllStarted, SurvivorInv, BlockTasks
  <2>5. CASE ~AllStarted
    <3>1. \A u \in BlockTasks :
             pc[u] # "bounds" /\ outcome[u] # "interface_error" => pc[u] = "reading"
      BY <2>5 DEF SurvivorInv
    <3>2. CASE AcquireConnection(t)
      <4>1. pc'[t] = "reading"
        BY <1>0, <2>1, <2>5, <3>2 DEF AcquireConnection, Goto, TypeOK
      <4>2. \A u \in Tasks : pc[u] # "reading"
        BY <1>0, <1>1, <3>2, TaskFrame, ProducerAssumption
           DEF AcquireConnection, ConnectionExclusive
      <4>3. \A u \in BlockTasks : pc[u] # "bounds" => outcome[u] = "interface_error"
        BY <3>1, <4>2 DEF BlockTasks
      <4>. QED BY <2>2, <4>1, <4>3 DEF SurvivorInv, BlockTasks
    <3>3. CASE ConnectionBusy(t)
      <4>1. pc'[t] = "done" /\ outcome'[t] = "interface_error"
        BY <1>0, <3>3 DEF ConnectionBusy, Finish, TypeOK
      <4>. QED BY <2>2, <2>5, <4>1 DEF SurvivorInv, BlockTasks
    <3>. QED BY <2>1, <2>5, <3>2, <3>3
  <2>. QED BY <2>4, <2>5
<1>2. CASE Exit \/ Crash
  BY <1>2 DEF Exit, Crash, taskVars, SurvivorInv, BlockTasks, AllStarted
<1>3. CASE Restart
  BY <1>3 DEF Restart, StartPc, SurvivorInv, BlockTasks, AllStarted, BlockModes
<1>4. ASSUME NEW p \in Partitions, ConsumerDecrements(p) PROVE SurvivorInv'
  BY <1>4 DEF ConsumerDecrements, taskVars, SurvivorInv, BlockTasks, AllStarted
<1>5. CASE UNCHANGED vars
  BY <1>5 DEF vars, taskVars, SurvivorInv, BlockTasks, AllStarted
<1>. QED
  BY <1>1, <1>2, <1>3, <1>4, <1>5 DEF Next, ProcessStep, Terminated

-----------------------------------------------------------------------------
(* Why tasks fail *)

(* The same for the tasks that are about to fail: one without an end block *)
(* never leaves its first block, and one that goes to resume has seen a    *)
(* row.                                                                    *)
FailuresInv ==
    /\ FailuresExplained
    /\ \A t \in Tasks :
          /\ EndBlock[t] = None /\ Mode[t] \in BlockModes
             /\ pc[t] \in LoadedPcs \cup {"fetch"} => block[t] = first[t]
          /\ pc[t] = "resume" => StartBlock[t] = None /\ blocks # {}

LEMMA NextFailures ==
    SafetyInv /\ ConnectionExclusive /\ SurvivorInv /\ FailuresInv /\ [Next]_vars
        => FailuresInv'
<1>. SUFFICES ASSUME SafetyInv, ConnectionExclusive, SurvivorInv, FailuresInv,
                     [Next]_vars
              PROVE  FailuresInv'
  OBVIOUS
<1>. DEFINE Explained(t) ==
                /\ outcome[t] = "type_error" =>
                       EndBlock[t] = None /\ block[t] = first[t] + 1
                /\ outcome[t] = "attribute_error" => StartBlock[t] = None /\ blocks # {}
            Blamed(t) == outcome[t] = "interface_error" =>
                             t \in BlockTasks /\ block[t] = 0 /\ first[t] = 0
            Foreseen(t) ==
                /\ EndBlock[t] = None /\ Mode[t] \in BlockModes
                   /\ pc[t] \in LoadedPcs \cup {"fetch"} => block[t] = first[t]
                /\ pc[t] = "resume" => StartBlock[t] = None /\ blocks # {}
<1>0. /\ TypeInv /\ TypeOK /\ \A t \in Tasks : Progress(t)
      /\ \A t \in Tasks : Explained(t) /\ Blamed(t) /\ Foreseen(t)
  BY DEF SafetyInv, TypeInv, FailuresInv, FailuresExplained
<1>1. SUFFICES ASSUME NEW t \in Tasks
               PROVE  Explained(t)' /\ Blamed(t)' /\ Foreseen(t)'
  BY DEF FailuresInv, FailuresExplained
<1>2. ASSUME NEW u \in Tasks, TaskStep(u) \/ TaskFault(u)
      PROVE  Explained(t)' /\ Blamed(t)' /\ Foreseen(t)'
  <2>1. t = u => outcome[t] = "running"
    BY <1>0, <1>2, StepFromPc DEF Progress
  <2>2. CASE t # u
    <3>1. /\ pc'[t] = pc[t] /\ outcome'[t] = outcome[t] /\ block'[t] = block[t]
          /\ first'[t] = first[t] /\ blocks \subseteq blocks'
      BY <1>0, <1>2, <2>2, TaskFrame
    <3>2. Blamed(t)'
      BY <1>0, <3>1 DEF BlockTasks
    <3>. QED BY <1>0, <3>1, <3>2
  <2>3. CASE t = u
    <3>1. blocks \subseteq blocks'
      BY <1>0, <1>2, TaskFrame
    <3>2. CASE ConnectionBusy(t)
      <4>1. /\ dbUser \in Tasks /\ pc[dbUser] \in {"reading", "inserting"}
            /\ dbUser # t
        BY <1>0, <1>2, <2>3, <3>2, TaskFrame
           DEF ConnectionBusy, ConnectionExclusive, TypeOK
      <4>2. t \in BlockTasks /\ dbUser \in BlockTasks
        BY <1>0, <3>2, <4>1
           DEF ConnectionBusy, TypeInv, WellPlaced, BlockPcs, BlockTasks
      <4>3. outcome[t] = "running" /\ outcome[dbUser] = "running"
        BY <1>0, <2>1, <2>3, <4>1 DEF Progress
      <4>4. pc[t] = "bounds"
        BY <4>1, <4>2, <4>3 DEF SurvivorInv
      <4>5. block[t] = 0 /\ first[t] = 0
        BY <4>4 DEF SurvivorInv
      <4>6. /\ outcome'[t] = "interface_error" /\ pc'[t] = "done"
            /\ block' = block /\ first' = first
        BY <1>0, <3>2 DEF ConnectionBusy, Finish, TypeOK
      <4>. QED BY <4>2, <4>5, <4>6 DEF LoadedPcs, BlockTasks
    <3>3. CASE AdvanceBlock(t)
      <4>1. /\ EndBlock[t] = None => block[t] = first[t]
            /\ outcome[t] = "running"
        BY <1>0, <3>3 DEF AdvanceBlock, TypeInv, WellPlaced, BlockPcs,
                          LoadedPcs, Progress
      <4>. QED
        BY <1>0, <3>3, <4>1 DEF AdvanceBlock, Goto, Finish, TypeOK, LoadedPcs,
                                BlockTasks
    <3>4. CASE DecideBounds(t)
      BY <1>0, <3>4 DEF DecideBounds, Goto, TypeOK, LoadedPcs, Progress,
                        storeVars
    <3>5. CASE ~ConnectionBusy(t) /\ ~AdvanceBlock(t) /\ ~DecideBounds(t)
      <4>1. block' = block /\ first' = first
        BY <1>2, <2>3, <3>5
           DEF TaskStep, TaskFault, AcquireConnection, Resume, InsertBlock,
               StopAtEndBlock, StopAtLatestBlock, GetBlockData,
               GetBlockReward, GetLogs, FinishLogs, LogFilter, ReadTopicSize,
               AdmitBatch, Stall, SpinOnEmptyTopic, ChooseNextPartition,
               ChooseLowestScorePartition, StoreBatch, CountBatch,
               SendTimesOut, CallRaises
      <4>2. /\ pc'[t] \in LoadedPcs \cup {"fetch"} => pc[t] \in LoadedPcs \cup {"fetch"}
            /\ pc'[t] # "resume"
            /\ \/ outcome'[t] = outcome[t]
               \/ outcome'[t] \in {"ok", "not_implemented", "error"}
               \/ outcome'[t] = "attribute_error" /\ pc[t] = "resume"
        BY <1>0, <1>2, <2>3, <3>5
           DEF TypeOK, TaskStep, TaskFault, AcquireConnection, Resume,
               InsertBlock, StopAtEndBlock, StopAtLatestBlock, GetBlockData,
               AfterBlockData, GetBlockReward, GetLogs, FinishLogs, LogFilter,
               ReadTopicSize, AdmitBatch, Stall, SpinOnEmptyTopic,
               ChooseNextPartition, ChooseLowestScorePartition, StoreBatch,
               CountBatch, AfterChunk, SendTimesOut, AfterTimeout, AfterBatch,
               CallRaises, Goto, Finish, LoadedPcs
      <4>3. Blamed(t)'
        BY <1>0, <2>1, <2>3, <4>1, <4>2 DEF BlockTasks
      <4>. QED BY <1>0, <3>1, <4>1, <4>2, <4>3
    <3>. QED BY <3>2, <3>3, <3>4, <3>5
  <2>. QED BY <2>2, <2>3
<1>3. CASE Exit \/ Crash
  BY <1>0, <1>3 DEF Exit, Crash, taskVars, storeVars, BlockTasks
<1>4. CASE Restart
  BY <1>4 DEF Restart, StartPc
<1>5. ASSUME NEW p \in Partitions, ConsumerDecrements(p)
      PROVE  Explained(t)' /\ Blamed(t)' /\ Foreseen(t)'
  BY <1>0, <1>5 DEF ConsumerDecrements, taskVars, BlockTasks
<1>6. CASE UNCHANGED vars
  BY <1>0, <1>6 DEF vars, taskVars, storeVars, BlockTasks
<1>. QED
  BY <1>2, <1>3, <1>4, <1>5, <1>6 DEF Next, ProcessStep, Terminated

(* A task fails of itself only for the three reasons the code gives: no    *)
(* end block, no start block on a database with rows, or a first query     *)
(* that finds the connection in use (utils/__init__.py:22,                 *)
(* block_explorer.py:56, db/manager.py:356).                               *)
THEOREM FailuresAreExplained == Spec => []FailuresExplained
<1>1. Init => FailuresInv /\ SurvivorInv /\ ConnectionExclusive
  BY ProducerAssumption
     DEF Init, InitTasks, StartPc, FailuresInv, FailuresExplained, SurvivorInv,
         BlockTasks, BlockModes, ConnectionExclusive
<1>2. FailuresInv => FailuresExplained
  BY DEF FailuresInv
<1>3. SafetyInv => TypeInv
  BY DEF SafetyInv
<1>. QED
  BY <1>1, <1>2, <1>3, InitSafetyInv, NextSafetyInv, NextConnectionExclusive,
     NextSurvivor, NextFailures, PTL DEF Spec

-----------------------------------------------------------------------------
(* The producer implements the abstract feed of module BlockFeed: every    *)
(* step of Producer is a step of BlockFeed or leaves it unchanged.         *)

MappedStatus == [t \in Tasks |-> FeedStatus(t)]

LEMMA InitFeed == Init => Feed!Init
  BY DEF Init, InitTasks, Feed!Init, FeedStatus, Running

(* The messages of a block are in the feed when they are accounted for.    *)
LEMMA AccountedInFeed ==
    ASSUME NEW t, NEW b, Accounted(t, b)
    PROVE  Feed!Messages(t, b) \subseteq published \cup givenUp
  BY DEF Accounted, Feed!Messages

(* A task that ends, ends in the feed as well.                             *)
LEMMA FinishFeed ==
    ASSUME TypeOK, NEW t \in Tasks, NEW result, pc[t] # "done", Finish(t, result),
           Progress(t), result # "running"
    PROVE  /\ MappedStatus[t] = "working"
           /\ MappedStatus' = [MappedStatus EXCEPT ![t] =
                                  IF result = "ok" THEN "ok" ELSE "failed"]
  BY DEF MappedStatus, FeedStatus, Finish, Progress, TypeOK

(* Messages of the current block are offered to the feed.                  *)
LEMMA OfferFeed ==
    ASSUME NEW t \in Tasks, Progress(t), pc[t] # "done",
           block[t] \in BlocksFrom(t, first[t]),
           NEW S, S \subseteq Feed!Messages(t, block[t]),
           published' \cup givenUp' = published \cup givenUp \cup S,
           UNCHANGED <<first, block, outcome, exitCode>>
    PROVE  Feed!Offer(t) \/ UNCHANGED Feed!vars
  BY DEF Feed!Offer, Feed!vars, FeedStatus, Progress

LEMMA TaskStepFeed ==
    ASSUME RangeInv, NEW t \in Tasks, TaskStep(t) \/ TaskFault(t)
    PROVE  [Feed!Next]_Feed!vars
<1>. SafetyInv
  BY DEF RangeInv
<1>. USE DEF SafetyInv, TypeInv
<1>0. exitCode = Running /\ exitCode' = Running /\ Progress(t)
  BY TaskFrame
<1>00. ASSUME Feed!Position(t) \/ Feed!Offer(t) \/ Feed!Complete(t)
                 \/ Feed!Succeed(t) \/ Feed!Fail(t)
       PROVE  Feed!Next
  BY <1>0, <1>00 DEF Feed!Next, Running
<1>1. CASE AcquireConnection(t)
  BY <1>0, <1>1 DEF AcquireConnection, Goto, Feed!vars, FeedStatus, procVars,
                    history
<1>2. CASE InsertBlock(t)
  BY <1>0, <1>2 DEF InsertBlock, Released, Goto, Feed!vars, FeedStatus,
                    procVars, history
<1>3. CASE GetBlockData(t)
  BY <1>0, <1>3 DEF GetBlockData, AfterBlockData, Goto, Feed!vars, FeedStatus,
                    procVars, history
<1>4. CASE GetBlockReward(t)
  BY <1>0, <1>4 DEF GetBlockReward, Goto, Feed!vars, FeedStatus, procVars,
                    history
<1>5. CASE GetLogs(t)
  BY <1>0, <1>5 DEF GetLogs, Goto, Feed!vars, FeedStatus, procVars, history
<1>6. CASE ReadTopicSize(t)
  BY <1>0, <1>6 DEF ReadTopicSize, Goto, Feed!vars, FeedStatus, procVars,
                    history
<1>7. CASE AdmitBatch(t)
  BY <1>0, <1>7 DEF AdmitBatch, HasSpace, Goto, Feed!vars, FeedStatus,
                    procVars, history
<1>8. CASE Stall(t)
  BY <1>0, <1>8 DEF Stall, Goto, Feed!vars, FeedStatus, procVars, history
<1>9. CASE SpinOnEmptyTopic(t)
  BY <1>0, <1>9 DEF SpinOnEmptyTopic, Goto, Feed!vars, FeedStatus, procVars,
                    history
<1>10. CASE CountBatch(t)
  BY <1>0, <1>10 DEF CountBatch, AfterChunk, Appended, Goto, Feed!vars,
                     FeedStatus, procVars, history
<1>11. CASE ConnectionBusy(t)
  <2>1. /\ Finish(t, "interface_error") /\ pc[t] # "done"
        /\ UNCHANGED <<first, block, history>>
    BY <1>11 DEF ConnectionBusy, Awaiting
  <2>2. Feed!Fail(t)
    BY <1>0, <2>1, FinishFeed DEF Feed!Fail, MappedStatus, history, Running
  <2>. QED BY <1>00, <2>2
<1>12. CASE Resume(t)
  <2>1. /\ Finish(t, "attribute_error") /\ pc[t] # "done"
        /\ UNCHANGED <<first, block, history>>
    BY <1>12 DEF Resume, Awaiting
  <2>2. Feed!Fail(t)
    BY <1>0, <2>1, FinishFeed DEF Feed!Fail, MappedStatus, history, Running
  <2>. QED BY <1>00, <2>2
<1>13. CASE LogFilter(t)
  <2>1. /\ Finish(t, "not_implemented") /\ pc[t] # "done"
        /\ UNCHANGED <<first, block, history>>
    BY <1>13 DEF LogFilter, Awaiting
  <2>2. Feed!Fail(t)
    BY <1>0, <2>1, FinishFeed DEF Feed!Fail, MappedStatus, history, Running
  <2>. QED BY <1>00, <2>2
<1>14. CASE CallRaises(t)
  <2>1. /\ Finish(t, "error") /\ pc[t] # "done"
        /\ UNCHANGED <<first, block, history>>
    BY <1>14 DEF CallRaises, Released, Awaiting
  <2>2. Feed!Fail(t)
    BY <1>0, <2>1, FinishFeed DEF Feed!Fail, MappedStatus, history, Running
  <2>. QED BY <1>00, <2>2
<1>15. CASE StopAtEndBlock(t)
  <2>1. /\ Finish(t, "ok") /\ pc[t] # "done"
        /\ UNCHANGED <<first, block, history>>
    BY <1>15 DEF StopAtEndBlock
  <2>2. \A b \in Workload(t) : Accounted(t, b)
    <3>1. Progress(t)' /\ outcome'[t] = "ok"
      BY <2>1, NextProgress DEF Finish, TypeOK
    <3>2. Workload(t)' = Workload(t) /\ \A b : Accounted(t, b)' <=> Accounted(t, b)
      BY <2>1 DEF Workload, BlocksFrom, Accounted, SizeOf, history
    <3>. QED BY <3>1, <3>2 DEF Progress
  <2>3. \A b \in BlocksFrom(t, first[t]) :
           Feed!Messages(t, b) \subseteq published \cup givenUp
    BY <2>2, AccountedInFeed DEF Workload
  <2>4. Feed!Succeed(t)
    BY <1>0, <2>1, <2>3, FinishFeed DEF Feed!Succeed, MappedStatus, history,
                                        Running
  <2>. QED BY <1>00, <2>4
<1>16. CASE StopAtLatestBlock(t)
  <2>1. /\ Finish(t, "ok") /\ pc[t] # "done"
        /\ UNCHANGED <<first, block, history>>
    BY <1>16 DEF StopAtLatestBlock
  <2>2. \A b \in Workload(t) : Accounted(t, b)
    <3>1. Progress(t)' /\ outcome'[t] = "ok"
      BY <2>1, NextProgress DEF Finish, TypeOK
    <3>2. Workload(t)' = Workload(t) /\ \A b : Accounted(t, b)' <=> Accounted(t, b)
      BY <2>1 DEF Workload, BlocksFrom, Accounted, SizeOf, history
    <3>. QED BY <3>1, <3>2 DEF Progress
  <2>3. \A b \in BlocksFrom(t, first[t]) :
           Feed!Messages(t, b) \subseteq published \cup givenUp
    BY <2>2, AccountedInFeed DEF Workload
  <2>4. Feed!Succeed(t)
    BY <1>0, <2>1, <2>3, FinishFeed DEF Feed!Succeed, MappedStatus, history,
                                        Running
  <2>. QED BY <1>00, <2>4
<1>17. CASE FinishLogs(t)
  <2>1. /\ Finish(t, "ok") /\ pc[t] # "done"
        /\ UNCHANGED <<first, block, history>>
    BY <1>17 DEF FinishLogs
  <2>2. \A b \in Workload(t) : Accounted(t, b)
    <3>1. Progress(t)' /\ outcome'[t] = "ok"
      BY <2>1, NextProgress DEF Finish, TypeOK
    <3>2. Workload(t)' = Workload(t) /\ \A b : Accounted(t, b)' <=> Accounted(t, b)
      BY <2>1 DEF Workload, BlocksFrom, Accounted, SizeOf, history
    <3>. QED BY <3>1, <3>2 DEF Progress
  <2>3. \A b \in BlocksFrom(t, first[t]) :
           Feed!Messages(t, b) \subseteq published \cup givenUp
    BY <2>2, AccountedInFeed DEF Workload
  <2>4. Feed!Succeed(t)
    BY <1>0, <2>1, <2>3, FinishFeed DEF Feed!Succeed, MappedStatus, history,
                                        Running
  <2>. QED BY <1>00, <2>4
<1>18. CASE DecideBounds(t)
  <2>1. block[t] = 0 /\ UNCHANGED <<outcome, exitCode, history>>
    BY <1>18 DEF DecideBounds, Released, Goto, WellPlaced
  <2>2. CASE UNCHANGED <<first, block>>
    BY <2>1, <2>2 DEF Feed!vars, FeedStatus, history
  <2>3. ASSUME NEW b \in Nat, first' = [first EXCEPT ![t] = b],
               block' = [block EXCEPT ![t] = b]
        PROVE  Feed!Position(t)
    BY <2>1, <2>3 DEF Feed!Position, FeedStatus, history, TypeOK
  <2>4. \/ UNCHANGED <<first, block>>
        \/ \E b \in Nat : /\ first' = [first EXCEPT ![t] = b]
                          /\ block' = [block EXCEPT ![t] = b]
    BY <1>18, ProducerAssumption DEF DecideBounds, FirstBlock, Released
  <2>. QED BY <1>00, <2>2, <2>3, <2>4
<1>19. CASE AdvanceBlock(t)
  <2>1. /\ Feed!Messages(t, block[t]) \subseteq published \cup givenUp
        /\ UNCHANGED <<first, exitCode, history>>
        /\ block' = [block EXCEPT ![t] = @ + 1]
    BY <1>0, <1>19, AccountedInFeed DEF AdvanceBlock, Progress, procVars
  <2>2. MappedStatus[t] = "working"
    BY <1>0, <1>19 DEF AdvanceBlock, Progress, MappedStatus, FeedStatus
  <2>3. \/ MappedStatus' = MappedStatus
        \/ MappedStatus' = [MappedStatus EXCEPT ![t] = "failed"]
    <3>1. CASE Goto(t, "fetch")
      BY <3>1 DEF Goto, MappedStatus, FeedStatus
    <3>2. CASE Finish(t, "type_error")
      BY <1>0, <1>19, <3>2, FinishFeed DEF AdvanceBlock
    <3>. QED BY <1>19, <3>1, <3>2 DEF AdvanceBlock
  <2>4. Feed!Complete(t)
    BY <2>1, <2>2, <2>3 DEF Feed!Complete, MappedStatus, history
  <2>. QED BY <1>00, <2>4
<1>20. CASE ChooseNextPartition(t)
  <2>1. /\ givenUp' = givenUp \cup Messages(t, AppendedEnd(t), ChunkEnd(t))
        /\ UNCHANGED <<first, block, outcome, exitCode, published>>
        /\ pc[t] \in SendingPcs
    BY <1>20 DEF ChooseNextPartition, NextPartition, LogOverflow, Goto,
                 SendingPcs, procVars
  <2>2. Messages(t, AppendedEnd(t), ChunkEnd(t)) \subseteq Feed!Messages(t, block[t])
    BY <2>1, ChunkBounds DEF Messages, Feed!Messages, Size
  <2>3. /\ published' \cup givenUp' =
               published \cup givenUp \cup Messages(t, AppendedEnd(t), ChunkEnd(t))
        /\ pc[t] # "done"
    BY <2>1 DEF SendingPcs
  <2>4. Feed!Offer(t) \/ UNCHANGED Feed!vars
    BY <1>0, <2>1, <2>2, <2>3, SendsInRange, OfferFeed
  <2>. QED BY <1>00, <2>4
<1>21. CASE ChooseLowestScorePartition(t)
  <2>1. /\ givenUp' = givenUp \cup Messages(t, AppendedEnd(t), ChunkEnd(t))
        /\ UNCHANGED <<first, block, outcome, exitCode, published>>
        /\ pc[t] \in SendingPcs
    BY <1>21 DEF ChooseLowestScorePartition, LogOverflow, Goto, SendingPcs,
                 procVars
  <2>2. Messages(t, AppendedEnd(t), ChunkEnd(t)) \subseteq Feed!Messages(t, block[t])
    BY <2>1, ChunkBounds DEF Messages, Feed!Messages, Size
  <2>3. /\ published' \cup givenUp' =
               published \cup givenUp \cup Messages(t, AppendedEnd(t), ChunkEnd(t))
        /\ pc[t] # "done"
    BY <2>1 DEF SendingPcs
  <2>4. Feed!Offer(t) \/ UNCHANGED Feed!vars
    BY <1>0, <2>1, <2>2, <2>3, SendsInRange, OfferFeed
  <2>. QED BY <1>00, <2>4
<1>22. CASE StoreBatch(t)
  <2>1. /\ published' = published \cup Messages(t, sent[t], AppendedEnd(t))
        /\ UNCHANGED <<first, block, outcome, exitCode, givenUp>>
        /\ pc[t] \in SendingPcs
    BY <1>22 DEF StoreBatch, Goto, SendingPcs, procVars
  <2>2. Messages(t, sent[t], AppendedEnd(t)) \subseteq Feed!Messages(t, block[t])
    BY <2>1, ChunkBounds DEF Messages, Feed!Messages, Size
  <2>3. /\ published' \cup givenUp' =
               published \cup givenUp \cup Messages(t, sent[t], AppendedEnd(t))
        /\ pc[t] # "done"
    BY <2>1 DEF SendingPcs
  <2>4. Feed!Offer(t) \/ UNCHANGED Feed!vars
    BY <1>0, <2>1, <2>2, <2>3, SendsInRange, OfferFeed
  <2>. QED BY <1>00, <2>4
<1>23. CASE SendTimesOut(t)
  <2>1. /\ givenUp' = givenUp \cup Messages(t, sent[t], Size(t))
        /\ UNCHANGED <<first, block, outcome, exitCode, published>>
        /\ pc[t] \in SendingPcs
    BY <1>23 DEF SendTimesOut, AfterTimeout, Goto, SendingPcs, procVars
  <2>2. Messages(t, sent[t], Size(t)) \subseteq Feed!Messages(t, block[t])
    BY <2>1, ChunkBounds DEF Messages, Feed!Messages, Size
  <2>3. /\ published' \cup givenUp' =
               published \cup givenUp \cup Messages(t, sent[t], Size(t))
        /\ pc[t] # "done"
    BY <2>1 DEF SendingPcs
  <2>4. Feed!Offer(t) \/ UNCHANGED Feed!vars
    BY <1>0, <2>1, <2>2, <2>3, SendsInRange, OfferFeed
  <2>. QED BY <1>00, <2>4
<1>. QED
  BY <1>1, <1>2, <1>3, <1>4, <1>5, <1>6, <1>7, <1>8, <1>9, <1>10, <1>11,
     <1>12, <1>13, <1>14, <1>15, <1>16, <1>17, <1>18, <1>19, <1>20, <1>21,
     <1>22, <1>23
  DEF TaskStep, TaskFault

LEMMA StepFeed == RangeInv /\ [Next]_vars => [Feed!Next]_Feed!vars
<1>. SUFFICES ASSUME RangeInv, [Next]_vars PROVE [Feed!Next]_Feed!vars
  OBVIOUS
<1>1. CASE Exit
  <2>1. UNCHANGED <<first, block, outcome, history>>
    BY <1>1 DEF Exit, taskVars
  <2>2. CASE \A t \in Tasks : outcome[t] = "ok"
    BY <1>1, <2>1, <2>2 DEF Exit, ExitStatus, Feed!Next, Feed!Exit, FeedStatus,
                            history
  <2>3. CASE ~\A t \in Tasks : outcome[t] = "ok"
    BY <1>1, <2>1, <2>3 DEF Exit, ExitStatus, Feed!vars, FeedStatus, history,
                            Running
  <2>. QED BY <2>2, <2>3
<1>2. CASE Crash
  BY <1>2 DEF Crash, Feed!vars, FeedStatus, taskVars, history, Running
<1>3. CASE Restart
  BY <1>3 DEF Restart, Feed!Next, Feed!Restart, FeedStatus, history, Running
<1>4. ASSUME NEW p \in Partitions, ConsumerDecrements(p) PROVE UNCHANGED Feed!vars
  BY <1>4 DEF ConsumerDecrements, Feed!vars, FeedStatus, taskVars, procVars,
              history
<1>5. CASE UNCHANGED vars
  BY <1>5 DEF vars, Feed!vars, FeedStatus, taskVars, procVars, history
<1>. QED
  BY <1>1, <1>2, <1>3, <1>4, <1>5, TaskStepFeed DEF Next, ProcessStep,
                                                    Terminated

(* The producer implements the abstract feed: it leaves a block only when  *)
(* all of it is accounted for, in order, and succeeds only at the end      *)
(* (producer.py:92-171, manager.py:198-270).                               *)
THEOREM ProducerImplementsFeed == Spec => ImplementsFeed
  BY InitFeed, StepFeed, RangeInvariant, PTL DEF Spec, ImplementsFeed,
                                                  Feed!Spec
=============================================================================
