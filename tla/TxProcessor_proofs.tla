------------------------- MODULE TxProcessor_proofs -------------------------
(***************************************************************************)
(* Proofs about the transaction processors of module TxProcessor, for any  *)
(* number of workers, messages and deliveries, and any transactions.       *)
(***************************************************************************)
EXTENDS TxProcessor, TransactionEvents_proofs

-----------------------------------------------------------------------------
LEMMA ReceiptType ==
    ASSUME NEW t \in Transactions
    PROVE  Len(t.receipt) \in Nat /\ DOMAIN t.receipt = Indices(t)
<1>1. t.receipt \in Seq(ToSet(t.receipt))
  BY TxAssumption
<1>. QED BY <1>1, LenProperties DEF Indices

(* The events of a contract point to its own logs. *)
OwnLogs(a, t) == {i \in Indices(t) : t.receipt[i].address = a}

LEMMA EventsForType ==
    ASSUME NEW t \in Transactions, NEW a
    PROVE  EventsFor(a, t) \in Seq([name : EventKinds, index : OwnLogs(a, t)])
<1>. DEFINE S == Seen(t.receipt)
            R == {e \in S : Relevant(a, t.receipt, Events[a], e)}
<1>1. EventsOf(Category[a], t.receipt) \in Seq(S)
  BY ReceiptType, EventsOfType
<1>. HIDE DEF S
<1>2. RelevantIn(EventsOf(Category[a], t.receipt), a, t.receipt, Events[a]) \in Seq(R)
  BY <1>1, SelectRelevant
<1>3. R \subseteq [name : EventKinds, index : OwnLogs(a, t)]
  BY DEF S, Seen, OwnLogs, Indices, Relevant
<1>4. EventsFor(a, t) = RelevantIn(EventsOf(Category[a], t.receipt), a, t.receipt, Events[a])
  BY DEF EventsFor, ContractEvents, RelevantIn
<1>. DEFINE T == [name : EventKinds, index : OwnLogs(a, t)]
<1>. HIDE DEF R, T
<1>5. EventsFor(a, t) \in Seq(R)
  BY <1>2, <1>4
<1>6. R \subseteq T
  BY <1>3 DEF T
<1>7. EventsFor(a, t) \in Seq(T)
  BY <1>5, <1>6, SeqMonotonic
<1>. QED BY <1>7 DEF T

LEMMA EventIndicesType ==
    ASSUME NEW t \in Transactions, NEW a
    PROVE  EventIndices(a, t) \subseteq OwnLogs(a, t)
<1>. DEFINE s == EventsFor(a, t)
<1>1. s \in Seq([name : EventKinds, index : OwnLogs(a, t)])
  BY EventsForType
<1>. HIDE DEF s
<1>2. \A i \in DOMAIN s : s[i] \in [name : EventKinds, index : OwnLogs(a, t)]
  BY <1>1, LenProperties, ElementOfSeq
<1>. QED BY <1>2 DEF EventIndices, ToSet, s

(* The rows of a contract form a sequence, of rows of three kinds. *)
LEMMA RowsType ==
    ASSUME NEW t \in Transactions, NEW a
    PROVE  /\ Rows(a, t) \in Seq(ToSet(Rows(a, t)))
           /\ ToSet(Rows(a, t)) \subseteq ToSet(NftRows(a, t)) \cup ToSet(SupplyRows(a, t))
                                            \cup ToSet(LiquidityRows(a, t))
<1>1. \E S : NftRows(a, t) \in Seq(S)
  <2>. DEFINE s == NamedIn(EventsFor(a, t), "TransferNonFungibleEvent")
              row(k) == Row("nft_transfer", NoAddress, s[k].index, <<>>)
  <2>1. \E S : s \in Seq(S)
    BY EventsForType, SelectNamed
  <2>. HIDE DEF s
  <2>2. Len(s) \in Nat
    BY <2>1, LenProperties
  <2>. HIDE DEF row
  <2>3. [k \in 1 .. Len(s) |-> row(k)] \in Seq({row(k) : k \in 1 .. Len(s)})
    BY <2>2
  <2>. QED BY <2>3 DEF NftRows, NamedIn, s, row
<1>2. \E S : SupplyRows(a, t) \in Seq(S)
  <2>1. ASSUME NEW row PROVE <<row>> \in Seq({row}) /\ <<>> \in Seq({row})
    BY OneTuple, NoTuple
  <2>. QED BY <2>1 DEF SupplyRows
<1>3. \E S : LiquidityRows(a, t) \in Seq(S)
  <2>1. ASSUME NEW row PROVE <<row>> \in Seq({row}) /\ <<>> \in Seq({row})
    BY OneTuple, NoTuple
  <2>. QED BY <2>1 DEF LiquidityRows
<1>4. CreationRows(Category[a]) \in Seq({})
  BY NoTuple DEF CreationRows
<1>. DEFINE R == ToSet(NftRows(a, t)) \cup ToSet(SupplyRows(a, t))
                     \cup ToSet(LiquidityRows(a, t))
<1>5. Rows(a, t) \in Seq(R)
  <2>1. /\ NftRows(a, t) \in Seq(ToSet(NftRows(a, t)))
        /\ SupplyRows(a, t) \in Seq(ToSet(SupplyRows(a, t)))
        /\ LiquidityRows(a, t) \in Seq(ToSet(LiquidityRows(a, t)))
    BY <1>1, <1>2, <1>3, SequenceOfItsElements
  <2>2. CreationRows(Category[a]) \o NftRows(a, t) \in Seq({} \cup ToSet(NftRows(a, t)))
    BY <1>4, <2>1, ConcatElements
  <2>3. CreationRows(Category[a]) \o NftRows(a, t) \o SupplyRows(a, t)
            \in Seq({} \cup ToSet(NftRows(a, t)) \cup ToSet(SupplyRows(a, t)))
    BY <2>1, <2>2, ConcatElements
  <2>4. Rows(a, t) \in Seq({} \cup ToSet(NftRows(a, t)) \cup ToSet(SupplyRows(a, t))
                           \cup ToSet(LiquidityRows(a, t)))
    BY <2>1, <2>3, ConcatElements DEF Rows
  <2>5. {} \cup ToSet(NftRows(a, t)) = ToSet(NftRows(a, t))
    OBVIOUS
  <2>. QED BY <2>4, <2>5
<1>. DEFINE s == Rows(a, t)
<1>. HIDE DEF R, s
<1>6. DOMAIN s = 1 .. Len(s) /\ \A k \in 1 .. Len(s) : s[k] \in R
  BY <1>5, LenProperties, ElementOfSeq DEF s
<1>7. ToSet(s) \subseteq R
  BY <1>6 DEF ToSet
<1>8. s \in Seq(ToSet(s))
  BY <1>5, SequenceOfItsElements DEF s
<1>. QED BY <1>7, <1>8 DEF R, s

(* Only configured contracts are handled. *)
LEMMA HandledContracts ==
    ASSUME NEW t \in Transactions PROVE Handled(t) \subseteq Contracts
  BY DEF Handled

(* What is found for a handled contract *)
AllRows == UNION {UNION {ToSet(Rows(a, t)) : a \in Contracts} : t \in Transactions}

LEMMA FoundType ==
    ASSUME NEW t \in Transactions, NEW a \in Handled(t)
    PROVE  /\ Found[t][a].rows \in Seq(AllRows)
           /\ Found[t][a].rows \in Seq(ToSet(Found[t][a].rows))
           /\ Found[t][a].indices \subseteq OwnLogs(a, t)
<1>1. Found[t][a].rows = Rows(a, t) /\ Found[t][a].indices = EventIndices(a, t)
  BY DEF Found
<1>2. ToSet(Rows(a, t)) \subseteq AllRows
  BY HandledContracts DEF AllRows
<1>3. Rows(a, t) \in Seq(AllRows)
  BY <1>2, RowsType, SeqMonotonic
<1>. QED BY <1>1, <1>3, RowsType, EventIndicesType

LEMMA MarkedType ==
    ASSUME NEW t \in Transactions
    PROVE  Marked(t) \subseteq {i \in Indices(t) : t.receipt[i].address \in Contracts}
  BY FoundType, HandledContracts DEF Marked, OwnLogs

-----------------------------------------------------------------------------
(* Types.  A worker handles contracts of its own transaction, and marks    *)
(* logs of its receipt.                                                    *)
WorkerType(w) ==
    /\ pc[w] \in {"idle", "transaction", "receipt"} => marked[w] = {}
    /\ pc[w] # "idle" => /\ tx[msg[w]] \in Transactions
                         /\ todo[w] \subseteq Handled(tx[msg[w]])
                         /\ marked[w] \subseteq Indices(tx[msg[w]])

TypeInv ==
    /\ TypeOK
    /\ writes \in [Workers -> Seq(AllRows)]
    /\ marked \in [Workers -> SUBSET Nat]
    /\ eventRows \in [Messages -> SUBSET AllRows]
    /\ logs \in [Messages -> SUBSET Nat]
    /\ \A w \in Workers : WorkerType(w)

LEMMA IndicesAreNumbers ==
    ASSUME NEW t \in Transactions PROVE Indices(t) \subseteq Nat
  BY ReceiptType DEF Indices

LEMMA InitTypeInv == Init => TypeInv
<1>. SUFFICES ASSUME Init PROVE TypeInv
  OBVIOUS
<1>1. writes \in [Workers -> Seq(AllRows)]
  BY NoTuple DEF Init
<1>2. deliveries \in [Messages -> 0 .. MaxDeliveries]
  BY TxAssumption DEF Init
<1>3. TypeOK
  BY <1>2, TxAssumption DEF Init, TypeOK
<1>. QED BY <1>1, <1>3 DEF Init, TypeInv, WorkerType

(* A busy worker has a message of a known transaction. *)
LEMMA BusyWorker ==
    ASSUME TypeInv, NEW w \in Workers, pc[w] # "idle"
    PROVE  /\ msg[w] \in Messages /\ tx[msg[w]] \in Transactions
           /\ todo[w] \subseteq Handled(tx[msg[w]])
           /\ marked[w] \subseteq Indices(tx[msg[w]])
  BY DEF TypeInv, TypeOK, WorkerType

(* A worker that leaves keeps nothing. *)
LEMMA LeaveType ==
    ASSUME TypeInv, NEW w \in Workers, Leave(w),
           UNCHANGED <<tx, retryLimit, eventRows, transactions, logs>>,
           deliveries' \in [Messages -> 0 .. MaxDeliveries],
           internals' \in [Messages -> Nat],
           completed' \subseteq Messages, abandoned' \subseteq Messages
    PROVE  TypeInv'
<1>1. writes' \in [Workers -> Seq(AllRows)]
  BY NoTuple DEF Leave, TypeInv
<1>2. TypeOK'
  BY DEF Leave, TypeInv, TypeOK
<1>3. \A v \in Workers : WorkerType(v)'
  BY DEF Leave, TypeInv, TypeOK, WorkerType
<1>. QED BY <1>1, <1>2, <1>3 DEF TypeInv, Leave

LEMMA EndType ==
    ASSUME TypeInv, NEW w \in Workers, pc[w] # "idle", Return(w) \/ Raise(w),
           UNCHANGED <<tx, retryLimit, eventRows, transactions, logs, deliveries>>,
           internals' \in [Messages -> Nat]
    PROVE  TypeInv'
<1>1. /\ msg[w] \in Messages /\ completed \subseteq Messages /\ abandoned \subseteq Messages
      /\ deliveries \in [Messages -> 0 .. MaxDeliveries]
  BY BusyWorker DEF TypeInv, TypeOK
<1>2. completed' \subseteq Messages /\ abandoned' \subseteq Messages /\ Leave(w)
  BY <1>1 DEF Return, Raise
<1>. QED BY <1>1, <1>2, LeaveType

LEMMA StepTypeInv == TypeInv /\ [Next]_vars => TypeInv'
<1>. SUFFICES ASSUME TypeInv, [Next]_vars PROVE TypeInv'
  OBVIOUS
<1>0. TypeOK
  BY DEF TypeInv
<1>1. ASSUME NEW w \in Workers, NEW m \in Messages, Deliver(w, m) PROVE TypeInv'
  <2>1. TypeOK'
    BY <1>0, <1>1, TxAssumption DEF Deliver, Goto, TypeOK, tables
  <2>2. \A v \in Workers : WorkerType(v)'
    BY <1>0, <1>1 DEF Deliver, Goto, TypeOK, TypeInv, WorkerType
  <2>. QED BY <1>1, <2>1, <2>2 DEF Deliver, TypeInv, tables
<1>2. ASSUME NEW w \in Workers, RequestTimesOut(w) PROVE TypeInv'
  <2>1. TypeOK'
    BY <1>0, <1>2, TxAssumption DEF RequestTimesOut, LastAttempt, TypeOK, tables, history
  <2>. QED BY <1>2, <2>1 DEF RequestTimesOut, TypeInv, WorkerType, tables
<1>3. ASSUME NEW w \in Workers, \/ RequestGivesUp(w) \/ NoRequest(w)
                                \/ SkipTransaction(w) \/ Fail(w)
      PROVE  TypeInv'
  BY <1>0, <1>3, EndType
  DEF RequestGivesUp, NoRequest, SkipTransaction, Fail, Requesting, EventsHandled,
      tables, TypeOK
<1>4. ASSUME NEW w \in Workers, GetTransactionData(w) PROVE TypeInv'
  <2>1. TypeOK'
    BY <1>0, <1>4 DEF GetTransactionData, Answered, Requesting, Goto, TypeOK, tables, history
  <2>. QED BY <1>0, <1>4, <2>1 DEF GetTransactionData, Goto, TypeInv, TypeOK,
                                   WorkerType, tables
<1>5. ASSUME NEW w \in Workers, GetReceiptData(w) PROVE TypeInv'
  <2>1. tx[msg[w]] \in Transactions /\ Handled(tx[msg[w]]) \subseteq Contracts
    BY <1>5, BusyWorker, HandledContracts DEF GetReceiptData
  <2>2. TypeOK'
    BY <1>0, <1>5, <2>1 DEF GetReceiptData, Answered, Requesting, Goto, TypeOK,
                            tables, history
  <2>3. \A v \in Workers : WorkerType(v)'
    BY <1>0, <1>5, <2>1 DEF GetReceiptData, Goto, TypeInv, TypeOK, WorkerType
  <2>. QED BY <1>5, <2>2, <2>3 DEF GetReceiptData, TypeInv, tables
<1>6. ASSUME NEW w \in Workers, NEW a \in Contracts, HandleTransactionEvents(w, a)
      PROVE  TypeInv'
  <2>. DEFINE t == tx[msg[w]]
  <2>1. t \in Transactions /\ a \in Handled(t) /\ todo[w] \subseteq Handled(t)
        /\ marked[w] \subseteq Indices(t)
    BY <1>6, BusyWorker DEF HandleTransactionEvents
  <2>2. /\ Found[t][a].rows \in Seq(AllRows)
        /\ Found[t][a].indices \subseteq Indices(t) /\ Indices(t) \subseteq Nat
    BY <2>1, FoundType, IndicesAreNumbers DEF OwnLogs
  <2>3. TypeOK'
    BY <1>0, <1>6, <2>2 DEF HandleTransactionEvents, TypeOK, TypeInv, tables, history
  <2>4. \A v \in Workers : WorkerType(v)'
    BY <1>0, <1>6, <2>1, <2>2 DEF HandleTransactionEvents, TypeInv, TypeOK, WorkerType
  <2>5. writes' \in [Workers -> Seq(AllRows)] /\ marked' \in [Workers -> SUBSET Nat]
    BY <1>6, <2>2 DEF HandleTransactionEvents, TypeInv
  <2>. QED BY <1>6, <2>3, <2>4, <2>5 DEF HandleTransactionEvents, TypeInv, tables
<1>7. ASSUME NEW w \in Workers, InsertEventRow(w) PROVE TypeInv'
  <2>1. msg[w] \in Messages
    BY <1>7, BusyWorker DEF InsertEventRow
  <2>2. Head(writes[w]) \in AllRows /\ Tail(writes[w]) \in Seq(AllRows)
    BY <1>7, HeadTailProperties DEF InsertEventRow, TypeInv
  <2>3. /\ writes' \in [Workers -> Seq(AllRows)]
        /\ eventRows' \in [Messages -> SUBSET AllRows]
    BY <1>7, <2>1, <2>2 DEF InsertEventRow, TypeInv, Insert
  <2>4. TypeOK'
    BY <1>0, <1>7, <2>3 DEF InsertEventRow, TypeOK, TypeInv, history
  <2>5. \A v \in Workers : WorkerType(v)'
    BY <1>7 DEF InsertEventRow, TypeInv, WorkerType
  <2>. QED BY <1>7, <2>3, <2>4, <2>5 DEF InsertEventRow, TypeInv
<1>8. ASSUME NEW w \in Workers, InsertTransaction(w) PROVE TypeInv'
  <2>1. msg[w] \in Messages
    BY <1>8, BusyWorker DEF InsertTransaction, EventsHandled
  <2>2. TypeOK'
    BY <1>0, <1>8, <2>1 DEF InsertTransaction, EventsHandled, AfterTransaction, Goto,
                            TypeOK, history
  <2>3. \A v \in Workers : WorkerType(v)'
    BY <1>0, <1>8 DEF InsertTransaction, EventsHandled, AfterTransaction, Goto, TypeInv,
                      TypeOK, WorkerType
  <2>. QED BY <1>8, <2>2, <2>3 DEF InsertTransaction, TypeInv
<1>9. ASSUME NEW w \in Workers, InsertTransactionLogs(w) PROVE TypeInv'
  <2>1. /\ msg[w] \in Messages /\ LogsToSave(tx[msg[w]], marked[w]) \subseteq Indices(tx[msg[w]])
        /\ Indices(tx[msg[w]]) \subseteq Nat
    BY <1>9, BusyWorker, IndicesAreNumbers DEF InsertTransactionLogs, LogsToSave
  <2>2. logs' \in [Messages -> SUBSET Nat]
    BY <1>9, <2>1 DEF InsertTransactionLogs, TypeInv
  <2>3. TypeOK'
    BY <1>0, <1>9, <2>1 DEF InsertTransactionLogs, Goto, TypeInv, TypeOK, history
  <2>4. \A v \in Workers : WorkerType(v)'
    BY <1>0, <1>9 DEF InsertTransactionLogs, Goto, TypeInv, TypeOK, WorkerType
  <2>. QED BY <1>9, <2>2, <2>3, <2>4 DEF InsertTransactionLogs, TypeInv
<1>10. ASSUME NEW w \in Workers, GetInternalTransactions(w) PROVE TypeInv'
  <2>1. CASE tx[msg[w]].traced
    <3>1. /\ pc' = [pc EXCEPT ![w] = "internals"] /\ attempt' = [attempt EXCEPT ![w] = 0]
          /\ pc[w] = "trace"
          /\ UNCHANGED <<tx, retryLimit, msg, todo, writes, marked, tables, history>>
      BY <1>10, <2>1 DEF GetInternalTransactions, Answered, Goto, history
    <3>2. TypeOK'
      BY <1>0, <3>1 DEF TypeOK, tables, history
    <3>3. \A v \in Workers : WorkerType(v)'
      BY <1>0, <3>1 DEF TypeInv, TypeOK, WorkerType
    <3>. QED BY <3>1, <3>2, <3>3 DEF TypeInv, tables
  <2>2. CASE ~tx[msg[w]].traced
    BY <1>0, <1>10, <2>2, EndType DEF GetInternalTransactions, tables, TypeOK
  <2>. QED BY <2>1, <2>2
<1>11. ASSUME NEW w \in Workers, InsertInternalTransactions(w) PROVE TypeInv'
  <2>1. msg[w] \in Messages
    BY <1>11, BusyWorker DEF InsertInternalTransactions
  <2>2. internals' \in [Messages -> Nat]
    BY <1>0, <1>11, <2>1 DEF InsertInternalTransactions, TypeOK
  <2>. QED BY <1>11, <2>2, EndType DEF InsertInternalTransactions
<1>12. CASE UNCHANGED vars
  BY <1>12 DEF vars, workerVars, tables, history, TypeInv, TypeOK, WorkerType
<1>. QED
  BY <1>1, <1>2, <1>3, <1>4, <1>5, <1>6, <1>7, <1>8, <1>9, <1>10, <1>11, <1>12
  DEF Next, Step, Terminated

LEMMA TypeInvariant == Spec => []TypeInv
  BY InitTypeInv, StepTypeInv, PTL DEF Spec

(* The variables of the processors keep their types: a busy worker has a   *)
(* message, events are handled in their own stage only, and the logs that  *)
(* are stored are logs of the receipt.                                     *)
THEOREM ProcessorTypeCorrect == Spec => []TypeOK
<1>1. TypeInv => TypeOK
  BY DEF TypeInv
<1>. QED BY <1>1, TypeInvariant, PTL

-----------------------------------------------------------------------------
(* What a worker has done so far is in the database, and what it has read  *)
(* of the events agrees with what every other worker reads of them.        *)
Task(w) == tx[msg[w]]
Done(w) == Handled(Task(w)) \ todo[w]

EventsStage(w) ==
    /\ marked[w] = UNION {Found[Task(w)][a].indices : a \in Done(w)}
    /\ Keys(ToSet(writes[w])) \subseteq Leaves[Task(w)].events
    /\ \A a \in Done(w) : Keys(ToSet(Found[Task(w)][a].rows)) \subseteq
                              Keys(eventRows[msg[w]]) \cup Keys(ToSet(writes[w]))

WorkInv(w) ==
    /\ pc[w] = "events" => EventsStage(w)
    /\ pc[w] \in {"logs", "trace", "internals"} =>
           marked[w] = Marked(Task(w)) /\ msg[w] \in transactions
    /\ pc[w] \in {"trace", "internals"} => logs[msg[w]] = Leaves[Task(w)].logs
    /\ pc[w] = "internals" => Task(w).traced

(* A transaction has its row only if it is to be saved and its events are  *)
(* there; its logs are there all or not at all; and when a callback has    *)
(* returned, everything is.                                                *)
RowsInv(m) ==
    /\ m \in transactions => /\ Leaves[tx[m]].saved
                             /\ Leaves[tx[m]].events \subseteq Keys(eventRows[m])
    /\ logs[m] # {} => m \in transactions /\ logs[m] = Leaves[tx[m]].logs
    /\ m \in completed =>
           /\ Leaves[tx[m]].events \subseteq Keys(eventRows[m])
           /\ Leaves[tx[m]].saved => m \in transactions /\ logs[m] = Leaves[tx[m]].logs
           /\ Leaves[tx[m]].saved /\ tx[m].traced => internals[m] >= 1

StoreInv ==
    /\ \A w \in Workers : WorkInv(w)
    /\ \A m \in Messages : RowsInv(m)

LEMMA LeavesMeaning ==
    ASSUME NEW t \in Transactions
    PROVE  /\ Leaves[t].events = UNION {Keys(ToSet(Found[t][a].rows)) : a \in Handled(t)}
           /\ Leaves[t].saved = ShouldSave(t, Marked(t))
           /\ Leaves[t].logs = LogsToSave(t, Marked(t))
  BY DEF Leaves

LEMMA InsertKeys == \A rows, row : Keys(Insert(rows, row)) = Keys(rows) \cup {row.key}
  BY DEF Insert, Keys

LEMMA HeadTailKeys ==
    ASSUME NEW S, NEW s \in Seq(S), s # <<>>
    PROVE  Keys(ToSet(s)) = {Head(s).key} \cup Keys(ToSet(Tail(s)))
<1>1. /\ Len(s) \in Nat \ {0} /\ DOMAIN s = 1 .. Len(s)
      /\ Tail(s) \in Seq(S) /\ Len(Tail(s)) = Len(s) - 1
      /\ DOMAIN Tail(s) = 1 .. Len(Tail(s))
      /\ \A i \in 1 .. Len(Tail(s)) : Tail(s)[i] = s[i + 1]
  BY LenProperties, EmptySeq, HeadTailProperties
<1>2. Head(s) = s[1] /\ 1 \in DOMAIN s
  BY <1>1
<1>3. ASSUME NEW i \in DOMAIN s, i # 1 PROVE s[i] \in ToSet(Tail(s))
  <2>1. i - 1 \in DOMAIN Tail(s) /\ Tail(s)[i - 1] = s[i]
    BY <1>1, <1>3
  <2>. QED BY <2>1 DEF ToSet
<1>4. ASSUME NEW i \in DOMAIN Tail(s) PROVE Tail(s)[i] \in ToSet(s)
  <2>1. i + 1 \in DOMAIN s /\ Tail(s)[i] = s[i + 1]
    BY <1>1
  <2>. QED BY <2>1 DEF ToSet
<1>5. ToSet(s) = {Head(s)} \cup ToSet(Tail(s))
  BY <1>2, <1>3, <1>4 DEF ToSet
<1>. QED BY <1>5 DEF Keys

LEMMA NoKeys == Keys(ToSet(<<>>)) = {}
  BY DEF Keys, ToSet

(* When the events are handled, the worker has marked what it should, and  *)
(* all rows are there.                                                     *)
LEMMA EventsAreThere ==
    ASSUME TypeInv, NEW w \in Workers, WorkInv(w), EventsHandled(w)
    PROVE  /\ marked[w] = Marked(Task(w))
           /\ Leaves[Task(w)].events \subseteq Keys(eventRows[msg[w]])
           /\ Leaves[Task(w)].saved = ShouldSave(Task(w), marked[w])
<1>1. Task(w) \in Transactions
  BY BusyWorker DEF EventsHandled, Task
<1>2. EventsStage(w) /\ Done(w) = Handled(Task(w)) /\ Keys(ToSet(writes[w])) = {}
  BY NoKeys DEF EventsHandled, WorkInv, Done
<1>3. marked[w] = Marked(Task(w))
  BY <1>2 DEF EventsStage, Marked
<1>4. Leaves[Task(w)].saved = ShouldSave(Task(w), marked[w])
  BY <1>1, <1>3, LeavesMeaning
<1>5. \A a \in Handled(Task(w)) :
         Keys(ToSet(Found[Task(w)][a].rows)) \subseteq Keys(eventRows[msg[w]])
  BY <1>2 DEF EventsStage
<1>6. Leaves[Task(w)].events \subseteq Keys(eventRows[msg[w]])
  BY <1>1, <1>5, LeavesMeaning
<1>. QED BY <1>3, <1>4, <1>6

(* The logs a worker stores are those that every worker stores. *)
LEMMA SameLogs ==
    ASSUME TypeInv, StoreInv, NEW w \in Workers, InsertTransactionLogs(w)
    PROVE  logs'= [logs EXCEPT ![msg[w]] = Leaves[tx[msg[w]]].logs]
<1>1. msg[w] \in Messages /\ Task(w) \in Transactions
  BY BusyWorker DEF InsertTransactionLogs, Task
<1>2. LogsToSave(Task(w), marked[w]) = Leaves[Task(w)].logs
  BY <1>1, LeavesMeaning DEF InsertTransactionLogs, StoreInv, WorkInv
<1>3. logs[msg[w]] \cup Leaves[Task(w)].logs = Leaves[Task(w)].logs
  BY <1>1 DEF StoreInv, RowsInv, Task
<1>. QED BY <1>2, <1>3 DEF InsertTransactionLogs, Task

(* What the tables hold is never taken back. *)
Growing(m) ==
    /\ Keys(eventRows[m]) \subseteq Keys(eventRows'[m])
    /\ m \in transactions => m \in transactions'
    /\ logs[m] = Leaves[tx[m]].logs => logs'[m] = logs[m]
    /\ internals[m] <= internals'[m]
    /\ tx' = tx

LEMMA StepGrows ==
    ASSUME TypeInv, StoreInv, [Next]_vars, NEW m \in Messages
    PROVE  Growing(m)
<1>0. TypeOK
  BY DEF TypeInv
<1>1. CASE UNCHANGED <<tx, tables>>
  BY <1>0, <1>1 DEF Growing, tables, TypeOK
<1>2. ASSUME NEW w \in Workers, InsertEventRow(w) PROVE Growing(m)
  <2>1. Keys(eventRows[m]) \subseteq Keys(eventRows'[m])
    <3>1. eventRows' = [eventRows EXCEPT ![msg[w]] = Insert(@, Head(writes[w]))]
      BY <1>2 DEF InsertEventRow
    <3>2. eventRows'[m] = eventRows[m]
            \/ eventRows'[m] = Insert(eventRows[m], Head(writes[w]))
      BY <3>1 DEF TypeInv
    <3>. QED BY <3>2, InsertKeys
  <2>. QED BY <1>0, <1>2, <2>1 DEF InsertEventRow, Growing, TypeOK
<1>3. ASSUME NEW w \in Workers, InsertTransaction(w) PROVE Growing(m)
  BY <1>0, <1>3 DEF InsertTransaction, Growing, TypeOK
<1>4. ASSUME NEW w \in Workers, InsertTransactionLogs(w) PROVE Growing(m)
  <2>1. logs' = [logs EXCEPT ![msg[w]] = Leaves[tx[msg[w]]].logs]
    BY <1>4, SameLogs
  <2>2. logs[m] = Leaves[tx[m]].logs => logs'[m] = logs[m]
    BY <2>1 DEF TypeInv
  <2>. QED BY <1>0, <1>4, <2>2 DEF InsertTransactionLogs, Growing, TypeOK
<1>5. ASSUME NEW w \in Workers, InsertInternalTransactions(w) PROVE Growing(m)
  BY <1>0, <1>5 DEF InsertInternalTransactions, Growing, TypeOK
<1>6. CASE \E w \in Workers :
              \/ \E n \in Messages : Deliver(w, n)
              \/ RequestTimesOut(w) \/ RequestGivesUp(w) \/ NoRequest(w)
              \/ GetTransactionData(w) \/ GetReceiptData(w)
              \/ \E a \in Contracts : HandleTransactionEvents(w, a)
              \/ SkipTransaction(w) \/ GetInternalTransactions(w) \/ Fail(w)
  BY <1>1, <1>6 DEF Deliver, RequestTimesOut, RequestGivesUp, NoRequest,
      GetTransactionData, GetReceiptData, HandleTransactionEvents, SkipTransaction,
      GetInternalTransactions, Fail
<1>7. CASE UNCHANGED vars
  BY <1>1, <1>7 DEF vars
<1>. QED BY <1>2, <1>3, <1>4, <1>5, <1>6, <1>7 DEF Next, Step, Terminated

LEMMA OthersUnchanged ==
    ASSUME TypeInv, NEW w \in Workers, NEW v \in Workers \ {w},
           \/ Step(w) \/ Fail(w) \/ \E m \in Messages : Deliver(w, m)
    PROVE  /\ pc'[v] = pc[v] /\ msg'[v] = msg[v] /\ todo'[v] = todo[v]
           /\ writes'[v] = writes[v] /\ marked'[v] = marked[v]
<1>1. CASE Leave(w)
  BY <1>1 DEF Leave, TypeInv, TypeOK
<1>2. CASE \/ RequestGivesUp(w) \/ NoRequest(w) \/ SkipTransaction(w)
           \/ InsertInternalTransactions(w) \/ Fail(w)
  BY <1>1, <1>2 DEF RequestGivesUp, NoRequest, SkipTransaction,
                    InsertInternalTransactions, Fail, Return, Raise
<1>3. CASE GetInternalTransactions(w)
  BY <1>1, <1>3 DEF GetInternalTransactions, Goto, Return, TypeInv, TypeOK
<1>4. CASE \/ RequestTimesOut(w) \/ GetTransactionData(w) \/ GetReceiptData(w)
           \/ (\E a \in Contracts : HandleTransactionEvents(w, a))
           \/ InsertEventRow(w) \/ InsertTransaction(w) \/ InsertTransactionLogs(w)
           \/ \E m \in Messages : Deliver(w, m)
  BY <1>4 DEF RequestTimesOut, GetTransactionData, GetReceiptData,
      HandleTransactionEvents, InsertEventRow, InsertTransaction,
      InsertTransactionLogs, Deliver, Goto, TypeInv, TypeOK
<1>. QED BY <1>2, <1>3, <1>4 DEF Step

(* What a worker has done is not undone by what others do. *)
LEMMA WorkKept ==
    ASSUME TypeInv, NEW v \in Workers, WorkInv(v),
           pc'[v] = pc[v], msg'[v] = msg[v], todo'[v] = todo[v],
           writes'[v] = writes[v], marked'[v] = marked[v],
           pc[v] # "idle" => Growing(msg[v])
    PROVE  WorkInv(v)'
<1>1. CASE pc[v] = "idle"
  BY <1>1 DEF WorkInv
<1>2. CASE pc[v] # "idle"
  <2>1. Growing(msg[v])
    BY <1>2
  <2>2. Task(v)' = Task(v) /\ Done(v)' = Done(v)
    BY <2>1 DEF Task, Done, Growing
  <2>3. pc[v] = "events" => EventsStage(v)'
    BY <2>1, <2>2 DEF WorkInv, EventsStage, Growing
  <2>4. pc[v] \in {"trace", "internals"} => logs'[msg[v]] = logs[msg[v]]
    BY <2>1 DEF WorkInv, Growing, Task
  <2>5. pc[v] \in {"logs", "trace", "internals"} => msg[v] \in transactions'
    BY <2>1 DEF WorkInv, Growing
  <2>. QED BY <2>2, <2>3, <2>4, <2>5 DEF WorkInv
<1>. QED BY <1>1, <1>2

LEMMA StepWorkInv ==
    ASSUME TypeInv, StoreInv, [Next]_vars, NEW v \in Workers
    PROVE  WorkInv(v)'
<1>0. TypeOK /\ WorkInv(v) /\ (pc[v] # "idle" => Growing(msg[v]))
  BY StepGrows, BusyWorker DEF TypeInv, StoreInv
<1>1. CASE UNCHANGED <<pc, msg, todo, writes, marked>>
  BY <1>0, <1>1, WorkKept
<1>2. ASSUME NEW w \in Workers \ {v},
             \/ Step(w) \/ Fail(w) \/ \E m \in Messages : Deliver(w, m)
      PROVE  WorkInv(v)'
  BY <1>0, <1>2, OthersUnchanged, WorkKept
<1>3. ASSUME pc'[v] \in {"idle", "transaction", "receipt"} PROVE WorkInv(v)'
  BY <1>3 DEF WorkInv
<1>4. CASE \/ RequestGivesUp(v) \/ NoRequest(v) \/ SkipTransaction(v)
           \/ InsertInternalTransactions(v) \/ Fail(v)
           \/ GetTransactionData(v) \/ \E m \in Messages : Deliver(v, m)
  BY <1>0, <1>3, <1>4 DEF RequestGivesUp, NoRequest, SkipTransaction,
      InsertInternalTransactions, Fail, Return, Raise, Leave, GetTransactionData,
      Deliver, Goto, TypeOK
<1>5. CASE RequestTimesOut(v)
  BY <1>1, <1>5 DEF RequestTimesOut
<1>6. CASE GetReceiptData(v)
  <2>1. /\ pc'[v] = "events" /\ Task(v)' = Task(v) /\ todo'[v] = Handled(Task(v))
        /\ marked'[v] = {} /\ writes'[v] = <<>>
    BY <1>0, <1>6 DEF GetReceiptData, Goto, Task, TypeInv, TypeOK, WorkerType
  <2>2. Done(v)' = {}
    BY <2>1 DEF Done
  <2>. QED BY <2>1, <2>2, NoKeys DEF WorkInv, EventsStage
<1>7. ASSUME NEW a \in Contracts, HandleTransactionEvents(v, a) PROVE WorkInv(v)'
  <2>. DEFINE t == Task(v)
  <2>1. /\ t \in Transactions /\ a \in Handled(t) /\ msg[v] \in Messages
        /\ todo[v] \subseteq Handled(t) /\ EventsStage(v)
    BY <1>0, <1>7, BusyWorker DEF HandleTransactionEvents, Task, WorkInv
  <2>2. /\ pc'[v] = "events" /\ Task(v)' = t /\ todo'[v] = todo[v] \ {a}
        /\ writes[v] = <<>> /\ writes'[v] = Found[t][a].rows
        /\ marked'[v] = marked[v] \cup Found[t][a].indices
        /\ eventRows'[msg'[v]] = eventRows[msg[v]]
    BY <1>0, <1>7 DEF HandleTransactionEvents, Task, TypeInv, TypeOK, tables
  <2>. HIDE DEF t
  <2>3. Done(v)' = Done(v) \cup {a} /\ t = Task(v)
    BY <2>1, <2>2 DEF Done, t
  <2>4. marked'[v] = UNION {Found[t][b].indices : b \in Done(v)'}
    BY <2>1, <2>2, <2>3 DEF EventsStage
  <2>5. Keys(ToSet(writes'[v])) \subseteq Leaves[t].events
    BY <2>1, <2>2, LeavesMeaning
  <2>6. ASSUME NEW b \in Done(v)'
        PROVE  Keys(ToSet(Found[t][b].rows)) \subseteq
                   Keys(eventRows'[msg'[v]]) \cup Keys(ToSet(writes'[v]))
    BY <2>1, <2>2, <2>3, NoKeys DEF EventsStage
  <2>7. EventsStage(v)'
    BY <2>2, <2>4, <2>5, <2>6 DEF EventsStage
  <2>. QED BY <2>2, <2>7 DEF WorkInv
<1>8. CASE InsertEventRow(v)
  <2>1. /\ EventsStage(v) /\ msg[v] \in Messages /\ writes[v] \in Seq(AllRows)
        /\ writes[v] # <<>>
    BY <1>0, <1>8, BusyWorker DEF InsertEventRow, WorkInv, TypeInv
  <2>2. /\ pc'[v] = "events" /\ Task(v)' = Task(v) /\ Done(v)' = Done(v)
        /\ marked'[v] = marked[v] /\ writes'[v] = Tail(writes[v])
        /\ eventRows'[msg'[v]] = Insert(eventRows[msg[v]], Head(writes[v]))
    BY <1>0, <1>8, <2>1 DEF InsertEventRow, Task, Done, TypeInv, TypeOK
  <2>3. Keys(ToSet(writes[v])) = {Head(writes[v]).key} \cup Keys(ToSet(writes'[v]))
    BY <2>1, <2>2, HeadTailKeys
  <2>4. Keys(eventRows'[msg'[v]]) = Keys(eventRows[msg[v]]) \cup {Head(writes[v]).key}
    BY <2>2, InsertKeys
  <2>5. EventsStage(v)'
    BY <2>1, <2>2, <2>3, <2>4 DEF EventsStage
  <2>. QED BY <2>2, <2>5 DEF WorkInv
<1>9. CASE InsertTransaction(v)
  <2>1. marked[v] = Marked(Task(v)) /\ pc[v] # "idle"
    BY <1>0, <1>9, EventsAreThere DEF InsertTransaction, EventsHandled
  <2>2. /\ pc'[v] = "logs" /\ Task(v)' = Task(v) /\ marked'[v] = marked[v]
        /\ msg'[v] \in transactions'
    BY <1>0, <1>9 DEF InsertTransaction, EventsHandled, AfterTransaction, Goto, Task,
                      TypeOK
  <2>. QED BY <2>1, <2>2 DEF WorkInv
<1>10. CASE InsertTransactionLogs(v)
  <2>1. /\ pc[v] = "logs" /\ pc'[v] = "trace" /\ Task(v)' = Task(v)
        /\ UNCHANGED <<marked, msg, transactions, tx>>
    BY <1>0, <1>10 DEF InsertTransactionLogs, Goto, Task, TypeOK
  <2>2. logs'[msg[v]] = Leaves[Task(v)].logs
    BY <1>10, SameLogs, BusyWorker DEF InsertTransactionLogs, Task, TypeInv
  <2>. QED BY <1>0, <2>1, <2>2 DEF WorkInv
<1>11. CASE GetInternalTransactions(v)
  <2>1. CASE Task(v).traced
    <3>1. /\ pc[v] = "trace" /\ pc'[v] = "internals" /\ Task(v)' = Task(v)
          /\ UNCHANGED <<marked, msg, transactions, logs, tx>>
      BY <1>0, <1>11, <2>1 DEF GetInternalTransactions, Goto, Task, TypeOK, tables
    <3>. QED BY <1>0, <2>1, <3>1 DEF WorkInv
  <2>2. CASE ~Task(v).traced
    BY <1>0, <1>3, <1>11, <2>2 DEF GetInternalTransactions, Task, Return, Leave, TypeOK
  <2>. QED BY <2>1, <2>2
<1>12. CASE UNCHANGED vars
  BY <1>1, <1>12 DEF vars, workerVars
<1>. QED
  BY <1>2, <1>4, <1>5, <1>6, <1>7, <1>8, <1>9, <1>10, <1>11, <1>12
  DEF Next, Step, Terminated

(* What completes a message *)
LEMMA Completion ==
    ASSUME TypeInv, StoreInv, NEW w \in Workers, NEW m \in Messages, m = msg[w],
           \/ SkipTransaction(w) \/ InsertInternalTransactions(w)
           \/ GetInternalTransactions(w) /\ ~tx[m].traced
    PROVE  /\ Leaves[tx[m]].events \subseteq Keys(eventRows[m])
           /\ Leaves[tx[m]].saved => m \in transactions /\ logs[m] = Leaves[tx[m]].logs
           /\ Leaves[tx[m]].saved /\ tx[m].traced => internals'[m] >= 1
<1>0. TypeOK /\ WorkInv(w) /\ RowsInv(m) /\ Task(w) = tx[m]
  BY DEF TypeInv, StoreInv, Task
<1>1. CASE SkipTransaction(w)
  BY <1>0, <1>1, EventsAreThere DEF SkipTransaction, Task
<1>2. CASE InsertInternalTransactions(w)
  <2>1. internals'[m] >= 1
    BY <1>0, <1>2 DEF InsertInternalTransactions, TypeOK
  <2>. QED BY <1>0, <1>2, <2>1 DEF InsertInternalTransactions, WorkInv, RowsInv
<1>3. CASE GetInternalTransactions(w) /\ ~tx[m].traced
  BY <1>0, <1>3 DEF GetInternalTransactions, WorkInv, RowsInv
<1>. QED BY <1>1, <1>2, <1>3

LEMMA StepRowsInv ==
    ASSUME TypeInv, StoreInv, [Next]_vars, NEW m \in Messages
    PROVE  RowsInv(m)'
<1>0. TypeOK /\ RowsInv(m) /\ Growing(m)
  BY StepGrows DEF TypeInv, StoreInv
<1>1. tx' = tx /\ Keys(eventRows[m]) \subseteq Keys(eventRows'[m])
  BY <1>0 DEF Growing
<1>2. ASSUME m \in transactions'
      PROVE  /\ Leaves[tx[m]].saved
             /\ Leaves[tx[m]].events \subseteq Keys(eventRows'[m])
  <2>1. CASE m \in transactions
    BY <1>0, <1>1, <2>1 DEF RowsInv
  <2>2. CASE m \notin transactions
    <3>1. PICK w \in Workers : InsertTransaction(w) /\ msg[w] = m
      <4>1. ASSUME NEW w \in Workers, GetInternalTransactions(w) PROVE FALSE
        BY <1>2, <2>2, <4>1 DEF GetInternalTransactions, tables
      <4>2. ASSUME NEW w \in Workers,
                   \/ Step(w) /\ ~InsertTransaction(w)
                   \/ Fail(w) \/ \E n \in Messages : Deliver(w, n)
            PROVE  FALSE
        BY <1>2, <2>2, <4>1, <4>2 DEF Step, RequestTimesOut, RequestGivesUp, NoRequest,
            GetTransactionData, GetReceiptData, HandleTransactionEvents, InsertEventRow,
            SkipTransaction, InsertTransactionLogs, InsertInternalTransactions, Fail,
            Deliver, tables
      <4>3. ~UNCHANGED vars
        BY <1>2, <2>2 DEF vars, tables
      <4>4. PICK w \in Workers : InsertTransaction(w)
        BY <4>2, <4>3 DEF Next, Terminated
      <4>. QED BY <1>2, <2>2, <4>4 DEF InsertTransaction
    <3>2. WorkInv(w) /\ EventsHandled(w) /\ ShouldSave(Task(w), marked[w])
          /\ Task(w) = tx[m]
      BY <3>1 DEF StoreInv, InsertTransaction, Task
    <3>. QED BY <1>1, <3>1, <3>2, EventsAreThere
  <2>. QED BY <2>1, <2>2
<1>3. ASSUME logs'[m] # {}
      PROVE  m \in transactions' /\ logs'[m] = Leaves[tx[m]].logs
  <2>1. CASE logs'[m] = logs[m]
    BY <1>0, <1>3, <2>1 DEF RowsInv, Growing
  <2>2. ASSUME NEW w \in Workers, InsertTransactionLogs(w), logs'[m] # logs[m]
        PROVE  m \in transactions' /\ logs'[m] = Leaves[tx[m]].logs
    <3>1. logs' = [logs EXCEPT ![msg[w]] = Leaves[tx[msg[w]]].logs]
      BY <2>2, SameLogs
    <3>2. msg[w] = m /\ logs'[m] = Leaves[tx[m]].logs
      BY <2>2, <3>1 DEF TypeInv
    <3>. QED BY <1>0, <2>2, <3>2 DEF StoreInv, WorkInv, InsertTransactionLogs, Growing
  <2>3. CASE UNCHANGED logs
    BY <2>1, <2>3
  <2>4. ASSUME NEW w \in Workers, GetInternalTransactions(w) PROVE UNCHANGED logs
    BY <2>4 DEF GetInternalTransactions, tables
  <2>5. ASSUME NEW w \in Workers,
               \/ Step(w) /\ ~InsertTransactionLogs(w)
               \/ Fail(w) \/ \E n \in Messages : Deliver(w, n)
        PROVE  UNCHANGED logs
    BY <2>4, <2>5 DEF Step, RequestTimesOut, RequestGivesUp, NoRequest,
        GetTransactionData, GetReceiptData, HandleTransactionEvents, InsertEventRow,
        SkipTransaction, InsertTransaction, InsertInternalTransactions, Fail,
        Deliver, tables
  <2>. QED BY <2>1, <2>2, <2>3, <2>5 DEF Next, Terminated, vars, tables
<1>4. ASSUME m \in completed'
      PROVE  /\ Leaves[tx[m]].events \subseteq Keys(eventRows'[m])
             /\ Leaves[tx[m]].saved => m \in transactions' /\ logs'[m] = Leaves[tx[m]].logs
             /\ Leaves[tx[m]].saved /\ tx[m].traced => internals'[m] >= 1
  <2>0. internals[m] \in Nat /\ internals'[m] >= internals[m]
        /\ (internals[m] >= 1 => internals'[m] >= 1)
    <3>1. TypeInv'
      BY StepTypeInv
    <3>2. internals[m] \in Nat /\ internals'[m] \in Nat
      BY <1>0, <3>1 DEF TypeInv, TypeOK
    <3>. QED BY <1>0, <3>2 DEF Growing
  <2>1. CASE m \in completed
    BY <1>0, <1>1, <2>0, <2>1 DEF RowsInv, Growing
  <2>2. ASSUME NEW w \in Workers, m = msg[w],
               \/ SkipTransaction(w) \/ InsertInternalTransactions(w)
               \/ GetInternalTransactions(w) /\ ~tx[m].traced
        PROVE  /\ Leaves[tx[m]].events \subseteq Keys(eventRows'[m])
               /\ Leaves[tx[m]].saved => m \in transactions' /\ logs'[m] = Leaves[tx[m]].logs
               /\ Leaves[tx[m]].saved /\ tx[m].traced => internals'[m] >= 1
    BY <1>0, <1>1, <2>2, Completion DEF Growing
  <2>3. CASE m \notin completed
    <3>1. ASSUME NEW w \in Workers,
                 \/ RequestTimesOut(w) \/ RequestGivesUp(w) \/ NoRequest(w)
                 \/ GetTransactionData(w) \/ GetReceiptData(w)
                 \/ (\E a \in Contracts : HandleTransactionEvents(w, a))
                 \/ InsertEventRow(w) \/ InsertTransaction(w)
                 \/ InsertTransactionLogs(w) \/ Fail(w)
                 \/ \E n \in Messages : Deliver(w, n)
          PROVE  FALSE
      BY <1>4, <2>3, <3>1 DEF RequestTimesOut, RequestGivesUp, NoRequest,
        GetTransactionData, GetReceiptData, HandleTransactionEvents, InsertEventRow,
        InsertTransaction, InsertTransactionLogs, Fail, Deliver, Raise, history
    <3>2. ~UNCHANGED vars
      BY <1>4, <2>3 DEF vars, history
    <3>3. PICK w \in Workers : \/ SkipTransaction(w) \/ InsertInternalTransactions(w)
                               \/ GetInternalTransactions(w)
      BY <3>1, <3>2 DEF Next, Step, Terminated
    <3>4. CASE SkipTransaction(w) \/ InsertInternalTransactions(w)
      BY <1>4, <2>2, <2>3, <3>4 DEF SkipTransaction, InsertInternalTransactions, Return
    <3>5. CASE GetInternalTransactions(w)
      <4>1. ~tx[msg[w]].traced /\ msg[w] = m
        BY <1>4, <2>3, <3>5 DEF GetInternalTransactions, Return
      <4>. QED BY <2>2, <3>5, <4>1
    <3>. QED BY <3>3, <3>4, <3>5
  <2>. QED BY <2>1, <2>3
<1>. QED BY <1>1, <1>2, <1>3, <1>4 DEF RowsInv

LEMMA StepStoreInv == TypeInv /\ StoreInv /\ [Next]_vars => StoreInv'
  BY StepWorkInv, StepRowsInv DEF StoreInv

LEMMA InitStoreInv == Init => StoreInv
  BY DEF Init, StoreInv, WorkInv, RowsInv

LEMMA StoreInvariant == Spec => [](TypeInv /\ StoreInv)
  BY InitStoreInv, StepStoreInv, TypeInvariant, PTL DEF Spec

-----------------------------------------------------------------------------
(* Relevance.  A partial processor marks logs of configured contracts only *)
(* and saves a transaction only if it calls, creates or logs one.          *)
LEMMA SavedConcerns ==
    ASSUME NEW t \in Transactions, t.mode = "partial", Leaves[t].saved
    PROVE  Concerns(t)
<1>1. ShouldSave(t, Marked(t))
  BY LeavesMeaning
<1>2. ASSUME NEW i \in Marked(t) PROVE EventAddresses(t) \cap Contracts # {}
  <2>1. i \in Indices(t) /\ t.receipt[i].address \in Contracts
    BY MarkedType
  <2>. QED BY <2>1 DEF EventAddresses
<1>. QED BY <1>1, <1>2 DEF ShouldSave, Concerns

(* A partial collection holds nothing that does not concern a configured   *)
(* contract, whatever is delivered again, fails or runs in between         *)
(* (tx_processor.py:237-251, 340-373).                                     *)
THEOREM OnlyRelevantIsStored == Spec => []OnlyRelevantStored
<1>1. ASSUME TypeInv, StoreInv PROVE OnlyRelevantStored
  <2>. SUFFICES ASSUME NEW m \in Messages, tx[m].mode = "partial"
                PROVE  /\ m \in transactions => Concerns(tx[m])
                       /\ \A i \in logs[m] : tx[m].receipt[i].address \in Contracts
    BY DEF OnlyRelevantStored
  <2>0. tx[m] \in Transactions /\ RowsInv(m)
    BY <1>1 DEF TypeInv, TypeOK, StoreInv
  <2>1. m \in transactions => Concerns(tx[m])
    BY <2>0, SavedConcerns DEF RowsInv
  <2>2. ASSUME NEW i \in logs[m] PROVE tx[m].receipt[i].address \in Contracts
    <3>1. i \in LogsToSave(tx[m], Marked(tx[m]))
      BY <2>0, <2>2, LeavesMeaning DEF RowsInv
    <3>. QED BY <2>0, <3>1, MarkedType DEF LogsToSave
  <2>. QED BY <2>1, <2>2
<1>. QED BY <1>1, StoreInvariant, PTL

-----------------------------------------------------------------------------
(* The steps that write a table *)
LEMMA Writers ==
    ASSUME [Next]_vars
    PROVE  /\ tx' = tx
           /\ \/ UNCHANGED tables
              \/ \E w \in Workers : \/ InsertEventRow(w) \/ InsertTransaction(w)
                                    \/ InsertTransactionLogs(w)
                                    \/ InsertInternalTransactions(w)
<1>1. ASSUME NEW w \in Workers, GetInternalTransactions(w)
      PROVE  UNCHANGED <<tx, tables>>
  BY <1>1 DEF GetInternalTransactions
<1>2. ASSUME NEW w \in Workers,
             \/ RequestTimesOut(w) \/ RequestGivesUp(w) \/ NoRequest(w)
             \/ GetTransactionData(w) \/ GetReceiptData(w)
             \/ (\E a \in Contracts : HandleTransactionEvents(w, a))
             \/ SkipTransaction(w) \/ Fail(w) \/ \E n \in Messages : Deliver(w, n)
      PROVE  UNCHANGED <<tx, tables>>
  BY <1>2 DEF RequestTimesOut, RequestGivesUp, NoRequest, GetTransactionData,
      GetReceiptData, HandleTransactionEvents, SkipTransaction, Fail, Deliver
<1>3. UNCHANGED vars => UNCHANGED <<tx, tables>>
  BY DEF vars
<1>4. ASSUME NEW w \in Workers,
             \/ InsertEventRow(w) \/ InsertTransaction(w)
             \/ InsertTransactionLogs(w) \/ InsertInternalTransactions(w)
      PROVE  tx' = tx
  BY <1>4 DEF InsertEventRow, InsertTransaction, InsertTransactionLogs,
      InsertInternalTransactions
<1>. QED BY <1>1, <1>2, <1>3, <1>4 DEF Next, Step, Terminated

(* A row whose key is there already changes nothing. *)
LEMMA InsertAgain ==
    ASSUME TypeInv, NEW w \in Workers, InsertEventRow(w),
           Head(writes[w]).key \in Keys(eventRows[msg[w]])
    PROVE  UNCHANGED tables
<1>1. eventRows' = [eventRows EXCEPT ![msg[w]] = eventRows[msg[w]]]
  BY DEF InsertEventRow, Insert
<1>2. eventRows' = eventRows
  BY <1>1 DEF TypeInv
<1>. QED BY <1>2 DEF InsertEventRow, tables

(* The row a worker inserts is one that its transaction leaves. *)
LEMMA WrittenIsWanted ==
    ASSUME TypeInv, StoreInv, NEW w \in Workers, InsertEventRow(w)
    PROVE  Head(writes[w]).key \in Leaves[tx[msg[w]]].events
<1>1. EventsStage(w) /\ writes[w] \in Seq(AllRows) /\ writes[w] # <<>>
  BY DEF InsertEventRow, StoreInv, WorkInv, TypeInv
<1>2. Head(writes[w]).key \in Keys(ToSet(writes[w]))
  BY <1>1, HeadTailKeys
<1>. QED BY <1>1, <1>2 DEF EventsStage, Task

(* Saving a transaction means that it is to be saved, with its events.     *)
LEMMA SavedWithEvents ==
    ASSUME TypeInv, StoreInv, NEW w \in Workers, InsertTransaction(w)
    PROVE  /\ msg[w] \in Messages /\ Leaves[tx[msg[w]]].saved
           /\ Leaves[tx[msg[w]]].events \subseteq Keys(eventRows[msg[w]])
<1>1. WorkInv(w) /\ EventsHandled(w) /\ ShouldSave(tx[msg[w]], marked[w])
  BY DEF InsertTransaction, StoreInv
<1>. QED BY <1>1, EventsAreThere, BusyWorker DEF Task, EventsHandled

(* Handling a completed message again changes none of its rows, whoever    *)
(* does it and wherever it fails: the rows it would insert are there, and  *)
(* the logs it stores are the same (db/manager.py: ON CONFLICT).           *)
LEMMA StepRedelivery ==
    ASSUME TypeInv, StoreInv, [Next]_vars, NEW m \in completed
    PROVE  Stored(m)' = Stored(m)
<1>0. m \in Messages /\ RowsInv(m) /\ TypeOK
  BY DEF TypeInv, TypeOK, StoreInv
<1>1. CASE UNCHANGED tables
  BY <1>1 DEF tables, Stored
<1>2. ASSUME NEW w \in Workers, InsertEventRow(w) PROVE Stored(m)' = Stored(m)
  <2>1. CASE msg[w] = m
    <3>1. Head(writes[w]).key \in Keys(eventRows[msg[w]])
      BY <1>0, <1>2, <2>1, WrittenIsWanted DEF RowsInv
    <3>. QED BY <1>1, <1>2, <3>1, InsertAgain
  <2>2. CASE msg[w] # m
    <3>1. eventRows'[m] = eventRows[m]
      BY <1>0, <1>2, <2>2 DEF InsertEventRow, TypeInv
    <3>. QED BY <1>2, <3>1 DEF InsertEventRow, Stored
  <2>. QED BY <2>1, <2>2
<1>3. ASSUME NEW w \in Workers, InsertTransaction(w) PROVE Stored(m)' = Stored(m)
  <2>1. msg[w] = m => m \in transactions
    BY <1>0, <1>3, SavedWithEvents DEF RowsInv
  <2>2. m \in transactions' <=> m \in transactions
    BY <1>3, <2>1 DEF InsertTransaction
  <2>. QED BY <1>3, <2>2 DEF InsertTransaction, Stored
<1>4. ASSUME NEW w \in Workers, InsertTransactionLogs(w) PROVE Stored(m)' = Stored(m)
  <2>1. logs' = [logs EXCEPT ![msg[w]] = Leaves[tx[msg[w]]].logs]
    BY <1>4, SameLogs
  <2>2. msg[w] = m => logs[m] = Leaves[tx[m]].logs
    BY <1>0, <1>4 DEF InsertTransactionLogs, StoreInv, WorkInv, RowsInv
  <2>3. logs'[m] = logs[m]
    BY <1>0, <2>1, <2>2 DEF TypeInv
  <2>. QED BY <1>4, <2>3 DEF InsertTransactionLogs, Stored
<1>5. ASSUME NEW w \in Workers, InsertInternalTransactions(w)
      PROVE  Stored(m)' = Stored(m)
  BY <1>5 DEF InsertInternalTransactions, Stored
<1>. QED BY <1>1, <1>2, <1>3, <1>4, <1>5, Writers

THEOREM RedeliveryChangesNothing == Spec => RedeliveryIsHarmless
<1>1. TypeInv /\ StoreInv /\ [Next]_vars
         => [\A m \in completed : Stored(m)' = Stored(m)]_vars
  BY StepRedelivery
<1>. QED BY <1>1, StoreInvariant, PTL DEF Spec, RedeliveryIsHarmless

-----------------------------------------------------------------------------
(* Copies.  Every delivery of a message is with one worker until it ends,  *)
(* and stores the internal transactions at most once.                      *)
Holders(m) == {w \in Workers : msg[w] = m}

CopiesInv == \A m \in Messages : internals[m] + Cardinality(Holders(m)) <= deliveries[m]

LEMMA HoldersFinite ==
    \A m : IsFiniteSet(Holders(m)) /\ Cardinality(Holders(m)) \in Nat
  BY TxAssumption, FS_Subset, FS_CardinalityType DEF Holders

LEMMA InitCopiesInv == Init => CopiesInv
<1>. SUFFICES ASSUME Init, NEW m \in Messages
              PROVE  internals[m] + Cardinality(Holders(m)) <= deliveries[m]
  BY DEF CopiesInv
<1>1. Holders(m) = {}
  BY TxAssumption DEF Init, Holders
<1>. QED BY <1>1, FS_EmptySet DEF Init

(* The worker that leaves held one delivery. *)
LEMMA LeaveCopies ==
    ASSUME TypeInv, CopiesInv, NEW w \in Workers, pc[w] # "idle", Leave(w),
           UNCHANGED deliveries,
           \/ UNCHANGED internals
           \/ internals' = [internals EXCEPT ![msg[w]] = @ + 1]
    PROVE  CopiesInv'
<1>. SUFFICES ASSUME NEW m \in Messages
              PROVE  internals'[m] + Cardinality(Holders(m)') <= deliveries'[m]
  BY DEF CopiesInv
<1>0. /\ internals[m] \in Nat /\ deliveries[m] \in Nat
      /\ internals[m] + Cardinality(Holders(m)) <= deliveries[m]
      /\ Cardinality(Holders(m)) \in Nat
  BY HoldersFinite, TxAssumption DEF CopiesInv, TypeInv, TypeOK
<1>1. msg' = [msg EXCEPT ![w] = NoMessage] /\ m # NoMessage
  BY TxAssumption DEF Leave
<1>2. Holders(m)' = Holders(m) \ {w}
  BY <1>1 DEF Holders, TypeInv, TypeOK
<1>3. CASE msg[w] = m
  <2>0. w \in Holders(m)
    BY <1>3 DEF Holders
  <2>1. Cardinality(Holders(m)') = Cardinality(Holders(m)) - 1
    BY <1>2, <2>0, HoldersFinite, FS_RemoveElement
  <2>2. internals'[m] <= internals[m] + 1 /\ internals'[m] \in Nat
    BY <1>0, <1>3 DEF TypeInv, TypeOK
  <2>. QED BY <1>0, <2>1, <2>2
<1>4. CASE msg[w] # m
  <2>1. Holders(m)' = Holders(m)
    BY <1>2, <1>4 DEF Holders
  <2>2. internals'[m] = internals[m]
    BY <1>4 DEF TypeInv, TypeOK
  <2>. QED BY <1>0, <2>1, <2>2
<1>. QED BY <1>3, <1>4

LEMMA DeliverCopies ==
    ASSUME TypeInv, CopiesInv, NEW w \in Workers, NEW n \in Messages, Deliver(w, n)
    PROVE  CopiesInv'
<1>. SUFFICES ASSUME NEW m \in Messages
              PROVE  internals'[m] + Cardinality(Holders(m)') <= deliveries'[m]
  BY DEF CopiesInv
<1>0. /\ internals[m] \in Nat /\ deliveries[m] \in Nat
      /\ internals[m] + Cardinality(Holders(m)) <= deliveries[m]
      /\ Cardinality(Holders(m)) \in Nat
  BY HoldersFinite, TxAssumption DEF CopiesInv, TypeInv, TypeOK
<1>1. /\ msg' = [msg EXCEPT ![w] = n] /\ msg[w] # m /\ UNCHANGED internals
      /\ deliveries' = [deliveries EXCEPT ![n] = @ + 1]
  BY TxAssumption DEF Deliver, TypeInv, TypeOK, tables
<1>2. CASE n = m
  <2>1. Holders(m)' = Holders(m) \cup {w} /\ w \notin Holders(m)
    BY <1>1, <1>2 DEF Holders, TypeInv, TypeOK
  <2>2. Cardinality(Holders(m)') = Cardinality(Holders(m)) + 1
    BY <2>1, HoldersFinite, FS_AddElement
  <2>3. deliveries'[m] = deliveries[m] + 1
    BY <1>1, <1>2 DEF TypeInv, TypeOK
  <2>. QED BY <1>0, <1>1, <2>2, <2>3
<1>3. CASE n # m
  <2>1. Holders(m)' = Holders(m)
    BY <1>1, <1>3 DEF Holders, TypeInv, TypeOK
  <2>2. deliveries'[m] = deliveries[m]
    BY <1>1, <1>3 DEF TypeInv, TypeOK
  <2>. QED BY <1>0, <1>1, <2>1, <2>2
<1>. QED BY <1>2, <1>3

LEMMA StepCopiesInv == TypeInv /\ CopiesInv /\ [Next]_vars => CopiesInv'
<1>. SUFFICES ASSUME TypeInv, CopiesInv, [Next]_vars PROVE CopiesInv'
  OBVIOUS
<1>1. CASE UNCHANGED <<msg, internals, deliveries>>
  BY <1>1 DEF CopiesInv, Holders
<1>2. ASSUME NEW w \in Workers, \E n \in Messages : Deliver(w, n) PROVE CopiesInv'
  BY <1>2, DeliverCopies
<1>3. ASSUME NEW w \in Workers,
             \/ RequestTimesOut(w) \/ GetTransactionData(w) \/ GetReceiptData(w)
             \/ (\E a \in Contracts : HandleTransactionEvents(w, a))
             \/ InsertEventRow(w) \/ InsertTransaction(w) \/ InsertTransactionLogs(w)
      PROVE  CopiesInv'
  BY <1>1, <1>3 DEF RequestTimesOut, GetTransactionData, GetReceiptData,
      HandleTransactionEvents, InsertEventRow, InsertTransaction,
      InsertTransactionLogs, tables, history
<1>4. ASSUME NEW w \in Workers,
             \/ RequestGivesUp(w) \/ NoRequest(w) \/ SkipTransaction(w) \/ Fail(w)
      PROVE  CopiesInv'
  <2>1. pc[w] # "idle" /\ Leave(w) /\ UNCHANGED <<deliveries, internals>>
    BY <1>4 DEF RequestGivesUp, NoRequest, SkipTransaction, Fail, Requesting,
        EventsHandled, Raise, Return, tables
  <2>. QED BY <2>1, LeaveCopies
<1>5. ASSUME NEW w \in Workers, InsertInternalTransactions(w) PROVE CopiesInv'
  BY <1>5, LeaveCopies DEF InsertInternalTransactions, Return
<1>6. ASSUME NEW w \in Workers, GetInternalTransactions(w) PROVE CopiesInv'
  <2>1. pc[w] # "idle" /\ UNCHANGED <<deliveries, internals>>
        /\ (UNCHANGED msg \/ Leave(w))
    BY <1>6 DEF GetInternalTransactions, Return, tables
  <2>. QED BY <1>1, <2>1, LeaveCopies
<1>7. CASE UNCHANGED vars
  BY <1>1, <1>7 DEF vars, workerVars, tables, history
<1>. QED BY <1>2, <1>3, <1>4, <1>5, <1>6, <1>7 DEF Next, Step, Terminated

(* When the callback returns, and Kafka may forget the message, everything *)
(* the transaction leaves is in the database, the internal transactions at *)
(* most once for each delivery (tx_processor.py:191-216).                  *)
THEOREM EverythingIsStoredOnReturn == Spec => []StoredOnReturn
<1>1. ASSUME TypeInv, StoreInv, CopiesInv PROVE StoredOnReturn
  <2>. SUFFICES ASSUME NEW m \in completed
                PROVE  /\ Leaves[tx[m]].events \subseteq Keys(eventRows[m])
                       /\ Leaves[tx[m]].saved =>
                              m \in transactions /\ Leaves[tx[m]].logs \subseteq logs[m]
                       /\ Leaves[tx[m]].saved /\ tx[m].traced =>
                              internals[m] \in 1 .. deliveries[m]
    BY DEF StoredOnReturn
  <2>1. m \in Messages /\ RowsInv(m)
    BY <1>1 DEF TypeInv, TypeOK, StoreInv
  <2>2. internals[m] <= deliveries[m] /\ internals[m] \in Nat /\ deliveries[m] \in Nat
    <3>1. /\ internals[m] \in Nat /\ deliveries[m] \in Nat
          /\ internals[m] + Cardinality(Holders(m)) <= deliveries[m]
          /\ Cardinality(Holders(m)) \in Nat
      BY <1>1, <2>1, HoldersFinite, TxAssumption DEF CopiesInv, TypeInv, TypeOK
    <3>. QED BY <3>1
  <2>. QED BY <2>1, <2>2 DEF RowsInv
<1>. QED BY <1>1, InitCopiesInv, StepCopiesInv, StoreInvariant, PTL DEF Spec

-----------------------------------------------------------------------------
(* The refinement.  A row with a new key is stored before the transaction  *)
(* is saved, for a saved one has all its keys; a row whose key is there is *)
(* a stutter.                                                              *)
LEMMA InitStore == Init => Store!Init
  BY DEF Init, Store!Init

LEMMA StepStore ==
    ASSUME TypeInv, StoreInv, [Next]_vars
    PROVE  [Store!Next]_Store!vars
<1>0. TypeOK /\ tx' = tx
  BY Writers DEF TypeInv
<1>1. UNCHANGED [m \in Messages |-> Leaves[tx[m]]]
  BY <1>0
<1>2. CASE UNCHANGED tables
  BY <1>1, <1>2 DEF tables, Store!vars
<1>3. ASSUME NEW w \in Workers, InsertEventRow(w) PROVE [Store!Next]_Store!vars
  <2>0. msg[w] \in Messages /\ Leaves[tx[msg[w]]].events # {}
    BY <1>3, BusyWorker, WrittenIsWanted DEF InsertEventRow
  <2>5. PICK m \in Messages : m = msg[w]
    BY <2>0
  <2>6. PICK r : r = Head(writes[w])
    OBVIOUS
  <2>1. m = msg[w] /\ r = Head(writes[w])
    BY <2>5, <2>6
  <2>2. r.key \in Leaves[tx[m]].events
    BY <1>3, <2>1, WrittenIsWanted
  <2>3. CASE r.key \in Keys(eventRows[m])
    BY <1>2, <1>3, <2>1, <2>3, InsertAgain
  <2>4. CASE r.key \notin Keys(eventRows[m])
    <3>1. m \notin transactions
      BY <2>2, <2>4 DEF StoreInv, RowsInv
    <3>2. eventRows' = [eventRows EXCEPT ![m] = @ \cup {r}] /\ r \notin eventRows[m]
      BY <1>3, <2>1, <2>4 DEF InsertEventRow, Insert, Keys
    <3>3. r \in eventRows'[m] \ eventRows[m]
      BY <3>2 DEF TypeInv
    <3>4. r.key \in [n \in Messages |-> Leaves[tx[n]]][m].events \ Store!Keys(m)
      BY <2>2, <2>4 DEF Store!Keys, Keys
    <3>5. UNCHANGED <<[n \in Messages |-> Leaves[tx[n]]], transactions, logs, internals>>
      BY <1>1, <1>3 DEF InsertEventRow
    <3>6. Store!StoreEvent(m)
      BY <3>1, <3>2, <3>3, <3>4, <3>5 DEF Store!StoreEvent
    <3>. QED BY <3>6 DEF Store!Next
  <2>. QED BY <2>3, <2>4
<1>4. ASSUME NEW w \in Workers, InsertTransaction(w) PROVE [Store!Next]_Store!vars
  <2>1. PICK m \in Messages : m = msg[w]
    BY <1>4, SavedWithEvents
  <2>2. /\ [n \in Messages |-> Leaves[tx[n]]][m].saved
        /\ [n \in Messages |-> Leaves[tx[n]]][m].events \subseteq Store!Keys(m)
    BY <1>4, <2>1, SavedWithEvents DEF Store!Keys, Keys
  <2>3. /\ transactions' = transactions \cup {m}
        /\ UNCHANGED <<[n \in Messages |-> Leaves[tx[n]]], eventRows, logs, internals>>
    BY <1>1, <1>4, <2>1 DEF InsertTransaction
  <2>4. Store!SaveTransaction(m)
    BY <2>2, <2>3 DEF Store!SaveTransaction
  <2>. QED BY <2>4 DEF Store!Next
<1>5. ASSUME NEW w \in Workers, InsertTransactionLogs(w) PROVE [Store!Next]_Store!vars
  <2>1. msg[w] \in Messages /\ msg[w] \in transactions
    BY <1>5, BusyWorker DEF InsertTransactionLogs, StoreInv, WorkInv
  <2>2. PICK m \in Messages : m = msg[w] /\ m \in transactions
    BY <2>1
  <2>3. logs' = [logs EXCEPT ![m] = [n \in Messages |-> Leaves[tx[n]]][m].logs]
    BY <1>5, <2>2, SameLogs
  <2>4. UNCHANGED <<[n \in Messages |-> Leaves[tx[n]]], eventRows, transactions, internals>>
    BY <1>1, <1>5 DEF InsertTransactionLogs
  <2>5. Store!StoreLogs(m)
    BY <2>2, <2>3, <2>4 DEF Store!StoreLogs
  <2>. QED BY <2>5 DEF Store!Next
<1>6. ASSUME NEW w \in Workers, InsertInternalTransactions(w)
      PROVE  [Store!Next]_Store!vars
  <2>1. /\ msg[w] \in Messages /\ msg[w] \in transactions
        /\ logs[msg[w]] = Leaves[tx[msg[w]]].logs
    BY <1>6, BusyWorker DEF InsertInternalTransactions, StoreInv, WorkInv, Task
  <2>2. PICK m \in Messages : /\ m = msg[w] /\ m \in transactions
                              /\ logs[m] = Leaves[tx[m]].logs
    BY <2>1
  <2>3. /\ internals' = [internals EXCEPT ![m] = @ + 1]
        /\ UNCHANGED <<[n \in Messages |-> Leaves[tx[n]]], eventRows, transactions, logs>>
    BY <1>1, <1>6, <2>2 DEF InsertInternalTransactions
  <2>4. logs[m] = [n \in Messages |-> Leaves[tx[n]]][m].logs
    BY <2>2
  <2>5. Store!StoreInternals(m)
    BY <2>2, <2>3, <2>4 DEF Store!StoreInternals
  <2>. QED BY <2>5 DEF Store!Next
<1>. QED BY <1>2, <1>3, <1>4, <1>5, <1>6, Writers

(* A reader of the database sees the rows of a transaction appear in the   *)
(* order of TransactionStore, whatever is delivered again, fails or runs   *)
(* in between.                                                             *)
THEOREM ProcessorImplementsStore == Spec => ImplementsStore
<1>. QED
  BY InitStore, StepStore, StoreInvariant, PTL DEF Spec, ImplementsStore, Store!Spec

-----------------------------------------------------------------------------
(* Amounts.  A row that a processor writes says what happened on the       *)
(* chain, and a row in the database was written by one.                    *)
RowOnChain(row, t) ==
    CASE row.key[1] = "supply_change" ->
            (\A i \in Indices(t) : Agreed(t.receipt[i])) =>
                \E a \in Handled(t) : row.amount = <<CirculationChange(a, t.receipt)>>
      [] row.key[1] = "liquidity_change" ->
            row.amount = <<ReservesChange(row.key[2], t.receipt, 1),
                           ReservesChange(row.key[2], t.receipt, 2)>>
      [] OTHER -> t.receipt[row.key[3]].event = "TransferToken"

LEMMA ReceiptTyped == ASSUME NEW t \in Transactions PROVE TypedReceipt(t.receipt)
<1>1. \A i \in Indices(t) : t.receipt[i] \in ToSet(t.receipt)
  BY ReceiptType DEF ToSet
<1>. QED BY <1>1, ReceiptType, TxAssumption DEF TypedReceipt, Indices

LEMMA NftRowsOnChain ==
    ASSUME NEW t \in Transactions, NEW a, NEW k \in DOMAIN NftRows(a, t)
    PROVE  RowOnChain(NftRows(a, t)[k], t)
<1>. DEFINE E == Seen(t.receipt)
            s == EventsFor(a, t)
            u == NamedIn(s, "TransferNonFungibleEvent")
<1>1. s \in Seq(E)
  <2>1. Len(t.receipt) \in Nat
    BY ReceiptType
  <2>2. EventsOf(Category[a], t.receipt) \in Seq(E)
    BY <2>1, EventsOfType
  <2>. DEFINE R == {e \in E : Relevant(a, t.receipt, Events[a], e)}
  <2>3. s \in Seq(R)
    <3>1. RelevantIn(EventsOf(Category[a], t.receipt), a, t.receipt, Events[a]) \in Seq(R)
      BY <2>2, SelectRelevant
    <3>. QED BY <3>1 DEF EventsFor, ContractEvents, RelevantIn
  <2>4. R \subseteq E
    OBVIOUS
  <2>. HIDE DEF R, E, s
  <2>. QED BY <2>3, <2>4, SeqMonotonic
<1>. HIDE DEF E, s
<1>2. u \in Seq({e \in E : e.name = "TransferNonFungibleEvent"})
  BY <1>1, SelectNamed
<1>3. NftRows(a, t) = [n \in 1 .. Len(u) |->
                          Row("nft_transfer", NoAddress, u[n].index, <<>>)]
  BY DEF NftRows, NamedIn, s
<1>. HIDE DEF u
<1>4. k \in 1 .. Len(u) /\ NftRows(a, t)[k] = Row("nft_transfer", NoAddress, u[k].index, <<>>)
  BY <1>3
<1>5. u[k] \in E /\ u[k].name = "TransferNonFungibleEvent"
  BY <1>2, <1>4, ElementOfSeq
<1>6. t.receipt[u[k].index].event = "TransferToken"
  BY <1>5 DEF E, Seen, MappedEvents, NamesFor
<1>. DEFINE row == NftRows(a, t)[k]
<1>7. row.key[1] = "nft_transfer" /\ row.key[3] = u[k].index
  BY <1>4 DEF Row
<1>. HIDE DEF row
<1>8. RowOnChain(row, t)
  BY <1>6, <1>7 DEF RowOnChain
<1>. QED BY <1>8 DEF row

LEMMA SupplyRowsOnChain ==
    ASSUME BalancedEvents, NEW t \in Transactions, NEW a \in Handled(t),
           NEW k \in DOMAIN SupplyRows(a, t)
    PROVE  RowOnChain(SupplyRows(a, t)[k], t)
<1>. DEFINE amount == AmountChanged(EventsFor(a, t), t.receipt)
            address == t.receipt[Last(EventsOf(Category[a], t.receipt)).index].address
            row == Row("supply_change", address, 0, <<amount>>)
<1>1. a \in Contracts /\ Category[a] \in Categories
  BY HandledContracts, TxAssumption
<1>2. \/ {"MintFungibleEvent", "BurnFungibleEvent"} \subseteq Events[a]
      \/ {"MintFungibleEvent", "BurnFungibleEvent"} \cap Events[a] = {}
  BY <1>1 DEF BalancedEvents
<1>. DEFINE agreed == \A i \in Indices(t) : Agreed(t.receipt[i])
<1>3. agreed => AmountChanged(ContractEvents(a, Category[a], Events[a], t.receipt),
                              t.receipt)
                    \in {0, CirculationChange(a, t.receipt)}
  BY <1>1, <1>2, ReceiptTyped, SupplyIsCirculation DEF Indices
<1>4. amount # 0 /\ SupplyRows(a, t)[k] = row
  <2>1. SupplyRows(a, t) = IF amount = 0 THEN <<>> ELSE <<row>>
    BY DEF SupplyRows
  <2>. HIDE DEF amount, row
  <2>2. amount # 0
    BY <2>1
  <2>. QED BY <2>1, <2>2
<1>5. agreed => amount = CirculationChange(a, t.receipt)
  BY <1>3, <1>4 DEF EventsFor
<1>6. row.key[1] = "supply_change" /\ row.amount = <<amount>>
  BY DEF Row
<1>. HIDE DEF amount, row
<1>7. RowOnChain(row, t)
  BY <1>5, <1>6 DEF RowOnChain
<1>. QED BY <1>4, <1>7

LEMMA LiquidityRowsOnChain ==
    ASSUME BalancedEvents, NEW t \in Transactions, NEW a \in Handled(t),
           NEW k \in DOMAIN LiquidityRows(a, t)
    PROVE  RowOnChain(LiquidityRows(a, t)[k], t)
<1>. DEFINE amount(j) == PairAmountChanged(EventsFor(a, t), t.receipt, j)
            row == Row("liquidity_change", a, 0, <<amount(1), amount(2)>>)
            pair == Category[a] = "pair" /\ PairNames \subseteq Events[a]
<1>1. a \in Contracts /\ Category[a] \in Categories
  BY HandledContracts, TxAssumption
<1>2. PairNames \subseteq Events[a] \/ PairNames \cap Events[a] = {}
  BY <1>1 DEF BalancedEvents, PairNames
<1>3. \A j \in 1 .. 2 :
         amount(j) = IF pair THEN ReservesChange(a, t.receipt, j) ELSE 0
  BY <1>1, <1>2, ReceiptTyped, LiquidityIsReserves DEF EventsFor
<1>4. LiquidityRows(a, t) = IF amount(1) = 0 /\ amount(2) = 0 THEN <<>> ELSE <<row>>
  BY DEF LiquidityRows
<1>5. row.key[1] = "liquidity_change" /\ row.key[2] = a /\ row.amount = <<amount(1), amount(2)>>
  BY DEF Row
<1>. HIDE DEF amount, row, pair
<1>6. LiquidityRows(a, t)[k] = row /\ pair
  BY <1>3, <1>4
<1>7. /\ amount(1) = ReservesChange(a, t.receipt, 1)
      /\ amount(2) = ReservesChange(a, t.receipt, 2)
  BY <1>3, <1>6
<1>8. RowOnChain(row, t)
  BY <1>5, <1>7 DEF RowOnChain
<1>. QED BY <1>6, <1>8

LEMMA RowsOnChain ==
    ASSUME BalancedEvents, NEW t \in Transactions, NEW a \in Handled(t),
           NEW row \in ToSet(Found[t][a].rows)
    PROVE  RowOnChain(row, t)
<1>1. Found[t][a].rows = Rows(a, t)
  BY DEF Found
<1>2. \A r \in ToSet(NftRows(a, t)) : RowOnChain(r, t)
  BY NftRowsOnChain DEF ToSet
<1>3. \A r \in ToSet(SupplyRows(a, t)) : RowOnChain(r, t)
  BY SupplyRowsOnChain DEF ToSet
<1>4. \A r \in ToSet(LiquidityRows(a, t)) : RowOnChain(r, t)
  BY LiquidityRowsOnChain DEF ToSet
<1>. QED BY <1>1, <1>2, <1>3, <1>4, RowsType

WritesOnChain(w) == \A row \in ToSet(writes[w]) : RowOnChain(row, tx[msg[w]])
TableOnChain(m) == \A row \in eventRows[m] : RowOnChain(row, tx[m])

OnChainInv ==
    /\ \A w \in Workers : WritesOnChain(w)
    /\ \A m \in Messages : TableOnChain(m)

LEMMA NoElements == ToSet(<<>>) = {}
  BY DEF ToSet

LEMMA HeadTailElements ==
    ASSUME NEW S, NEW s \in Seq(S), s # <<>>
    PROVE  ToSet(Tail(s)) \subseteq ToSet(s) /\ Head(s) \in ToSet(s)
<1>1. /\ Len(s) \in Nat \ {0} /\ DOMAIN s = 1 .. Len(s) /\ Len(Tail(s)) = Len(s) - 1
      /\ DOMAIN Tail(s) = 1 .. Len(Tail(s)) /\ Head(s) = s[1]
      /\ \A k \in 1 .. Len(Tail(s)) : Tail(s)[k] = s[k + 1]
  BY LenProperties, EmptySeq, HeadTailProperties
<1>2. ASSUME NEW k \in DOMAIN Tail(s) PROVE Tail(s)[k] \in ToSet(s)
  <2>1. k + 1 \in DOMAIN s /\ Tail(s)[k] = s[k + 1]
    BY <1>1
  <2>. QED BY <2>1 DEF ToSet
<1>3. 1 \in DOMAIN s
  BY <1>1
<1>4. Head(s) \in ToSet(s)
  BY <1>1, <1>3 DEF ToSet
<1>. QED BY <1>2, <1>4 DEF ToSet

LEMMA InitOnChain == Init => OnChainInv
  BY NoElements DEF Init, OnChainInv, WritesOnChain, TableOnChain

(* What a worker still has to write is for the message it handles. *)
LEMMA WritesKept ==
    ASSUME OnChainInv, NEW v \in Workers, tx' = tx,
           (writes'[v] = writes[v] /\ msg'[v] = msg[v]) \/ writes'[v] = <<>>
    PROVE  WritesOnChain(v)'
  BY NoElements DEF OnChainInv, WritesOnChain

LEMMA StepWrites ==
    ASSUME BalancedEvents, TypeInv, OnChainInv, [Next]_vars, NEW v \in Workers
    PROVE  WritesOnChain(v)'
<1>0. TypeOK /\ tx' = tx
  BY Writers DEF TypeInv
<1>1. ASSUME NEW w \in Workers \ {v},
             \/ Step(w) \/ Fail(w) \/ \E m \in Messages : Deliver(w, m)
      PROVE  WritesOnChain(v)'
  BY <1>0, <1>1, OthersUnchanged, WritesKept
<1>2. CASE UNCHANGED <<msg, writes>> \/ Leave(v)
  <2>1. (writes'[v] = writes[v] /\ msg'[v] = msg[v]) \/ writes'[v] = <<>>
    BY <1>2 DEF Leave, TypeInv
  <2>. QED BY <1>0, <2>1, WritesKept
<1>3. ASSUME NEW m \in Messages, Deliver(v, m) PROVE WritesOnChain(v)'
  <2>1. writes'[v] = <<>>
    BY <1>0, <1>3 DEF Deliver, TypeOK
  <2>. QED BY <1>0, <2>1, WritesKept
<1>4. ASSUME NEW a \in Contracts, HandleTransactionEvents(v, a) PROVE WritesOnChain(v)'
  <2>1. tx[msg[v]] \in Transactions /\ a \in Handled(tx[msg[v]])
    BY <1>4, BusyWorker DEF HandleTransactionEvents
  <2>2. writes'[v] = Found[tx[msg[v]]][a].rows /\ msg' = msg
    BY <1>4 DEF HandleTransactionEvents, TypeInv
  <2>3. \A row \in ToSet(Found[tx[msg[v]]][a].rows) : RowOnChain(row, tx[msg[v]])
    BY <2>1, RowsOnChain
  <2>. QED BY <1>0, <2>2, <2>3 DEF WritesOnChain
<1>5. CASE InsertEventRow(v)
  <2>1. writes'[v] = Tail(writes[v]) /\ msg' = msg
    BY <1>5 DEF InsertEventRow, TypeInv
  <2>2. ToSet(Tail(writes[v])) \subseteq ToSet(writes[v])
    BY <1>5, HeadTailElements DEF InsertEventRow, TypeInv
  <2>. QED BY <1>0, <2>1, <2>2 DEF OnChainInv, WritesOnChain
<1>6. CASE \/ RequestGivesUp(v) \/ NoRequest(v) \/ SkipTransaction(v)
           \/ InsertInternalTransactions(v) \/ Fail(v)
  BY <1>2, <1>6 DEF RequestGivesUp, NoRequest, SkipTransaction,
                    InsertInternalTransactions, Fail, Return, Raise
<1>7. CASE \/ RequestTimesOut(v) \/ GetTransactionData(v) \/ GetReceiptData(v)
           \/ InsertTransaction(v) \/ InsertTransactionLogs(v)
           \/ GetInternalTransactions(v) \/ UNCHANGED vars
  BY <1>2, <1>7 DEF RequestTimesOut, GetTransactionData, GetReceiptData,
      InsertTransaction, InsertTransactionLogs, GetInternalTransactions, Return,
      vars, workerVars
<1>8. CASE \E w \in Workers : Step(w) \/ Fail(w) \/ \E m \in Messages : Deliver(w, m)
  <2>1. PICK w \in Workers : Step(w) \/ Fail(w) \/ \E m \in Messages : Deliver(w, m)
    BY <1>8
  <2>2. CASE w # v
    BY <1>1, <2>1, <2>2
  <2>3. CASE w = v
    BY <1>3, <1>4, <1>5, <1>6, <1>7, <2>1, <2>3 DEF Step
  <2>. QED BY <2>2, <2>3
<1>. QED BY <1>7, <1>8 DEF Next, Terminated

LEMMA StepTable ==
    ASSUME TypeInv, OnChainInv, [Next]_vars, NEW m \in Messages
    PROVE  TableOnChain(m)'
<1>0. tx' = tx /\ TableOnChain(m)
  BY Writers DEF OnChainInv
<1>1. CASE UNCHANGED eventRows
  BY <1>0, <1>1 DEF TableOnChain
<1>2. ASSUME NEW w \in Workers, InsertEventRow(w) PROVE TableOnChain(m)'
  <2>1. Head(writes[w]) \in ToSet(writes[w])
    BY <1>2, HeadTailElements DEF InsertEventRow, TypeInv
  <2>2. RowOnChain(Head(writes[w]), tx[msg[w]])
    BY <2>1 DEF OnChainInv, WritesOnChain
  <2>3. \/ eventRows'[m] = eventRows[m]
        \/ msg[w] = m /\ eventRows'[m] = eventRows[m] \cup {Head(writes[w])}
    BY <1>2 DEF InsertEventRow, TypeInv, Insert
  <2>. QED BY <1>0, <2>2, <2>3 DEF TableOnChain
<1>3. ASSUME NEW w \in Workers, \/ InsertTransaction(w) \/ InsertTransactionLogs(w)
                                \/ InsertInternalTransactions(w)
      PROVE  UNCHANGED eventRows
  BY <1>3 DEF InsertTransaction, InsertTransactionLogs, InsertInternalTransactions
<1>. QED BY <1>1, <1>2, <1>3, Writers DEF tables

(* The numbers in the database are what happened on the chain, whatever is *)
(* delivered again, fails or runs in between: a supply change is that of   *)
(* the circulation of one of the handled tokens, outside the two accounts  *)
(* the docs call burn addresses, if the receipt has no transfer with the   *)
(* second of them or inside the first (Agreed); a liquidity change is that *)
(* of the reserves of its pair, and an NFT transfer one in the receipt     *)
(* (tx_processor.py:109-174, erc20.py:33-89).                              *)
THEOREM StoredAmountsAreOnChain ==
    ASSUME BalancedEvents
    PROVE  Spec => []AmountsAreOnChain
<1>1. TypeInv /\ OnChainInv /\ [Next]_vars => OnChainInv'
  BY StepWrites, StepTable DEF OnChainInv
<1>2. OnChainInv => AmountsAreOnChain
  BY DEF OnChainInv, TableOnChain, RowOnChain, AmountsAreOnChain
<1>. QED BY <1>1, <1>2, InitOnChain, TypeInvariant, PTL DEF Spec
=============================================================================
