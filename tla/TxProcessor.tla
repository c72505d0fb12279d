---------------------------- MODULE TxProcessor -----------------------------
(***************************************************************************)
(* What a consumer does with a message: DataConsumer._on_kafka_event       *)
(* (app/consumer/__init__.py:84-103) fetches the transaction and its       *)
(* receipt from the node, and a transaction processor                      *)
(* (app/consumer/tx_processor.py) stores the rows it finds in them through *)
(* DatabaseManager (app/db/manager.py).                                    *)
(*                                                                         *)
(* Every worker has its own database connection and handles one message at *)
(* a time, but a message may be delivered again, to a second worker while  *)
(* the first one still handles it, or after a failure.  A step is the code *)
(* between two awaits; each statement or SQL transaction is one step.      *)
(*                                                                         *)
(* A message stands for a transaction: its mode, the address it is sent    *)
(* to, the address of the contract it creates (or NoAddress), its receipt, *)
(* and whether its trace holds internal transactions.                      *)
(***************************************************************************)
EXTENDS TransactionEvents, FiniteSets

CONSTANTS
    Workers,        \* DataConsumer tasks of all processes
    Messages,
    NoMessage,
    Transactions,   \* what a message may stand for
    NoAddress,      \* the empty to_address or contract_address
    Contracts,      \* the addresses of the contracts in the config
    Category,       \* Category[a]: category of the configured contract a
    Events,         \* Events[a]: the names of the events to be stored for a
    RetryLimits,    \* values of web3_requests_retry_limit
    MaxDeliveries,  \* bound: how often a message is delivered
    Failures        \* whether awaited calls may raise

ASSUME TxAssumption ==
    /\ IsFiniteSet(Workers)
    /\ NoMessage \notin Messages
    /\ NoAddress \notin Contracts
    /\ Category \in [Contracts -> Categories]
    /\ Events \in [Contracts -> SUBSET EventKinds]
    /\ \A t \in Transactions : /\ t.mode \in {"full", "partial", "get_logs"}
                               /\ t.receipt \in Seq(ToSet(t.receipt))
                               /\ \A log \in ToSet(t.receipt) : LogTyped(log)
    /\ RetryLimits \subseteq Nat
    /\ MaxDeliveries \in Nat
    /\ Failures \in BOOLEAN

VARIABLES
    tx,             \* the transaction of a message, as the node knows it
    retryLimit,
    \* one worker
    pc,             \* the await it is suspended in
    msg,            \* the message it handles
    attempt,        \* requests of the current call that have timed out
    todo,           \* contracts whose events are still to be handled
    writes,         \* event rows of the current contract, still to be inserted
    marked,         \* log_indices_to_save
    \* PostgreSQL
    transactions,   \* messages whose transaction has its row
    \* ... and what is stored of the transaction of each message:
    eventRows,      \* NFT transfers, supply and liquidity changes
    logs,           \* indices of its logs
    internals,      \* copies of its internal transactions
    \* history
    deliveries,
    completed,      \* messages whose callback has returned
    abandoned       \* messages whose callback has raised

workerVars == <<pc, msg, attempt, todo, writes, marked>>
tables == <<eventRows, transactions, logs, internals>>
history == <<deliveries, completed, abandoned>>
vars == <<tx, retryLimit, workerVars, tables, history>>

-----------------------------------------------------------------------------
(* What is to be stored of a transaction *)

Indices(t) == 1 .. Len(t.receipt)
EventAddresses(t) == {t.receipt[i].address : i \in Indices(t)}

(* The contracts of which a partial processor handles the events: those of *)
(* the whole receipt only if the called contract is not one of them.       *)
Handled(t) ==
    CASE t.mode # "partial" -> {}
      [] t.mode = "partial" /\ t.to \in Contracts -> {t.to}
      [] t.mode = "partial" /\ t.to = NoAddress -> {t.created} \cap Contracts
      [] OTHER -> EventAddresses(t) \cap Contracts

EventsFor(a, t) == ContractEvents(a, Category[a], Events[a], t.receipt)

(* Within its transaction an event row is identified by its table, address *)
(* and index, of which a table uses what its primary key names.            *)
Row(table, address, index, amount) ==
    [key |-> <<table, address, index>>, amount |-> amount]

(* One for every transfer of a token that cannot be exchanged, ...         *)
NftRows(a, t) ==
    LET transfers == Select(EventsFor(a, t),
                            LAMBDA e : e.name = "TransferNonFungibleEvent")
    IN  [k \in 1 .. Len(transfers) |->
            Row("nft_transfer", NoAddress, transfers[k].index, <<>>)]

(* ... one for the change of the supply, under the address of the event    *)
(* the loop happens to end with, ...                                       *)
SupplyRows(a, t) ==
    LET amount == AmountChanged(EventsFor(a, t), t.receipt)
        event == Last(EventsOf(Category[a], t.receipt))
    IN  IF amount = 0 THEN <<>>
        ELSE <<Row("supply_change", t.receipt[event.index].address, 0, <<amount>>)>>

(* ... and one for the change of the liquidity of a pair.                  *)
LiquidityRows(a, t) ==
    LET amount(i) == PairAmountChanged(EventsFor(a, t), t.receipt, i)
    IN  IF amount(1) = 0 /\ amount(2) = 0 THEN <<>>
        ELSE <<Row("liquidity_change", a, 0, <<amount(1), amount(2)>>)>>

(* Nothing is stored of a created contract itself: is_erc and              *)
(* is_uniswap_pair compare a category's value with members of the          *)
(* enumeration, are never true, and _handle_contract_creation returns.     *)
CreationRows(category) == <<>>

Rows(a, t) ==
    CreationRows(Category[a]) \o NftRows(a, t) \o SupplyRows(a, t)
        \o LiquidityRows(a, t)

EventIndices(a, t) == {e.index : e \in ToSet(EventsFor(a, t))}

(* Both, for every contract handled in a transaction. *)
Found ==
    [t \in Transactions |->
        [a \in Handled(t) |->
            [rows |-> Rows(a, t), indices |-> EventIndices(a, t)]]]

(* Whether the transaction itself is stored, given the indices its events  *)
(* have marked, and which of its logs.                                     *)
ShouldSave(t, indices) ==
    \/ t.mode # "partial"
    \/ t.to \in Contracts
    \/ t.to = NoAddress /\ t.created \in Contracts
    \/ t.to # NoAddress /\ indices # {}

LogsToSave(t, indices) == IF t.mode = "partial" THEN indices ELSE Indices(t)

-----------------------------------------------------------------------------
Init ==
    /\ tx \in [Messages -> Transactions]
    /\ retryLimit \in RetryLimits
    /\ pc = [w \in Workers |-> "idle"]
    /\ msg = [w \in Workers |-> NoMessage]
    /\ attempt = [w \in Workers |-> 0]
    /\ todo = [w \in Workers |-> {}]
    /\ writes = [w \in Workers |-> <<>>]
    /\ marked = [w \in Workers |-> {}]
    /\ transactions = {}
    /\ eventRows = [m \in Messages |-> {}]
    /\ logs = [m \in Messages |-> {}]
    /\ internals = [m \in Messages |-> 0]
    /\ deliveries = [m \in Messages |-> 0]
    /\ completed = {} /\ abandoned = {}

Goto(w, label) == pc' = [pc EXCEPT ![w] = label]

(* The callback has returned or raised: nothing of it is left but rows.    *)
Leave(w) ==
    /\ pc' = [pc EXCEPT ![w] = "idle"]
    /\ msg' = [msg EXCEPT ![w] = NoMessage]
    /\ attempt' = [attempt EXCEPT ![w] = 0]
    /\ todo' = [todo EXCEPT ![w] = {}]
    /\ writes' = [writes EXCEPT ![w] = <<>>]
    /\ marked' = [marked EXCEPT ![w] = {}]

Return(w) ==
    /\ Leave(w)
    /\ completed' = completed \cup {msg[w]}
    /\ UNCHANGED abandoned

Raise(w) ==
    /\ Leave(w)
    /\ abandoned' = abandoned \cup {msg[w]}
    /\ UNCHANGED completed

(* Kafka hands the message to a worker, perhaps not for the first time.    *)
Deliver(w, m) ==
    /\ pc[w] = "idle" /\ deliveries[m] < MaxDeliveries
    /\ deliveries' = [deliveries EXCEPT ![m] = @ + 1]
    /\ msg' = [msg EXCEPT ![w] = m]
    /\ Goto(w, "transaction")
    /\ UNCHANGED <<tx, retryLimit, attempt, todo, writes, marked, tables,
                   completed, abandoned>>

-----------------------------------------------------------------------------
(* The node, behind the retry middleware *)

Requesting(w) == pc[w] \in {"transaction", "receipt", "trace"}

LastAttempt_Forgotten(w) == FALSE   \* mutant: the exception is not raised again
LastAttempt(w) == attempt[w] + 1 >= retryLimit

RequestTimesOut(w) ==
    /\ Requesting(w) /\ attempt[w] < retryLimit
    /\ ~LastAttempt(w)
    /\ attempt' = [attempt EXCEPT ![w] = @ + 1]
    /\ UNCHANGED <<tx, retryLimit, pc, msg, todo, writes, marked, tables, history>>

RequestGivesUp(w) ==
    /\ Requesting(w) /\ attempt[w] < retryLimit
    /\ LastAttempt(w)
    /\ Raise(w)
    /\ UNCHANGED <<tx, retryLimit, tables, deliveries>>

(* With a limit of 0 the middleware asks nobody and returns None, which    *)
(* web3 or the subscript of the caller refuses.                            *)
NoRequest(w) ==
    /\ Requesting(w) /\ retryLimit = 0
    /\ Raise(w)
    /\ UNCHANGED <<tx, retryLimit, tables, deliveries>>

Answered(w) ==
    /\ Requesting(w) /\ attempt[w] < retryLimit
    /\ attempt' = [attempt EXCEPT ![w] = 0]

GetTransactionData(w) ==
    /\ pc[w] = "transaction" /\ Answered(w)
    /\ Goto(w, "receipt")
    /\ UNCHANGED <<tx, retryLimit, msg, todo, writes, marked, tables, history>>

(* The processor of the mode; anything but partial is stored as it is.     *)
GetReceiptData(w) ==
    /\ pc[w] = "receipt" /\ Answered(w)
    /\ todo' = [todo EXCEPT ![w] = Handled(tx[msg[w]])]
    /\ Goto(w, "events")
    /\ UNCHANGED <<tx, retryLimit, msg, writes, marked, tables, history>>

-----------------------------------------------------------------------------
(* PostgreSQL *)

(* _handle_transaction_events for one more contract; the addresses come    *)
(* from a set, whose order differs from process to process.                *)
HandleTransactionEvents(w, a) ==
    /\ pc[w] = "events" /\ writes[w] = <<>> /\ a \in todo[w]
    /\ todo' = [todo EXCEPT ![w] = @ \ {a}]
    /\ writes' = [writes EXCEPT ![w] = Found[tx[msg[w]]][a].rows]
    /\ marked' = [marked EXCEPT ![w] = @ \cup Found[tx[msg[w]]][a].indices]
    /\ UNCHANGED <<tx, retryLimit, pc, msg, attempt, tables, history>>

(* ON CONFLICT (...) DO NOTHING: the row that came first stays. *)
Keys(rows) == {r.key : r \in rows}

Insert_Update(rows, row) ==   \* mutant: the row that comes last stays
    {r \in rows : r.key # row.key} \cup {row}
Insert(rows, row) == IF row.key \in Keys(rows) THEN rows ELSE rows \cup {row}

InsertEventRow(w) ==
    /\ pc[w] = "events" /\ writes[w] # <<>>
    /\ eventRows' = [eventRows EXCEPT ![msg[w]] = Insert(@, Head(writes[w]))]
    /\ writes' = [writes EXCEPT ![w] = Tail(@)]
    /\ UNCHANGED <<tx, retryLimit, pc, msg, attempt, todo, marked, transactions,
                   logs, internals, history>>

EventsHandled(w) == pc[w] = "events" /\ writes[w] = <<>> /\ todo[w] = {}

(* Nothing of interest: process_transaction returns False. *)
SkipTransaction(w) ==
    /\ EventsHandled(w) /\ ~ShouldSave(tx[msg[w]], marked[w])
    /\ Return(w)
    /\ UNCHANGED <<tx, retryLimit, tables, deliveries>>

AfterTransaction_Trace(w) == "trace"   \* mutant: the logs are not stored
AfterTransaction(w) == "logs"

InsertTransaction(w) ==
    /\ EventsHandled(w) /\ ShouldSave(tx[msg[w]], marked[w])
    /\ transactions' = transactions \cup {msg[w]}
    /\ Goto(w, AfterTransaction(w))
    /\ UNCHANGED <<tx, retryLimit, msg, attempt, todo, writes, marked,
                   eventRows, logs, internals, history>>

(* All of them in one SQL transaction *)
InsertTransactionLogs(w) ==
    /\ pc[w] = "logs"
    /\ logs' = [logs EXCEPT ![msg[w]] = @ \cup LogsToSave(tx[msg[w]], marked[w])]
    /\ Goto(w, "trace")
    /\ UNCHANGED <<tx, retryLimit, msg, attempt, todo, writes, marked,
                   eventRows, transactions, internals, history>>

GetInternalTransactions(w) ==
    /\ pc[w] = "trace" /\ attempt[w] < retryLimit
    /\ IF tx[msg[w]].traced
       THEN /\ Answered(w)
            /\ Goto(w, "internals")
            /\ UNCHANGED <<msg, todo, writes, marked, completed, abandoned>>
       ELSE Return(w)
    /\ UNCHANGED <<tx, retryLimit, tables, deliveries>>

(* No conflict clause: a redelivered message stores them once more.        *)
InsertInternalTransactions(w) ==
    /\ pc[w] = "internals"
    /\ internals' = [internals EXCEPT ![msg[w]] = @ + 1]
    /\ Return(w)
    /\ UNCHANGED <<tx, retryLimit, eventRows, transactions, logs, deliveries>>

(* The node or PostgreSQL raises, or the process ends: what was committed  *)
(* stays, an open SQL transaction is rolled back.                          *)
Fail(w) ==
    /\ Failures
    /\ pc[w] # "idle"
    /\ Raise(w)
    /\ UNCHANGED <<tx, retryLimit, tables, deliveries>>

-----------------------------------------------------------------------------
Step(w) ==
    \/ RequestTimesOut(w) \/ RequestGivesUp(w) \/ NoRequest(w)
    \/ GetTransactionData(w) \/ GetReceiptData(w)
    \/ \E a \in Contracts : HandleTransactionEvents(w, a)
    \/ InsertEventRow(w)
    \/ SkipTransaction(w) \/ InsertTransaction(w) \/ InsertTransactionLogs(w)
    \/ GetInternalTransactions(w) \/ InsertInternalTransactions(w)

Terminated ==
    /\ \A m \in Messages : deliveries[m] = MaxDeliveries
    /\ \A w \in Workers : pc[w] = "idle"
    /\ UNCHANGED vars

Next ==
    \/ \E w \in Workers :
          (\E m \in Messages : Deliver(w, m)) \/ Step(w) \/ Fail(w)
    \/ Terminated

Spec == Init /\ [][Next]_vars

(* Awaited calls answer or time out. *)
FairSpec == Spec /\ \A w \in Workers : WF_vars(Step(w))
-----------------------------------------------------------------------------
(* What a transaction leaves when all is done: the keys of its event rows, *)
(* whether it is saved, and the indices of its logs.                       *)
Marked(t) == UNION {Found[t][a].indices : a \in Handled(t)}

Leaves ==
    [t \in Transactions |->
        [events |-> UNION {Keys(ToSet(Found[t][a].rows)) : a \in Handled(t)},
         saved |-> ShouldSave(t, Marked(t)),
         logs |-> LogsToSave(t, Marked(t))]]

TypeOK ==
    /\ tx \in [Messages -> Transactions]
    /\ retryLimit \in RetryLimits
    /\ pc \in [Workers -> {"idle", "transaction", "receipt", "events", "logs",
                            "trace", "internals"}]
    /\ msg \in [Workers -> Messages \cup {NoMessage}]
    /\ attempt \in [Workers -> Nat]
    /\ \A w \in Workers : attempt[w] = 0 \/ attempt[w] < retryLimit
    /\ todo \in [Workers -> SUBSET Contracts]
    /\ \A w \in Workers : pc[w] = "idle" <=> msg[w] = NoMessage
    /\ \A w \in Workers : writes[w] # <<>> \/ todo[w] # {} => pc[w] = "events"
    /\ \A w \in Workers : marked[w] \subseteq Nat
    /\ transactions \subseteq Messages
    /\ DOMAIN eventRows = Messages
    /\ \A m \in Messages : logs[m] \subseteq Indices(tx[m])
    /\ internals \in [Messages -> Nat]
    /\ deliveries \in [Messages -> 0 .. MaxDeliveries]
    /\ completed \subseteq Messages /\ abandoned \subseteq Messages

(* What adds to a sum is configured together with what subtracts from it,  *)
(* as for every contract of etc/cfg/prod/eth.json.                         *)
BalancedEvents ==
    \A a \in Contracts :
        /\ {"MintFungibleEvent", "BurnFungibleEvent"} \cap Events[a] # {} =>
              {"MintFungibleEvent", "BurnFungibleEvent"} \subseteq Events[a]
        /\ {"MintPairEvent", "BurnPairEvent", "SwapPairEvent"} \cap Events[a] # {} =>
              {"MintPairEvent", "BurnPairEvent", "SwapPairEvent"} \subseteq Events[a]

(* The numbers in the database are what happened on the chain: a supply    *)
(* change is that of the circulation of one of the handled tokens, a       *)
(* liquidity change that of the reserves of its pair                       *)
(* (tx_processor.py:109-174, erc20.py, uniswap_pair.py).  This is so for a *)
(* configuration with BalancedEvents, and for supplies in receipts all of  *)
(* whose transfers are Agreed: BurnsAreCounted is about the others.        *)
AmountsAreOnChain ==
    \A m \in Messages : \A row \in eventRows[m] :
        LET t == tx[m]
        IN  CASE row.key[1] = "supply_change" ->
                    (\A i \in Indices(t) : Agreed(t.receipt[i])) =>
                        \E a \in Handled(t) :
                            row.amount = <<CirculationChange(a, t.receipt)>>
              [] row.key[1] = "liquidity_change" ->
                    row.amount = <<ReservesChange(row.key[2], t.receipt, 1),
                                   ReservesChange(row.key[2], t.receipt, 2)>>
              [] OTHER -> t.receipt[row.key[3]].event = "TransferToken"

(* Of transactions and logs, a partial collection stores only those that   *)
(* concern a configured contract: transactions that call, create or log    *)
(* one of them, and only its logs (tx_processor.py:237-251, 340-373).      *)
Concerns(t) ==
    t.to \in Contracts \/ t.created \in Contracts
        \/ EventAddresses(t) \cap Contracts # {}

OnlyRelevantStored ==
    \A m \in Messages : tx[m].mode = "partial" =>
        /\ m \in transactions => Concerns(tx[m])
        /\ \A i \in logs[m] : tx[m].receipt[i].address \in Contracts

(* When the callback returns, and Kafka may forget the message, everything *)
(* the transaction leaves is in the database; the internal transactions    *)
(* at most once for each delivery (tx_processor.py:191-216).               *)
StoredOnReturn ==
    \A m \in completed :
        LET leaves == Leaves[tx[m]]
        IN  /\ leaves.events \subseteq Keys(eventRows[m])
            /\ leaves.saved => m \in transactions /\ leaves.logs \subseteq logs[m]
            /\ leaves.saved /\ tx[m].traced => internals[m] \in 1 .. deliveries[m]

(* Once a message was handled to the end, handling it again, by whomever   *)
(* and in whatever order, changes nothing but the number of copies of its  *)
(* internal transactions (db/manager.py: the ON CONFLICT clauses).         *)
Stored(m) == <<eventRows[m], m \in transactions, logs[m]>>

RedeliveryIsHarmless == [][\A m \in completed : Stored(m)' = Stored(m)]_vars

(* The tables of a transaction are filled in the order of                  *)
(* TransactionStore, whatever is delivered, fails or runs in between.      *)
Store == INSTANCE TransactionStore WITH
             wanted <- [m \in Messages |-> Leaves[tx[m]]],
             events <- eventRows, saved <- transactions, copies <- internals

ImplementsStore == Store!Spec

(* Every delivery comes to an end: the retries of the three requests are   *)
(* bounded (node_connector.py:32-49).                                      *)
EveryDeliveryEnds == \A w \in Workers : pc[w] # "idle" ~> pc[w] = "idle"

(* tx_processor.py:240-241 "Save only the transactions that are related to *)
(* the contracts in the config and only their respective events."          *)
OnlyConfiguredSupplies ==
    \A m \in Messages : \A row \in eventRows[m] :
        row.key[1] = "supply_change" => row.key[2] \in Contracts

(* transaction_events/README.md:40 "a transfer from account `account` to   *)
(* burn addresses", of which line 43 names 0x...dead: when a message has   *)
(* been handled, each token that stores its mints and burns has the supply *)
(* change of the transaction, burns at both burn accounts included.        *)
BurnsAreCounted ==
    \A m \in completed :
        LET t == tx[m]
        IN  \A a \in Handled(t) :
                LET change == CirculationChange(a, t.receipt)
                IN  /\ Category[a] = "erc20" /\ change # 0
                    /\ {"MintFungibleEvent", "BurnFungibleEvent"} \subseteq Events[a]
                    => \E row \in eventRows[m] :
                          row.key[1] = "supply_change" /\ row.amount = <<change>>
=============================================================================
