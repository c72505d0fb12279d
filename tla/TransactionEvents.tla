------------------------- MODULE TransactionEvents --------------------------
(***************************************************************************)
(* What a transaction says about a tracked contract: the event mappers of  *)
(* app/web3/transaction_events turn the logs of a receipt into canonical   *)
(* events, and the supply or liquidity change of the transaction is summed *)
(* up from those (app/consumer/tx_processor.py:97-177).                    *)
(*                                                                         *)
(* A receipt is a sequence of logs; a log's position is its logIndex.  A   *)
(* log has an address and an event, the name of the event its topics stand *)
(* for (an ERC-20 Transfer has three topics, an ERC-721 one four, so they  *)
(* differ: "TransferToken").  Fungible logs have a value, transfers src    *)
(* and dst, pair logs the amounts that went in and out of the pair.        *)
(***************************************************************************)
EXTENDS FiniteSums, Sequences, SequencesExt

(* The burn addresses as the mappers write them, and the second of them as *)
(* web3.py, which checksums every address it decodes, hands it to them.    *)
Zero == "0x0000000000000000000000000000000000000000"
LowerDead == "0x000000000000000000000000000000000000dead"
BurnAddresses == {Zero, LowerDead}
Dead == "0x000000000000000000000000000000000000dEaD"

Categories == {"unknown", "erc20", "erc721", "erc1155", "factory", "pair"}

(* The subclasses of ContractEvent *)
EventKinds == {
    "MintFungibleEvent", "BurnFungibleEvent", "TransferFungibleEvent",
    "PairCreatedEvent", "MintPairEvent", "BurnPairEvent", "SwapPairEvent",
    "MintNonFungibleEvent", "BurnNonFungibleEvent", "TransferNonFungibleEvent"}

(* The mappers of a category in the order they are registered, by the      *)
(* event each of them looks for.                                           *)
Mappers(category) ==
    CASE category = "erc20" -> <<"Transfer", "Issue", "Redeem">>
      [] category = "erc721" -> <<"TransferToken">>
      [] category = "pair" -> <<"Mint", "Burn", "Swap">>
      [] category = "factory" -> <<"PairCreated">>
      [] OTHER -> <<>>

(* A transfer is also a burn or a mint.  Burning comes first: a transfer   *)
(* between two burn addresses is a burn, `pass` does not skip it.          *)
TransferNames(log, burn, mint, transfer) ==
    IF log.dst \in BurnAddresses THEN <<burn, transfer>>
    ELSE IF log.src \in BurnAddresses THEN <<mint, transfer>>
    ELSE <<transfer>>

Erc20Transfer(log) ==
    TransferNames(log, "BurnFungibleEvent", "MintFungibleEvent",
                  "TransferFungibleEvent")

Erc20Supply(log) ==
    IF log.event = "Issue" THEN <<"MintFungibleEvent">>
    ELSE <<"BurnFungibleEvent">>

Erc721Transfer(log) ==
    TransferNames(log, "BurnNonFungibleEvent", "MintNonFungibleEvent",
                  "TransferNonFungibleEvent")

PairTrade(log) ==
    CASE log.event = "Mint" -> <<"MintPairEvent">>
      [] log.event = "Burn" -> <<"BurnPairEvent">>
      [] log.event = "Swap" -> <<"SwapPairEvent">>

PairCreation(log) == <<"PairCreatedEvent">>

EventNames(log) ==
    CASE log.event = "Transfer" -> Erc20Transfer(log)
      [] log.event \in {"Issue", "Redeem"} -> Erc20Supply(log)
      [] log.event = "TransferToken" -> Erc721Transfer(log)
      [] log.event \in {"Mint", "Burn", "Swap"} -> PairTrade(log)
      [] log.event = "PairCreated" -> PairCreation(log)

(* process_receipt decodes the logs of every contract in the receipt; what *)
(* does not match is discarded.                                            *)
MapLogs(receipt, event) ==
    FlattenSeq([i \in 1 .. Len(receipt) |->
        IF receipt[i].event # event THEN <<>>
        ELSE LET names == EventNames(receipt[i])
             IN  [n \in 1 .. Len(names) |-> [name |-> names[n], index |-> i]]])

(* get_transaction_events: an event is its name and the index of its log. *)
EventsOf(category, receipt) ==
    LET mappers == Mappers(category)
    IN  FlattenSeq([k \in 1 .. Len(mappers) |-> MapLogs(receipt, mappers[k])])

-----------------------------------------------------------------------------
(* SelectSeq, of which the provers do not know the definition. *)
Select(s, Test(_)) ==
    FlattenSeq([i \in 1 .. Len(s) |-> IF Test(s[i]) THEN <<s[i]>> ELSE <<>>])

(* The events of the contract that are to be stored. *)
Relevant_AnyAddress(address, receipt, allowed, e) == e.name \in allowed   \* mutant
Relevant(address, receipt, allowed, e) ==
    e.name \in allowed /\ receipt[e.index].address = address

ContractEvents(address, category, allowed, receipt) ==
    Select(EventsOf(category, receipt),
           LAMBDA e : Relevant(address, receipt, allowed, e))

(* The amounts of a log are unsigned integers, its addresses checksummed.  *)
LogTyped(log) ==
    /\ log.event \in {"Transfer", "Issue", "Redeem"} => log.value \in Nat
    /\ log.event \in {"Mint", "Burn", "Swap"} =>
          \A i \in 1 .. 2 : log.in[i] \in Nat /\ log.out[i] \in Nat
    /\ log.event = "Transfer" => LowerDead \notin {log.src, log.dst}

(* What an event adds to amount_changed, and to the two pair amounts. *)
Amount(log, name) ==
    CASE name = "MintFungibleEvent" -> log.value
      [] name = "BurnFungibleEvent" -> -log.value
      [] OTHER -> 0

PairAmount_SwapIn(log, name, i) ==   \* mutant: what a swap takes out is forgotten
    CASE name = "MintPairEvent" -> log.in[i]
      [] name = "BurnPairEvent" -> -log.out[i]
      [] name = "SwapPairEvent" -> log.in[i]
      [] OTHER -> 0
PairAmount(log, name, i) ==
    CASE name = "MintPairEvent" -> log.in[i]
      [] name = "BurnPairEvent" -> -log.out[i]
      [] name = "SwapPairEvent" -> log.in[i] - log.out[i]
      [] OTHER -> 0

SumOf(s, Value(_)) == SumOver([k \in DOMAIN s |-> Value(s[k])])

AmountChanged(events, receipt) ==
    SumOf(events, LAMBDA e : Amount(receipt[e.index], e.name))

PairAmountChanged(events, receipt, i) ==
    SumOf(events, LAMBDA e : PairAmount(receipt[e.index], e.name, i))

-----------------------------------------------------------------------------
(* References for the sums, from the logs alone.                           *)
(*                                                                         *)
(* What a fungible token has in circulation is what lies outside the burn  *)
(* accounts: the two that transaction_events/README.md:40-43 and the unit  *)
(* tests name, as accounts, however their addresses are written.           *)
BurnAccounts == {Zero, Dead}

Counted(cond, value) == IF cond THEN value ELSE 0

Circulation(log) ==
    CASE log.event = "Issue" -> log.value
      [] log.event = "Redeem" -> -log.value
      [] log.event = "Transfer" ->
            Counted(log.src \in BurnAccounts, log.value)
                - Counted(log.dst \in BurnAccounts, log.value)
      [] OTHER -> 0

CirculationChange(address, receipt) ==
    SumOf(receipt, LAMBDA log : Counted(log.address = address, Circulation(log)))

(* Where the code takes another view of a transfer: it does not recognise  *)
(* Dead, and it counts a transfer from Zero to Zero as a burn.             *)
Agreed(log) ==
    log.event = "Transfer" =>
        Dead \notin {log.src, log.dst} /\ {log.src, log.dst} # {Zero}

(* A pair holds what went in and did not come out. *)
Reserves(log, i) ==
    Counted(log.event \in {"Mint", "Swap"}, log.in[i])
        - Counted(log.event \in {"Burn", "Swap"}, log.out[i])

ReservesChange(address, receipt, i) ==
    SumOf(receipt, LAMBDA log : Counted(log.address = address, Reserves(log, i)))
=============================================================================
