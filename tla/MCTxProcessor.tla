--------------------------- MODULE MCTxProcessor ----------------------------
(* Small collections for TLC: two ERC-20 tokens, of which one stores only  *)
(* mints and burns, an ERC-721 token, a pair and a factory are configured. *)
EXTENDS TxProcessor, TLC

CONSTANTS m1, w1, w2

TwoWorkers == {w1, w2}
OneWorker == {w1}
OneMessage == {m1}

ConfigCategory ==
    ("usd" :> "erc20") @@ ("eur" :> "erc20") @@ ("ape" :> "erc721")
        @@ ("pool" :> "pair") @@ ("dex" :> "factory")
ConfigContracts == DOMAIN ConfigCategory
ConfigEvents ==
    ("usd" :> {"MintFungibleEvent", "BurnFungibleEvent",
               "TransferFungibleEvent"})
        @@ ("eur" :> {"MintFungibleEvent", "BurnFungibleEvent"})
        @@ ("ape" :> {"TransferNonFungibleEvent", "MintNonFungibleEvent"})
        @@ ("pool" :> {"MintPairEvent", "BurnPairEvent", "SwapPairEvent"})
        @@ ("dex" :> {"PairCreatedEvent"})

Transfer(address, src, dst, value) ==
    [address |-> address, event |-> "Transfer",
     src |-> src, dst |-> dst, value |-> value]
Token(address, src, dst) ==
    [address |-> address, event |-> "TransferToken", src |-> src, dst |-> dst]
Supply(address, event, value) ==
    [address |-> address, event |-> event, value |-> value]
Trade(address, event, in, out) ==
    [address |-> address, event |-> event, in |-> in, out |-> out]
Other(address, event) == [address |-> address, event |-> event]

(* Every event of every category, of configured contracts and of others.   *)
Logs == {
    Transfer("usd", Zero, "alice", 1), Transfer("usd", "alice", Zero, 2),
    Transfer("usd", "alice", Dead, 2), Transfer("usd", Zero, Zero, 3),
    Supply("usd", "Issue", 2), Supply("usd", "Redeem", 1),
    Transfer("eur", "alice", "bob", 1), Transfer("eur", "alice", Zero, 2),
    Transfer("shib", Zero, "alice", 5),
    Token("ape", "alice", "bob"), Token("kitty", Zero, "bob"),
    Trade("pool", "Mint", <<2, 1>>, <<0, 0>>),
    Trade("pool", "Burn", <<0, 0>>, <<2, 1>>),
    Trade("pool", "Swap", <<1, 0>>, <<0, 1>>),
    Other("dex", "PairCreated"), Other("pool", "Approval")}

ShortReceipts == UNION {[1 .. n -> Logs] : n \in 0 .. 1} \cup {
    <<Token("ape", Zero, "bob"), Transfer("usd", Zero, "bob", 1),
      Token("ape", "bob", Zero)>>,
    <<Transfer("usd", Zero, "bob", 2), Transfer("eur", "bob", Zero, 1),
      Supply("usd", "Issue", 1)>>,
    <<Trade("pool", "Mint", <<2, 1>>, <<0, 0>>), Transfer("usd", "bob", Zero, 1),
      Trade("pool", "Swap", <<1, 0>>, <<0, 1>>)>>}
Receipts == ShortReceipts \cup [1 .. 2 -> Logs]

Tx(mode, to, created, receipt, traced) ==
    [mode |-> mode, to |-> to, created |-> created, receipt |-> receipt,
     traced |-> traced]

(* Calls of a contract that is not configured, with every pair of logs;    *)
(* calls of a configured one, creations of both; a transaction that is     *)
(* stored as a whole, whatever it holds.                                   *)
RouterTransactions == {Tx("partial", "router", "", r, TRUE) : r \in Receipts}
OneLogTransactions == {Tx("partial", "router", "", <<log>>, TRUE) : log \in Logs}
PartialTransactions ==
    RouterTransactions
        \cup {Tx("partial", to, "", r, TRUE) :
                  to \in {"usd", "pool"}, r \in ShortReceipts}
        \cup {Tx("partial", "", created, r, FALSE) :
                  created \in {"eur", "kitty"}, r \in ShortReceipts}
WholeTransactions ==
    {Tx(mode, "router", "",
        <<Other("pool", "Approval"), Token("kitty", Zero, "bob")>>, TRUE) :
            mode \in {"full", "get_logs"}}

AllTransactions == PartialTransactions \cup WholeTransactions

ASSUME ConfigIsBalanced == BalancedEvents
=============================================================================
