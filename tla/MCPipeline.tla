----------------------------- MODULE MCPipeline -----------------------------
(* A producer with one task and two consumer processes for TLC.            *)
EXTENDS Pipeline, TLC

CONSTANTS partial, c1, c2, w1, w2

OneTask == {partial}
OneTaskMode == (partial :> "partial")
OneTaskStart == (partial :> 0)
OneTaskEnd == (partial :> 2)
OneTaskLogCount == (partial :> 0)

(* The third block finds more than two messages in the topic, unless the   *)
(* consumers have been quick.                                              *)
Chain == [b \in 0 .. 2 |-> <<2, 1, 3>>[b + 1]]

PairConsumers == {c1, c2}
PairProcesses == {w1, w2}
PairProcessOf == (c1 :> w1) @@ (c2 :> w2)

NoFaults == {}
=============================================================================
