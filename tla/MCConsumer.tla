----------------------------- MODULE MCConsumer -----------------------------
(* A small consumer group for TLC: consumers and processes are model       *)
(* values.                                                                 *)
EXTENDS Consumer, TLC

CONSTANTS c1, c2, w1

(* team: two consumer tasks of one process *)
TeamConsumers == {c1, c2}
TeamProcesses == {w1}
TeamProcessOf == (c1 :> w1) @@ (c2 :> w1)

AllFaults == FaultKinds
NoFaults == {}
=============================================================================
