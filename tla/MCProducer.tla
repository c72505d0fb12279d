----------------------------- MODULE MCProducer -----------------------------
(* Small producers for TLC.  Each group of definitions gives the runs of   *)
(* its name their constants; the tasks are model values.                   *)
EXTENDS Producer, TLC

CONSTANTS full, partial, logs, filter

NoFaults == {}
CrashOnly == {"crash"}
ErrorsOnly == {"error"}

(* Chunks hold two messages: one block needs two of them, the other none.  *)
Chain == [b \in 0 .. 1 |-> IF b = 0 THEN 3 ELSE 0]
LateChain == [b \in 0 .. 1 |-> IF b = 1 THEN 3 ELSE 0]
FullChain == [b \in 0 .. 1 |-> 3]

(* mixed: a partial task beside a get_logs task, as in a config     *)
(* with two entries that do not compete for the database.                  *)
MixedTasks == {partial, logs}
MixedMode == (partial :> "partial") @@ (logs :> "get_logs")
MixedStart == (partial :> 0) @@ (logs :> None)
MixedEnd == (partial :> 1) @@ (logs :> None)
MixedLogCount == (partial :> 0) @@ (logs :> 1)

(* contention: two tasks that use the connection and one that raises; the  *)
(* full task has neither a start nor an end block.                         *)
RivalTasks == {full, partial, filter}
RivalMode == (full :> "full") @@ (partial :> "partial") @@ (filter :> "log_filter")
RivalStart == (full :> None) @@ (partial :> 1) @@ (filter :> None)
RivalEnd == (full :> None) @@ (partial :> 1) @@ (filter :> None)
RivalLogCount == [t \in RivalTasks |-> 0]
RivalChain == [b \in 0 .. 1 |-> b]

(* single: one full task over the chain.                                   *)
SingleTasks == {full}
SingleMode == (full :> "full")
SingleStart == (full :> 0)
SingleNoStart == (full :> None)
SingleEnd == (full :> 1)
SingleLogCount == (full :> 0)
=============================================================================
