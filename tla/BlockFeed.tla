------------------------------ MODULE BlockFeed ------------------------------
(***************************************************************************)
(* What the data producer promises to whoever reads its topic: each task   *)
(* goes through its blocks in order, leaves a block only when all of its   *)
(* messages are accounted for, and reports success only when its whole     *)
(* range is.  Partitions, chunks, counters, stalls and the database        *)
(* connection are the business of module Producer.                         *)
(***************************************************************************)
EXTENDS Naturals

CONSTANTS
    Tasks,
    Size(_, _),       \* Size(t, b): the number of messages t makes of block b
    Range(_, _)       \* Range(t, b): the blocks of t if it starts at b

VARIABLES
    feed,             \* messages accounted for: published, or given up aloud
    start, cursor,    \* the task's first and current block
    status,           \* the task's state
    succeeded         \* the process has exited with code 0

vars == <<feed, start, cursor, status, succeeded>>

Messages(t, b) == {<<t, b, k>> : k \in 1 .. Size(t, b)}

Init ==
    /\ feed = {}
    /\ start = [t \in Tasks |-> 0]
    /\ cursor = [t \in Tasks |-> 0]
    /\ status = [t \in Tasks |-> "working"]
    /\ succeeded = FALSE

(* The task learns where it starts. *)
Position(t) ==
    /\ cursor[t] = 0
    /\ start'[t] \in Nat
    /\ start' = [start EXCEPT ![t] = start'[t]]
    /\ cursor' = [cursor EXCEPT ![t] = start'[t]]
    /\ UNCHANGED <<feed, status, succeeded>>

(* Some messages of the current block, and of no other, are handed over;   *)
(* the block is one of the task's range.                                   *)
Offer(t) ==
    /\ status[t] = "working"
    /\ cursor[t] \in Range(t, start[t])
    /\ feed \subseteq feed' /\ feed # feed'
    /\ feed' \subseteq feed \cup Messages(t, cursor[t])
    /\ UNCHANGED <<start, cursor, status, succeeded>>

Complete(t) ==
    /\ status[t] = "working"
    /\ cursor' = [cursor EXCEPT ![t] = @ + 1]
    /\ Messages(t, cursor[t]) \subseteq feed
    /\ \/ UNCHANGED status
       \/ status' = [status EXCEPT ![t] = "failed"]
    /\ UNCHANGED <<feed, start, succeeded>>

Succeed(t) ==
    /\ status[t] = "working"
    /\ \A b \in Range(t, start[t]) : Messages(t, b) \subseteq feed
    /\ status' = [status EXCEPT ![t] = "ok"]
    /\ UNCHANGED <<feed, start, cursor, succeeded>>

Fail(t) ==
    /\ status[t] = "working"
    /\ status' = [status EXCEPT ![t] = "failed"]
    /\ UNCHANGED <<feed, start, cursor, succeeded>>

Exit ==
    /\ \A t \in Tasks : status[t] = "ok"
    /\ succeeded' = TRUE
    /\ UNCHANGED <<feed, start, cursor, status>>

(* A process that has not succeeded starts over; the topic remains.        *)
Restart ==
    /\ ~succeeded
    /\ start' = [t \in Tasks |-> 0]
    /\ cursor' = [t \in Tasks |-> 0]
    /\ status' = [t \in Tasks |-> "working"]
    /\ UNCHANGED <<feed, succeeded>>

Next ==
    \/ ~succeeded /\ \E t \in Tasks :
          Position(t) \/ Offer(t) \/ Complete(t) \/ Succeed(t) \/ Fail(t)
    \/ Exit \/ Restart

Spec == Init /\ [][Next]_vars
=============================================================================
