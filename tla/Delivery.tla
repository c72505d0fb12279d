------------------------------ MODULE Delivery ------------------------------
(***************************************************************************)
(* What the consumer group promises, without partitions, offsets, events   *)
(* or processes: workers take stored messages and end up with each of them *)
(* processed or lost.  A message that is settled is never taken again, and *)
(* nothing is settled that no worker has ever taken.  Until it is settled, *)
(* a message may be taken any number of times.                             *)
(***************************************************************************)

CONSTANTS Workers, NoMessage

VARIABLES
    stored,     \* messages in the topic
    inHand,     \* inHand[w]: the message w is handling, or NoMessage
    processed,
    lost,       \* messages whose handling has ended in another way
    settled     \* messages Kafka will not deliver again

vars == <<stored, inHand, processed, lost, settled>>

Busy == {w \in Workers : inHand[w] # NoMessage}

Init ==
    /\ stored = {} /\ processed = {} /\ lost = {} /\ settled = {}
    /\ inHand = [w \in Workers |-> NoMessage]

Store ==
    /\ stored \subseteq stored'
    /\ UNCHANGED <<inHand, processed, lost, settled>>

Take(w) ==
    /\ inHand[w] = NoMessage
    /\ \E m \in stored \ settled : inHand' = [inHand EXCEPT ![w] = m]
    /\ UNCHANGED <<stored, processed, lost, settled>>

Process(w) ==
    /\ w \in Busy
    /\ processed' = processed \cup {inHand[w]}
    /\ inHand' = [inHand EXCEPT ![w] = NoMessage]
    /\ UNCHANGED <<stored, lost, settled>>

(* One worker fails, or all of a process are cut off. *)
Lose(ws) ==
    /\ ws \subseteq Busy
    /\ lost' = lost \cup {inHand[w] : w \in ws}
    /\ inHand' = [w \in Workers |-> IF w \in ws THEN NoMessage ELSE inHand[w]]
    /\ UNCHANGED <<stored, processed, settled>>

Settle ==
    /\ settled \subseteq settled'
    /\ settled' \subseteq processed \cup lost \cup {inHand[w] : w \in Busy}
    /\ UNCHANGED <<stored, inHand, processed, lost>>

Next ==
    \/ Store \/ Settle
    \/ \E w \in Workers : Take(w) \/ Process(w)
    \/ \E ws \in SUBSET Workers : Lose(ws)

Spec == Init /\ [][Next]_vars
=============================================================================
