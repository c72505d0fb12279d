-------------------------- MODULE TransactionStore --------------------------
(***************************************************************************)
(* What a reader of the database may rely on, whichever workers store a    *)
(* transaction, however often they start over and wherever they fail: the  *)
(* rows of its events come first, each with the value it keeps; the row of *)
(* the transaction means that they are all there; its logs appear all at   *)
(* once after it; internal transactions mean that everything else is       *)
(* there, and their copies only grow.                                      *)
(***************************************************************************)
EXTENDS Integers

CONSTANTS Messages

VARIABLES
    wanted,   \* wanted[m]: keys of event rows, logs, and whether m is saved
    events,   \* events[m]: rows, [key, amount]
    saved,    \* messages whose transaction has its row
    logs,     \* logs[m]
    copies    \* copies[m]: how often the internal transactions are stored

vars == <<wanted, events, saved, logs, copies>>

Keys(m) == {r.key : r \in events[m]}

Init ==
    /\ saved = {}
    /\ events = [m \in Messages |-> {}]
    /\ logs = [m \in Messages |-> {}]
    /\ copies = [m \in Messages |-> 0]

(* A row that is not there yet; once it is, nothing replaces it. *)
StoreEvent(m) ==
    /\ m \notin saved
    /\ \E r \in events'[m] \ events[m] :
          /\ r.key \in wanted[m].events \ Keys(m)
          /\ events' = [events EXCEPT ![m] = @ \cup {r}]
    /\ UNCHANGED <<wanted, saved, logs, copies>>

SaveTransaction(m) ==
    /\ wanted[m].saved /\ wanted[m].events \subseteq Keys(m)
    /\ saved' = saved \cup {m}
    /\ UNCHANGED <<wanted, events, logs, copies>>

StoreLogs(m) ==
    /\ m \in saved
    /\ logs' = [logs EXCEPT ![m] = wanted[m].logs]
    /\ UNCHANGED <<wanted, events, saved, copies>>

StoreInternals(m) ==
    /\ m \in saved /\ logs[m] = wanted[m].logs
    /\ copies' = [copies EXCEPT ![m] = @ + 1]
    /\ UNCHANGED <<wanted, events, saved, logs>>

Next == \E m \in Messages :
            \/ StoreEvent(m) \/ SaveTransaction(m)
            \/ StoreLogs(m) \/ StoreInternals(m)

Spec == Init /\ [][Next]_vars
=============================================================================
