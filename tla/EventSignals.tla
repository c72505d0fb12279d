---------------------------- MODULE EventSignals ----------------------------
(***************************************************************************)
(* The handshake of a consumer's two coroutines over two asyncio.Events    *)
(* (app/kafka/manager.py:299-337): the listener sets kafka_timeout_event   *)
(* when it receives a record and kafka_consuming_event when it has handled *)
(* it, the idle timer waits for the one, then for the other, and clears    *)
(* each.  Events do not count: a second set() before the clear() is lost,  *)
(* and with it the timer is out of step for good.  Nothing in the code     *)
(* but the time that handling takes keeps this from happening.             *)
(*                                                                         *)
(* The event loop works in rounds: what is scheduled in one runs in a      *)
(* later one.  Module Consumer takes the outcome of this one for granted:  *)
(* its timer is armed exactly while the listener has nothing to handle.    *)
(***************************************************************************)
EXTENDS Integers

CONSTANTS
    MinAwaits, MaxAwaits,   \* answers that handling a record waits for
    AwaitRounds,            \* fewest rounds from a request to its answer
    TimedWaitRounds,        \* from a set() to the end of a wait_for()
    WaitRounds              \* from a set() to the end of a wait()

ASSUME SignalsAssumption ==
    /\ MinAwaits \in Nat \ {0} /\ MaxAwaits \in Nat
    /\ AwaitRounds \in Nat \ {0}
    /\ TimedWaitRounds \in Nat \ {0} /\ WaitRounds \in Nat \ {0}

(* Handling a record takes longer than two signals take to reach the       *)
(* timer, also when the record comes with the end of the one before.       *)
ASSUME SlowHandling ==
    MinAwaits * AwaitRounds > WaitRounds + TimedWaitRounds

Blocked == -1   \* nothing has woken the timer

VARIABLES
    timeoutEvent,    \* kafka_timeout_event is set
    consumingEvent,  \* kafka_consuming_event is set
    timer,           \* "waiting", "holding" while a record is handled, "expired"
    timerIn,         \* rounds until the timer goes on
    listener,        \* "listening" or "handling"
    awaits,          \* answers it still waits for
    listenerIn       \* rounds until the next answer may come

events == <<timeoutEvent, consumingEvent>>
timerVars == <<timer, timerIn>>
listenerVars == <<listener, awaits, listenerIn>>
vars == <<events, timerVars, listenerVars>>

Init ==
    /\ timeoutEvent = FALSE /\ consumingEvent = FALSE
    /\ timer = "waiting" /\ timerIn = Blocked
    /\ listener = "listening" /\ awaits = 0 /\ listenerIn = 0

-----------------------------------------------------------------------------
(* set() schedules a coroutine that waits for the event. *)
Wake(state, rounds) ==
    timerIn' = IF timer = state /\ timerIn = Blocked THEN rounds ELSE timerIn

Awaits_NotAwaited == {1}   \* mutant: the callback is not awaited, only Redis is
Awaits_None == {0}        \* mutant: neither is awaited
Awaits == MinAwaits .. MaxAwaits

(* A record; buffered ones come in the round in which the last one ended. *)
Receive ==
    /\ listener = "listening"
    /\ timeoutEvent' = TRUE
    /\ Wake("waiting", TimedWaitRounds)
    /\ listener' = "handling"
    /\ awaits' \in Awaits
    /\ listenerIn' = AwaitRounds
    /\ UNCHANGED <<consumingEvent, timer>>

(* Redis, the node or PostgreSQL answers, now or later, and is asked for   *)
(* the next thing.                                                         *)
Answer ==
    /\ listener = "handling" /\ listenerIn = 0 /\ awaits > 1
    /\ awaits' = awaits - 1
    /\ listenerIn' = AwaitRounds
    /\ UNCHANGED <<events, timerVars, listener>>

Finished_NoSignal == consumingEvent   \* mutant: kafka_consuming_event is not set
Finished == TRUE

Finish ==
    /\ listener = "handling" /\ listenerIn = 0 /\ awaits = 1
    /\ consumingEvent' = Finished
    /\ IF consumingEvent' THEN Wake("holding", WaitRounds) ELSE UNCHANGED timerIn
    /\ listener' = "listening" /\ awaits' = 0
    /\ UNCHANGED <<timeoutEvent, timer, listenerIn>>

-----------------------------------------------------------------------------
ConsumingCleared_Kept == TRUE   \* mutant: kafka_consuming_event.clear() is missing
ConsumingCleared == FALSE

(* An event that is set ends a wait() at once, a wait_for() with a timeout *)
(* only after its rounds.                                                  *)
ClearTimeout ==
    /\ timer = "waiting" /\ timerIn = 0
    /\ timeoutEvent' = FALSE
    /\ timerIn' = Blocked
    /\ IF consumingEvent
       THEN /\ consumingEvent' = ConsumingCleared
            /\ UNCHANGED timer
       ELSE /\ timer' = "holding"
            /\ UNCHANGED consumingEvent
    /\ UNCHANGED listenerVars

ClearConsuming ==
    /\ timer = "holding" /\ timerIn = 0
    /\ consumingEvent' = ConsumingCleared
    /\ timer' = "waiting"
    /\ timerIn' = IF timeoutEvent THEN TimedWaitRounds ELSE Blocked
    /\ UNCHANGED <<timeoutEvent, listenerVars>>

(* The timeout is far longer than the rounds of a wait_for that ends       *)
(* because its event is set.                                               *)
Expire ==
    /\ timer = "waiting" /\ timerIn = Blocked
    /\ timer' = "expired"
    /\ UNCHANGED <<events, timerIn, listenerVars>>

(* The next round begins when everything scheduled has run; an answer may  *)
(* be later than it has to be.                                             *)
NextRound ==
    /\ timer # "expired" /\ timerIn # 0
    /\ timerIn' = IF timerIn = Blocked THEN Blocked ELSE timerIn - 1
    /\ listenerIn' = IF listenerIn = 0 THEN 0 ELSE listenerIn - 1
    /\ UNCHANGED <<events, timer, listener, awaits>>

(* Module Consumer tells what becomes of a consumer that has timed out. *)
Terminated == timer = "expired" /\ UNCHANGED vars

Next ==
    \/ timer # "expired" /\ (Receive \/ Answer \/ Finish)
    \/ ClearTimeout \/ ClearConsuming \/ Expire
    \/ NextRound
    \/ Terminated

Spec == Init /\ [][Next]_vars

(* Answers come, scheduled coroutines run and time passes; nobody owes the *)
(* consumer a record.                                                      *)
FairSpec ==
    /\ Spec
    /\ WF_vars(Answer) /\ WF_vars(Finish)
    /\ WF_vars(ClearTimeout) /\ WF_vars(ClearConsuming)
    /\ WF_vars(NextRound) /\ WF_vars(Expire)
-----------------------------------------------------------------------------
TypeOK ==
    /\ timeoutEvent \in BOOLEAN /\ consumingEvent \in BOOLEAN
    /\ timer \in {"waiting", "holding", "expired"}
    /\ timerIn \in {Blocked} \cup 0 .. TimedWaitRounds \cup 0 .. WaitRounds
    /\ listener \in {"listening", "handling"}
    /\ awaits \in 0 .. MaxAwaits /\ (listener = "handling" <=> awaits > 0)
    /\ listenerIn \in 0 .. AwaitRounds

(* The timer cannot run out on a consumer that handles a record, however   *)
(* long that takes and however densely records follow each other           *)
(* (manager.py:303-312, 325-333).                                          *)
HeldWhileHandling ==
    listener = "handling" => ~(timer = "waiting" /\ timerIn = Blocked)

(* No signal is lost: whenever the listener sets one of the events, the    *)
(* timer has cleared it since the last time (manager.py:306-312, 327, 333). *)
SignalsAreSeen ==
    [][/\ listener = "listening" /\ listener' = "handling" => ~timeoutEvent
       /\ listener = "handling" /\ listener' = "listening" => ~consumingEvent]_vars

(* A consumer that receives nothing any more times out: the timer is never *)
(* left holding for the end of a record that has ended (manager.py:303-316). *)
IdleConsumerExpires ==
    <>[](listener = "listening") => <>(timer = "expired")
=============================================================================
