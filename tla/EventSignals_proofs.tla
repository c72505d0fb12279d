------------------------ MODULE EventSignals_proofs ------------------------
(***************************************************************************)
(* Proofs about the two events of a consumer (module EventSignals): with   *)
(* whatever delays, they do their work because handling a record is slower *)
(* than the event loop is in waking the timer (SlowHandling).              *)
(***************************************************************************)
EXTENDS EventSignals, TLAPS

(* The fewest rounds in which the listener can end with its record *)
Remaining == listenerIn + (awaits - 1) * AwaitRounds

(* The timer waits for a record, sleeps until it wakes from the first      *)
(* signal, holds while the record is handled, and wakes from the second.   *)
(* Whenever it is to wake, handling lasts longer than that takes, and one  *)
(* wait_for more if a second record came while it holds for the first.     *)
WaitingForRecord ==
    timer = "waiting" /\ timerIn = Blocked =>
        listener = "listening" /\ ~timeoutEvent /\ ~consumingEvent

WakingToHold ==
    timer = "waiting" /\ timerIn # Blocked =>
        /\ listener = "handling" /\ timeoutEvent /\ ~consumingEvent
        /\ timerIn < Remaining

HoldingForEnd ==
    timer = "holding" /\ timerIn = Blocked =>
        listener = "handling" /\ ~timeoutEvent /\ ~consumingEvent

WakingToWait ==
    timer = "holding" /\ timerIn # Blocked =>
        /\ timerIn <= WaitRounds
        /\ timeoutEvent <=> listener = "handling"
        /\ listener = "handling" => timerIn + TimedWaitRounds < Remaining

SignalInv ==
    /\ TypeOK
    /\ WaitingForRecord /\ WakingToHold
    /\ HoldingForEnd /\ WakingToWait

(* The products of the rounds, which are all the arithmetic that is not    *)
(* linear.                                                                 *)
LEMMA Rounds ==
    ASSUME NEW a \in Nat
    PROVE  /\ a * AwaitRounds \in Nat
           /\ (a + 1) * AwaitRounds = a * AwaitRounds + AwaitRounds
           /\ a >= MinAwaits => a * AwaitRounds >= MinAwaits * AwaitRounds
  BY SignalsAssumption

LEMMA ReceiveRounds ==
    ASSUME SignalInv, Receive
    PROVE  Remaining' \in Nat /\ WaitRounds + TimedWaitRounds < Remaining'
<1>1. /\ awaits' \in Nat \ {0} /\ awaits' >= MinAwaits /\ listenerIn' = AwaitRounds
      /\ AwaitRounds \in Nat
  BY SignalsAssumption DEF Receive, Awaits
<1>2. PICK a \in Nat : awaits' = a + 1
  BY <1>1
<1>3. Remaining' = a * AwaitRounds + AwaitRounds
  BY <1>1, <1>2, Rounds DEF Remaining
<1>4. /\ (a + 1) * AwaitRounds = a * AwaitRounds + AwaitRounds
      /\ (a + 1) * AwaitRounds >= MinAwaits * AwaitRounds
  BY <1>1, <1>2, Rounds
<1>. QED BY <1>3, <1>4, SlowHandling, SignalsAssumption, Rounds

LEMMA RemainingType ==
    ASSUME SignalInv, listener = "handling" PROVE Remaining \in Nat
<1>1. awaits \in Nat /\ awaits > 0 /\ listenerIn \in Nat
  BY SignalsAssumption DEF SignalInv, TypeOK
<1>2. (awaits - 1) * AwaitRounds \in Nat
  BY <1>1, Rounds
<1>. QED BY <1>1, <1>2 DEF Remaining

LEMMA AnswerRounds ==
    ASSUME SignalInv, Answer
    PROVE  Remaining' = Remaining
<1>1. /\ awaits \in Nat /\ awaits > 1 /\ awaits' = awaits - 1
      /\ listenerIn = 0 /\ listenerIn' = AwaitRounds /\ AwaitRounds \in Nat
  BY SignalsAssumption DEF SignalInv, TypeOK, Answer
<1>2. PICK a \in Nat : awaits = a + 2
  BY <1>1
<1>3. (a + 1) * AwaitRounds = a * AwaitRounds + AwaitRounds
  BY Rounds
<1>4. awaits - 1 = a + 1 /\ awaits' - 1 = a
  BY <1>1, <1>2
<1>. QED BY <1>1, <1>3, <1>4, Rounds DEF Remaining

(* A round takes one from what remains, at most. *)
LEMMA NextRoundRounds ==
    ASSUME SignalInv, NextRound, listener = "handling"
    PROVE  Remaining \in Nat /\ Remaining' \in Nat /\ Remaining' >= Remaining - 1
<1>1. /\ awaits \in Nat /\ awaits > 0 /\ awaits' = awaits /\ listenerIn \in Nat
      /\ listenerIn' = IF listenerIn = 0 THEN 0 ELSE listenerIn - 1
  BY SignalsAssumption DEF SignalInv, TypeOK, NextRound
<1>2. (awaits - 1) * AwaitRounds \in Nat
  BY <1>1, Rounds
<1>3. PICK rest \in Nat : rest = (awaits - 1) * AwaitRounds
  BY <1>2
<1>4. Remaining = listenerIn + rest /\ Remaining' = listenerIn' + rest
  BY <1>1, <1>3 DEF Remaining
<1>. QED BY <1>1, <1>4

(* A record that ends has nothing left to wait for. *)
LEMMA FinishRounds ==
    ASSUME Finish PROVE Remaining = 0
<1>1. 0 * AwaitRounds = 0
  BY SignalsAssumption
<1>. QED BY <1>1 DEF Finish, Remaining

LEMMA InitSignalInv == Init => SignalInv
<1>0. 0 \in 0 .. MaxAwaits /\ 0 \in 0 .. AwaitRounds /\ ~(0 > 0)
  BY SignalsAssumption
<1>1. Init => TypeOK
  BY <1>0 DEF Init, TypeOK
<1>2. Init => WaitingForRecord /\ WakingToHold /\ HoldingForEnd /\ WakingToWait
  BY DEF Init, WaitingForRecord, WakingToHold, HoldingForEnd, WakingToWait
<1>. QED BY <1>1, <1>2 DEF SignalInv

LEMMA StepSignalInv == SignalInv /\ [Next]_vars => SignalInv'
<1>. SUFFICES ASSUME SignalInv, [Next]_vars PROVE SignalInv'
  OBVIOUS
<1>0. UNCHANGED listenerVars => Remaining' = Remaining
  BY DEF listenerVars, Remaining
<1>. USE SignalsAssumption
     DEF SignalInv, TypeOK, Blocked, WaitingForRecord, WakingToHold, HoldingForEnd,
         WakingToWait
<1>1. CASE Receive
  <2>1. Remaining' \in Nat /\ WaitRounds + TimedWaitRounds < Remaining'
    BY ReceiveRounds, <1>1
  <2>2. /\ listener' = "handling" /\ awaits' \in 0 .. MaxAwaits /\ awaits' > 0
        /\ listenerIn' = AwaitRounds /\ timeoutEvent' = TRUE
        /\ UNCHANGED <<consumingEvent, timer>> /\ listener = "listening"
        /\ timerIn' = IF timer = "waiting" /\ timerIn = -1 THEN TimedWaitRounds ELSE timerIn
    BY <1>1 DEF Receive, Wake, Awaits
  <2>3. TypeOK'
    BY <2>2
  <2>4. timer = "holding" => timerIn # -1 /\ timerIn <= WaitRounds
    BY <2>2
  <2>5. timer = "holding" => timerIn' + TimedWaitRounds < Remaining'
    BY <2>1, <2>2, <2>4
  <2>6. timer = "waiting" => timerIn' = TimedWaitRounds /\ timerIn' < Remaining'
                             /\ consumingEvent' = FALSE
    BY <2>1, <2>2
  <2>. QED BY <2>2, <2>3, <2>4, <2>5, <2>6
<1>2. CASE Answer
  BY <1>2, AnswerRounds DEF Answer, events, timerVars
<1>3. CASE Finish
  <2>1. timer # "expired" => timer = "holding" /\ timerIn = Blocked
    BY <1>3, FinishRounds DEF Finish
  <2>. QED BY <1>3, <2>1 DEF Finish, Finished, Wake
<1>4. CASE ClearTimeout
  <2>1. /\ timeoutEvent' = FALSE /\ timerIn' = -1 /\ timer' = "holding"
        /\ consumingEvent' = consumingEvent /\ UNCHANGED <<listener, awaits, listenerIn>>
        /\ listener = "handling" /\ ~consumingEvent
    BY <1>4 DEF ClearTimeout, listenerVars
  <2>2. TypeOK'
    BY <2>1
  <2>. QED BY <2>1, <2>2
<1>5. CASE ClearConsuming
  <2>1. /\ consumingEvent' = FALSE /\ timer' = "waiting"
        /\ timerIn' = IF timeoutEvent THEN TimedWaitRounds ELSE -1
        /\ UNCHANGED <<timeoutEvent, listener, awaits, listenerIn>>
        /\ timer = "holding" /\ timerIn = 0 /\ Remaining' = Remaining
    BY <1>0, <1>5 DEF ClearConsuming, ConsumingCleared, listenerVars
  <2>2. timerIn' \in {-1} \cup 0 .. TimedWaitRounds \cup 0 .. WaitRounds
    <3>1. timerIn' = TimedWaitRounds \/ timerIn' = -1
      BY <2>1
    <3>2. TimedWaitRounds \in 0 .. TimedWaitRounds
      OBVIOUS
    <3>. QED BY <3>1, <3>2
  <2>3. TypeOK'
    BY <2>1, <2>2
  <2>4. timeoutEvent => listener = "handling" /\ TimedWaitRounds < Remaining
    BY <2>1, RemainingType
  <2>. QED BY <2>1, <2>3, <2>4
<1>6. CASE Expire
  BY <1>6 DEF Expire, events, listenerVars
<1>7. CASE NextRound
  <2>1. /\ UNCHANGED <<timeoutEvent, consumingEvent, timer, listener, awaits>>
        /\ timerIn' = IF timerIn = -1 THEN -1 ELSE timerIn - 1
        /\ listenerIn' = IF listenerIn = 0 THEN 0 ELSE listenerIn - 1
        /\ timerIn # 0
    BY <1>7 DEF NextRound, events
  <2>2. TypeOK'
    BY <2>1
  <2>3. listener = "handling" =>
            Remaining \in Nat /\ Remaining' \in Nat /\ Remaining' >= Remaining - 1
    BY <1>7, NextRoundRounds
  <2>. QED BY <2>1, <2>2, <2>3
<1>8. CASE UNCHANGED vars
  BY <1>0, <1>8 DEF vars, events, timerVars, listenerVars
<1>. QED BY <1>1, <1>2, <1>3, <1>4, <1>5, <1>6, <1>7, <1>8 DEF Next, Terminated

LEMMA SignalInvariant == Spec => []SignalInv
  BY InitSignalInv, StepSignalInv, PTL DEF Spec

(* The variables of the handshake keep their types: the listener waits for *)
(* an answer exactly while it handles a record.                            *)
THEOREM SignalsTypeCorrect == Spec => []TypeOK
<1>1. SignalInv => TypeOK
  BY DEF SignalInv
<1>. QED BY <1>1, SignalInvariant, PTL

(* However long handling takes and however densely records follow each     *)
(* other, the timer does not run on a consumer that handles a record       *)
(* (manager.py:303-312, 325-333).                                          *)
THEOREM TimerIsHeld == Spec => []HeldWhileHandling
<1>1. SignalInv => HeldWhileHandling
  BY DEF SignalInv, WaitingForRecord, HeldWhileHandling
<1>. QED BY <1>1, SignalInvariant, PTL

(* Neither event is set again before the timer has cleared it, so none of  *)
(* the signals is lost (manager.py:306-312, 327, 333).                     *)
THEOREM NoSignalIsLost == Spec => SignalsAreSeen
<1>. DEFINE Seen ==
        /\ listener = "listening" /\ listener' = "handling" => ~timeoutEvent
        /\ listener = "handling" /\ listener' = "listening" => ~consumingEvent
<1>1. SignalInv /\ [Next]_vars => [Seen]_vars
  <2>. SUFFICES ASSUME SignalInv, Next PROVE Seen \/ UNCHANGED vars
    OBVIOUS
  <2>1. CASE timer # "expired" /\ Receive
    BY <2>1 DEF Receive, SignalInv, TypeOK, WaitingForRecord, WakingToHold,
                HoldingForEnd, WakingToWait, Blocked
  <2>2. CASE timer # "expired" /\ Finish
    <3>1. timer = "holding" /\ timerIn = Blocked
      BY <2>2, FinishRounds, SignalsAssumption DEF Finish, SignalInv, TypeOK, Blocked,
         WaitingForRecord, WakingToHold, WakingToWait
    <3>. QED BY <2>2, <3>1 DEF Finish, SignalInv, HoldingForEnd
  <2>3. CASE UNCHANGED listener
    BY <2>3
  <2>. QED
    BY <2>1, <2>2, <2>3 DEF Next, Answer, ClearTimeout, ClearConsuming, Expire,
       NextRound, Terminated, listenerVars, vars
<1>. QED BY <1>1, SignalInvariant, PTL DEF Spec, SignalsAreSeen
=============================================================================
