-------------------------- MODULE Consumer_proofs --------------------------
(***************************************************************************)
(* Proofs about the consumer group of module Consumer, for any number of   *)
(* processes, consumers, partitions, messages, faults and restarts.        *)
(***************************************************************************)
EXTENDS Consumer, FiniteSetTheorems, TLAPS

(* A listener that handles something handles a message: the reason why the *)
(* history variables hold messages only.                                   *)
TypeInv ==
    /\ TypeOK
    /\ \A c \in Consumers : Handling(c) => current[c] \in AllMessages

LEMMA InitTypeInv == Init => TypeInv
<1>. SUFFICES ASSUME Init PROVE TypeInv
  OBVIOUS
<1>1. TypeOK
  <2>1. /\ 0 \in 0 .. MaxOffset /\ 0 \in 0 .. MaxRestarts /\ 0 \in 0 .. MaxFaults
        /\ 0 \in Int /\ Running \in {Running, 0, 1}
    BY ConsumerAssumption
  <2>2. /\ position \in [Partitions -> 0 .. MaxOffset]
        /\ committed \in [Partitions -> 0 .. MaxOffset]
        /\ logEnd \in [Partitions -> 0 .. MaxOffset]
        /\ counted \in [Partitions -> 0 .. MaxOffset]
        /\ score \in [Partitions -> Int]
        /\ owner \in [Partitions -> Consumers \cup {Nobody}]
    BY <2>1 DEF Init
  <2>3. /\ exitCode \in [Processes -> {Running, 0, 1}]
        /\ restarts \in [Processes -> 0 .. MaxRestarts]
        /\ failed \in [Processes -> SUBSET AllMessages]
    BY <2>1 DEF Init
  <2>. QED BY <2>1, <2>2, <2>3 DEF Init, TypeOK
<1>2. \A c \in Consumers : ~Handling(c)
  BY DEF Init, Handling
<1>. QED BY <1>1, <1>2 DEF TypeInv

(* What a crash or an exit cuts off. *)
LEMMA CutOffAreMessages ==
    ASSUME TypeInv, NEW w \in Processes PROVE CutOff(w) \subseteq AllMessages
  BY DEF TypeInv, CutOff, Team

(* A commit stores positions or leaves what was committed. *)
LEMMA CommitType ==
    ASSUME TypeOK, NEW ps
    PROVE  /\ Commit(ps) \in [Partitions -> 0 .. MaxOffset]
           /\ \A p \in Partitions : Commit(ps)[p] = position[p] \/ Commit(ps)[p] = committed[p]
  BY DEF TypeOK, Commit, Committable

LEMMA StepTypeInv == TypeInv /\ [Next]_vars => TypeInv'
<1>. SUFFICES ASSUME TypeInv, [Next]_vars PROVE TypeInv'
  OBVIOUS
<1>. USE ConsumerAssumption
<1>0. TypeOK
  BY DEF TypeInv
<1>1. ASSUME NEW p \in Partitions, Store(p) PROVE TypeInv'
  BY <1>1 DEF Store, TypeInv, TypeOK, Handling, consumerVars, processVars,
              groupVars, deliveries, fates
<1>2. ASSUME NEW p \in Partitions, Count(p) PROVE TypeInv'
  BY <1>2 DEF Count, TypeInv, TypeOK, Handling, consumerVars, processVars,
              groupVars, deliveries, fates
<1>3. ASSUME NEW c \in Consumers, NEW p \in Partitions, Receive(c, p)
      PROVE  TypeInv'
  <2>1. <<p, position[p] + 1>> \in AllMessages
    BY <1>0, <1>3 DEF Receive, Deliverable, Owned, TypeOK, AllMessages, Offsets
  <2>2. position[p] + 1 \in 0 .. MaxOffset
    BY <1>0, <1>3 DEF Receive, Deliverable, Owned, TypeOK
  <2>. QED BY <1>3, <2>1, <2>2 DEF Receive, TimerOnEvent, TypeInv, TypeOK,
                Handling, processVars, topicVars, fates
<1>4. ASSUME NEW c \in Consumers, Decrement(c) PROVE TypeInv'
  <2>1. current[c][1] \in Partitions
    BY <1>4 DEF TypeInv, Decrement, Handling, AllMessages
  <2>. QED BY <1>4, <2>1 DEF Decrement, Decremented, AfterDecrement, TypeInv,
                TypeOK, Handling, processVars, groupVars, deliveries, fates
<1>5. ASSUME NEW c \in Consumers, HandleEvent(c) PROVE TypeInv'
  <2>1. current[c] \in AllMessages
    BY <1>5 DEF TypeInv, HandleEvent, Handling
  <2>. QED BY <1>5, <2>1 DEF HandleEvent, AfterCallback, TimerAfterCallback,
                TypeInv, TypeOK, Handling, processVars, groupVars, topicVars,
                deliveries
<1>6. ASSUME NEW c \in Consumers, HandlingRaises(c) PROVE TypeInv'
  <2>1. current[c] \in AllMessages /\ ProcessOf[c] \in Processes
    BY <1>6 DEF TypeInv, HandlingRaises
  <2>2. faults' \in 0 .. MaxFaults
    BY <1>0, <1>6 DEF HandlingRaises, TypeOK
  <2>3. /\ runner' \in [Consumers -> {"waiting", "closing", "leaving", "returned"}]
        /\ code' \in [Consumers -> {0, 1}]
        /\ failed' \in [Processes -> SUBSET AllMessages]
        /\ dropped' \subseteq AllMessages
    BY <1>0, <1>6, <2>1 DEF HandlingRaises, TypeOK
  <2>. QED BY <1>6, <2>1, <2>2, <2>3 DEF HandlingRaises, TypeInv, TypeOK,
                Handling, processVars, groupVars, topicVars, deliveries
<1>7. ASSUME NEW c \in Consumers, Expire(c) PROVE TypeInv'
  BY <1>7 DEF Expire, TypeInv, TypeOK, Handling, processVars, groupVars,
              topicVars, deliveries, fates
<1>8. ASSUME NEW c \in Consumers, CommitOnStop(c) PROVE TypeInv'
  BY <1>0, <1>8, CommitType DEF CommitOnStop, TypeInv, TypeOK, Handling,
              processVars, topicVars, deliveries, fates
<1>9. ASSUME NEW c \in Consumers, LeaveGroup(c) PROVE TypeInv'
  BY <1>9 DEF LeaveGroup, TypeInv, TypeOK, Handling, processVars, topicVars,
              deliveries, fates
<1>10. ASSUME NEW c \in Consumers, AutoCommit(c) PROVE TypeInv'
  BY <1>0, <1>10, CommitType DEF AutoCommit, TypeInv, TypeOK, Handling,
              consumerVars, processVars, topicVars, deliveries, fates
<1>11. ASSUME NEW c \in Consumers, Evict(c) PROVE TypeInv'
  <2>1. faults' \in 0 .. MaxFaults
    BY <1>0, <1>11 DEF Evict, TypeOK
  <2>. QED BY <1>11, <2>1 DEF Evict, TypeInv, TypeOK, Handling, consumerVars, processVars,
              topicVars, deliveries, fates
<1>12. ASSUME Rebalance PROVE TypeInv'
  BY <1>0, <1>12, CommitType DEF Rebalance, Members, TypeInv, TypeOK, Handling,
              consumerVars, processVars, topicVars, deliveries, fates
<1>13. ASSUME NEW w \in Processes, Exit(w) PROVE TypeInv'
  <2>1. CutOff(w) \subseteq AllMessages
    BY CutOffAreMessages
  <2>. QED BY <1>13, <2>1 DEF Exit, ExitStatus, Idle, Forgotten, TypeInv,
                TypeOK, Handling, groupVars, topicVars, deliveries
<1>14. ASSUME NEW w \in Processes, Crash(w) PROVE TypeInv'
  <2>1. CutOff(w) \subseteq AllMessages
    BY CutOffAreMessages
  <2>2. faults' \in 0 .. MaxFaults
    BY <1>0, <1>14 DEF Crash, TypeOK
  <2>. QED BY <1>14, <2>1, <2>2 DEF Crash, Idle, Forgotten, TypeInv, TypeOK,
                Handling, topicVars, deliveries
<1>15. ASSUME NEW w \in Processes, Restart(w) PROVE TypeInv'
  <2>1. restarts' \in [Processes -> 0 .. MaxRestarts]
    <3>1. restarts[w] + 1 \in 0 .. MaxRestarts
      BY <1>0, <1>15 DEF Restart, TypeOK
    <3>. QED BY <1>0, <1>15, <3>1 DEF Restart, TypeOK
  <2>. QED BY <1>15, <2>1 DEF Restart, TypeInv, TypeOK, Handling, Running, topicVars,
               deliveries, fates
<1>16. CASE UNCHANGED vars
  BY <1>16 DEF vars, consumerVars, processVars, groupVars, topicVars, deliveries,
               fates, TypeInv, TypeOK, Handling
<1>. QED
  BY <1>1, <1>2, <1>3, <1>4, <1>5, <1>6, <1>7, <1>8, <1>9, <1>10, <1>11, <1>12,
     <1>13, <1>14, <1>15, <1>16
  DEF Next, ListenerStep, RunnerStep, ConsumerFault, Terminated

LEMMA TypeInvariant == Spec => []TypeInv
  BY InitTypeInv, StepTypeInv, PTL DEF Spec

(* The variables of the consumer group keep their types. *)
THEOREM ConsumerTypeCorrect == Spec => []TypeOK
<1>1. TypeInv => TypeOK
  BY DEF TypeInv
<1>. QED BY <1>1, TypeInvariant, PTL
-----------------------------------------------------------------------------
(* Every message that was received or committed has a fate, and keeps one. *)

FateInv ==
    \A p \in Partitions : \A o \in Offsets :
        o <= position[p] \/ o <= committed[p] => HasFate(<<p, o>>)

(* What is in flight is what a living process handles. *)
LEMMA InFlightMeaning ==
    ASSUME NEW m
    PROVE  m \in InFlight <=> \E c \in Consumers :
               Alive(ProcessOf[c]) /\ Handling(c) /\ current[c] = m
  BY DEF InFlight

(* Moving on from a message only turns one fate into another. *)
LEMMA FateKept ==
    ASSUME TypeInv, Next, NEW m, HasFate(m)
    PROVE  HasFate(m)'
<1>. USE ConsumerAssumption
<1>0. TypeOK
  BY DEF TypeInv
<1>1. ASSUME /\ processed \subseteq processed' /\ dropped \subseteq dropped'
             /\ \A w \in Processes : failed[w] \subseteq failed'[w]
             /\ m \in InFlight => HasFate(m)'
      PROVE  HasFate(m)'
  BY <1>1 DEF HasFate
<1>2. ASSUME /\ UNCHANGED fates
             /\ \A c \in Consumers : Alive(ProcessOf[c]) /\ Handling(c) =>
                    (Alive(ProcessOf[c]) /\ Handling(c))' /\ current'[c] = current[c]
      PROVE  HasFate(m)'
  <2>1. m \in InFlight => m \in InFlight'
    BY <1>2 DEF InFlight
  <2>. QED BY <1>1, <1>2, <2>1 DEF HasFate, fates
<1>3. ASSUME NEW c \in Consumers, NEW p \in Partitions, Receive(c, p)
      PROVE  HasFate(m)'
  BY <1>0, <1>2, <1>3 DEF Receive, Handling, Alive, processVars, fates, TypeOK
<1>4. ASSUME NEW c \in Consumers, Decrement(c) PROVE HasFate(m)'
  BY <1>0, <1>2, <1>4 DEF Decrement, AfterDecrement, Handling, Alive, processVars,
                          fates, TypeOK
<1>5. ASSUME NEW c \in Consumers, HandleEvent(c) PROVE HasFate(m)'
  <2>1. ASSUME NEW d \in Consumers, d # c, Alive(ProcessOf[d]), Handling(d),
               current[d] = m
        PROVE  m \in InFlight'
    BY <1>5, <2>1 DEF HandleEvent, InFlight, Handling, Alive, processVars
  <2>2. current[c] \in processed'
    BY <1>5 DEF HandleEvent
  <2>. QED BY <1>1, <1>5, <2>1, <2>2, InFlightMeaning DEF HandleEvent, HasFate
<1>6. ASSUME NEW c \in Consumers, HandlingRaises(c) PROVE HasFate(m)'
  <2>1. ASSUME NEW d \in Consumers, d # c, Alive(ProcessOf[d]), Handling(d),
               current[d] = m
        PROVE  m \in InFlight'
    BY <1>6, <2>1 DEF HandlingRaises, InFlight, Handling, Alive, processVars
  <2>2. ProcessOf[c] \in Processes
    OBVIOUS
  <2>3. current[c] \in dropped' \/ current[c] \in failed'[ProcessOf[c]]
    BY <1>0, <1>6, <2>2 DEF HandlingRaises, TypeOK
  <2>4. /\ processed' = processed /\ dropped \subseteq dropped'
        /\ \A w \in Processes : failed[w] \subseteq failed'[w]
    BY <1>0, <1>6, <2>2 DEF HandlingRaises, TypeOK
  <2>. QED BY <1>1, <2>1, <2>2, <2>3, <2>4, InFlightMeaning DEF HasFate
<1>7. ASSUME NEW w \in Processes, Exit(w) \/ Crash(w) PROVE HasFate(m)'
  <2>1. /\ dropped' = dropped \cup CutOff(w) /\ UNCHANGED <<processed, failed>>
        /\ listener' = Idle(w) /\ current' = Forgotten(w)
        /\ \A v \in Processes \ {w} : exitCode'[v] = exitCode[v]
    BY <1>0, <1>7 DEF Exit, Crash, TypeOK
  <2>2. ASSUME NEW d \in Team(w), Handling(d), current[d] = m
        PROVE  m \in dropped'
    BY <2>1, <2>2 DEF CutOff
  <2>3. ASSUME NEW d \in Consumers \ Team(w), Alive(ProcessOf[d]), Handling(d),
               current[d] = m
        PROVE  m \in InFlight'
    <3>1. ProcessOf[d] \in Processes \ {w}
      BY DEF Team
    <3>. QED BY <2>1, <2>3, <3>1 DEF InFlight, Handling, Alive, Idle, Forgotten
  <2>. QED BY <1>1, <2>1, <2>2, <2>3, InFlightMeaning DEF HasFate, Team
<1>8. ASSUME NEW w \in Processes, Restart(w) PROVE HasFate(m)'
  BY <1>0, <1>2, <1>8 DEF Restart, Handling, Alive, Team, Running, fates, TypeOK
<1>9. ASSUME NEW c \in Consumers, LeaveGroup(c) PROVE HasFate(m)'
  BY <1>0, <1>2, <1>9 DEF LeaveGroup, Handling, Alive, processVars, fates, TypeOK
<1>10. ASSUME UNCHANGED <<listener, current, exitCode, fates>> PROVE HasFate(m)'
  BY <1>2, <1>10 DEF Handling, Alive
<1>11. CASE \E p \in Partitions : Store(p) \/ Count(p)
  BY <1>10, <1>11 DEF Store, Count, consumerVars, processVars
<1>12. CASE \E c \in Consumers : Expire(c) \/ CommitOnStop(c) \/ AutoCommit(c) \/ Evict(c)
  BY <1>10, <1>12 DEF Expire, CommitOnStop, AutoCommit, Evict, consumerVars,
                      processVars
<1>13. CASE Rebalance
  BY <1>10, <1>13 DEF Rebalance, consumerVars, processVars
<1>14. CASE Terminated
  BY <1>10, <1>14 DEF Terminated, vars, consumerVars, processVars
<1>. QED
  BY <1>3, <1>4, <1>5, <1>6, <1>7, <1>8, <1>9, <1>11, <1>12, <1>13, <1>14
  DEF Next, ListenerStep, RunnerStep, ConsumerFault

(* Apart from a receive, a step leaves positions and commits, or sets one  *)
(* to the other.                                                           *)
LEMMA OffsetsKept ==
    ASSUME TypeInv, Next, NEW p \in Partitions,
           ~\E c \in Consumers, q \in Partitions :
                Alive(ProcessOf[c]) /\ Receive(c, q)
    PROVE  /\ position'[p] = position[p] \/ position'[p] = committed[p]
           /\ committed'[p] = position[p] \/ committed'[p] = committed[p]
<1>0. TypeOK
  BY DEF TypeInv
<1>1. CASE UNCHANGED <<position, committed>>
  BY <1>1
<1>2. ASSUME NEW ps, committed' = Commit(ps),
             position' = position \/ position' = committed'
      PROVE  /\ position'[p] = position[p] \/ position'[p] = committed[p]
             /\ committed'[p] = position[p] \/ committed'[p] = committed[p]
  BY <1>0, <1>2, CommitType
<1>3. CASE \E c \in Consumers : CommitOnStop(c) \/ AutoCommit(c)
  BY <1>2, <1>3 DEF CommitOnStop, AutoCommit
<1>4. CASE Rebalance
  BY <1>2, <1>4 DEF Rebalance
<1>5. CASE \E q \in Partitions : Store(q) \/ Count(q)
  BY <1>1, <1>5 DEF Store, Count, groupVars
<1>6. CASE \E c \in Consumers : \/ Decrement(c) \/ HandleEvent(c) \/ HandlingRaises(c)
                               \/ Expire(c) \/ LeaveGroup(c) \/ Evict(c)
  BY <1>1, <1>6 DEF Decrement, HandleEvent, HandlingRaises, Expire, LeaveGroup,
                    Evict, groupVars
<1>7. CASE \E w \in Processes : Exit(w) \/ Crash(w) \/ Restart(w)
  BY <1>1, <1>7 DEF Exit, Crash, Restart, groupVars
<1>8. CASE Terminated
  BY <1>1, <1>8 DEF Terminated, vars, groupVars
<1>. QED
  BY <1>3, <1>4, <1>5, <1>6, <1>7, <1>8
  DEF Next, ListenerStep, RunnerStep, ConsumerFault

LEMMA StepFateInv == TypeInv /\ FateInv /\ [Next]_vars => FateInv'
<1>. SUFFICES ASSUME TypeInv, FateInv, Next PROVE FateInv'
  BY DEF vars, groupVars, consumerVars, processVars, fates, FateInv, HasFate,
         InFlight, Alive, Handling
<1>0. TypeOK
  BY DEF TypeInv
<1>1. SUFFICES ASSUME NEW p \in Partitions, NEW o \in Offsets,
                      o <= position'[p] \/ o <= committed'[p]
               PROVE  HasFate(<<p, o>>)'
  BY DEF FateInv
<1>2. ASSUME o <= position[p] \/ o <= committed[p] PROVE HasFate(<<p, o>>)'
  BY <1>2, FateKept DEF FateInv
<1>3. ASSUME NEW c \in Consumers, NEW q \in Partitions,
             Alive(ProcessOf[c]), Receive(c, q)
      PROVE  HasFate(<<p, o>>)'
  <2>1. /\ committed' = committed
        /\ position' = [position EXCEPT ![q] = @ + 1]
        /\ current'[c] = <<q, position[q] + 1>>
        /\ listener'[c] = "decrement"
    BY <1>0, <1>3 DEF Receive, TypeOK
  <2>2. Alive(ProcessOf[c])'
    BY <1>3 DEF Receive, Alive, processVars
  <2>3. CASE p = q /\ o = position[p] + 1
    <3>1. <<p, o>> \in InFlight'
      BY <2>1, <2>2, <2>3 DEF InFlight, Handling
    <3>. QED BY <3>1 DEF HasFate
  <2>4. CASE ~(p = q /\ o = position[p] + 1)
    BY <1>0, <1>1, <1>2, <2>1, <2>4 DEF TypeOK, Offsets
  <2>. QED BY <2>3, <2>4
<1>4. CASE ~\E c \in Consumers, q \in Partitions :
               Alive(ProcessOf[c]) /\ Receive(c, q)
  BY <1>1, <1>2, <1>4, OffsetsKept
<1>. QED BY <1>3, <1>4

(* A commit skips nothing: every message up to the committed offset of its *)
(* partition was processed, is being handled, or is lost for a reason.     *)
THEOREM CommittedMessagesHaveFates == Spec => []CommittedHaveFates
<1>1. Init => FateInv
  BY ConsumerAssumption DEF Init, FateInv, Offsets
<1>2. ASSUME TypeInv, FateInv PROVE CommittedHaveFates
  <2>1. ASSUME NEW p \in Partitions, NEW o \in 1 .. committed[p]
        PROVE  HasFate(<<p, o>>)
    <3>1. o \in Offsets /\ o <= committed[p]
      BY <1>2, ConsumerAssumption DEF TypeInv, TypeOK, Offsets
    <3>. QED BY <1>2, <3>1 DEF FateInv
  <2>. QED BY <2>1 DEF CommittedHaveFates
<1>. QED BY <1>1, <1>2, StepFateInv, TypeInvariant, PTL DEF Spec
-----------------------------------------------------------------------------
(* In its first life a process that has seen a failure either still has a  *)
(* consumer with code 1, or has exited with 1.                             *)
ReportInv ==
    \A w \in Processes : restarts[w] = 0 /\ failed[w] # {} =>
        \/ exitCode[w] = 1
        \/ exitCode[w] = Running /\ \E c \in Team(w) : code[c] = 1

LEMMA StepReportInv == TypeInv /\ ReportInv /\ [Next]_vars => ReportInv'
<1>. SUFFICES ASSUME TypeInv, ReportInv, [Next]_vars PROVE ReportInv'
  OBVIOUS
<1>. USE ConsumerAssumption
<1>0. TypeOK
  BY DEF TypeInv
<1>1. CASE UNCHANGED <<restarts, failed, exitCode, code>>
  BY <1>1 DEF ReportInv, Team
<1>2. ASSUME NEW c \in Consumers, Alive(ProcessOf[c]), HandlingRaises(c)
      PROVE  ReportInv'
  <2>1. CASE runner[c] = "waiting"
    BY <1>0, <1>2, <2>1 DEF HandlingRaises, ReportInv, Team, Alive, TypeOK,
                            processVars
  <2>2. CASE runner[c] # "waiting"
    BY <1>1, <1>2, <2>2 DEF HandlingRaises, processVars
  <2>. QED BY <2>1, <2>2
<1>3. ASSUME NEW w \in Processes, Exit(w) PROVE ReportInv'
  BY <1>0, <1>3 DEF Exit, ExitStatus, ReportInv, Team, Alive, TypeOK, Running
<1>4. ASSUME NEW w \in Processes, Crash(w) PROVE ReportInv'
  BY <1>0, <1>4 DEF Crash, ReportInv, Team, Alive, TypeOK, Running
<1>5. ASSUME NEW w \in Processes, Restart(w) PROVE ReportInv'
  <2>1. restarts'[w] # 0 /\ UNCHANGED failed
    BY <1>0, <1>5 DEF Restart, TypeOK, fates
  <2>2. ASSUME NEW v \in Processes, v # w
        PROVE  /\ restarts'[v] = restarts[v] /\ exitCode'[v] = exitCode[v]
               /\ \A c \in Team(v) : code'[c] = code[c]
    BY <1>0, <1>5, <2>2 DEF Restart, Team, TypeOK
  <2>. QED BY <2>1, <2>2 DEF ReportInv, Team
<1>6. CASE \E p \in Partitions : Store(p) \/ Count(p)
  BY <1>1, <1>6 DEF Store, Count, consumerVars, processVars, fates
<1>7. CASE \E c \in Consumers : \/ \E p \in Partitions : Receive(c, p)
                               \/ Decrement(c) \/ HandleEvent(c)
  BY <1>1, <1>7 DEF Receive, Decrement, HandleEvent, processVars, fates
<1>8. CASE \E c \in Consumers : \/ Expire(c) \/ CommitOnStop(c) \/ LeaveGroup(c)
                               \/ AutoCommit(c) \/ Evict(c)
  BY <1>1, <1>8 DEF Expire, CommitOnStop, LeaveGroup, AutoCommit, Evict,
                    consumerVars, processVars, fates
<1>9. CASE Rebalance \/ Terminated \/ UNCHANGED vars
  BY <1>1, <1>9 DEF Rebalance, Terminated, vars, consumerVars, processVars, fates
<1>. QED
  BY <1>2, <1>3, <1>4, <1>5, <1>6, <1>7, <1>8, <1>9
  DEF Next, ListenerStep, RunnerStep, ConsumerFault

(* Exit code 0 of a process that was never restarted means that no         *)
(* exception ended one of its consumers.                                   *)
THEOREM FailuresAreReported == Spec => []FailureReported
<1>1. Init => ReportInv
  BY DEF Init, ReportInv
<1>2. ReportInv => FailureReported
  BY DEF ReportInv, FailureReported, Running
<1>. QED BY <1>1, <1>2, StepReportInv, TypeInvariant, PTL DEF Spec
-----------------------------------------------------------------------------
(* Without a fault only late messages suffer.  The timer is held while the *)
(* listener of a waiting consumer handles a message; so whatever a         *)
(* disconnecting consumer handles is late, and so is whatever it received  *)
(* after its last commit.                                                  *)

TimerHeld ==
    \A c \in Consumers : runner[c] = "waiting" /\ Handling(c) => timer[c] = "held"

Flawless ==
    /\ \A c \in Consumers : code[c] = 0
    /\ \A w \in Processes : exitCode[w] # 1
    /\ \A c \in Consumers : ~Alive(ProcessOf[c]) => runner[c] = "returned"

HandledLate ==
    \A c \in Consumers :
        Alive(ProcessOf[c]) /\ Handling(c) /\ runner[c] # "waiting" => current[c] \in late

(* A message is delivered again only from an offset that is rolled back,   *)
(* and these are the offsets past what a leaving consumer committed.       *)
LeftBehind(p) ==
    owner[p] = Nobody \/ runner[owner[p]] \in {"leaving", "returned"}

RolledBackLate ==
    \A p \in Partitions : \A o \in Offsets : <<p, o>> \in received =>
        /\ o > position[p] => <<p, o>> \in late
        /\ LeftBehind(p) /\ o > committed[p] => <<p, o>> \in late

SufferLate == dropped \cup redelivered \subseteq late

LateInv ==
    /\ TimerHeld
    /\ faults = 0 => Flawless /\ HandledLate /\ RolledBackLate /\ SufferLate

LEMMA StepTimerHeld == TypeInv /\ TimerHeld /\ [Next]_vars => TimerHeld'
<1>. SUFFICES ASSUME TypeOK, TimerHeld, [Next]_vars PROVE TimerHeld'
  BY DEF TypeInv
<1>1. CASE UNCHANGED <<runner, listener, timer>>
  BY <1>1 DEF TimerHeld, Handling
<1>2. CASE \E c \in Consumers : \/ \E p \in Partitions : Receive(c, p)
                               \/ Decrement(c) \/ HandleEvent(c) \/ HandlingRaises(c)
  BY <1>2 DEF Receive, Decrement, HandleEvent, HandlingRaises, TimerOnEvent,
              AfterDecrement, AfterCallback, TimerHeld, Handling, TypeOK
<1>3. CASE \E c \in Consumers : Expire(c) \/ CommitOnStop(c) \/ LeaveGroup(c)
  BY <1>3 DEF Expire, CommitOnStop, LeaveGroup, TimerHeld, Handling, TypeOK
<1>4. CASE \E w \in Processes : Exit(w) \/ Crash(w) \/ Restart(w)
  BY <1>4 DEF Exit, Crash, Restart, Idle, TimerHeld, Handling, TypeOK
<1>5. CASE \E p \in Partitions : Store(p) \/ Count(p)
  BY <1>1, <1>5 DEF Store, Count, consumerVars
<1>6. CASE \E c \in Consumers : AutoCommit(c) \/ Evict(c)
  BY <1>1, <1>6 DEF AutoCommit, Evict, consumerVars
<1>7. CASE Rebalance \/ Terminated \/ UNCHANGED vars
  BY <1>1, <1>7 DEF Rebalance, Terminated, vars, consumerVars
<1>. QED
  BY <1>2, <1>3, <1>4, <1>5, <1>6, <1>7
  DEF Next, ListenerStep, RunnerStep, ConsumerFault

(* The steps of a run without faults. *)
FlawlessStep ==
    \/ \E p \in Partitions : Store(p) \/ Count(p)
    \/ \E c \in Consumers : Alive(ProcessOf[c]) /\
          (\/ \E p \in Partitions : Receive(c, p)
           \/ Decrement(c) \/ HandleEvent(c)
           \/ Expire(c) \/ CommitOnStop(c) \/ LeaveGroup(c) \/ AutoCommit(c))
    \/ Rebalance
    \/ \E w \in Processes : Exit(w)
    \/ UNCHANGED vars

LEMMA StepsWithoutFault ==
    ASSUME TypeInv, [Next]_vars, faults' = 0, faults = 0 => Flawless
    PROVE  faults = 0 /\ FlawlessStep
<1>0. TypeOK
  BY DEF TypeInv
<1>1. ~\E c \in Consumers : HandlingRaises(c) \/ Evict(c)
  BY <1>0 DEF HandlingRaises, Evict, TypeOK
<1>2. ~\E w \in Processes : Crash(w)
  BY <1>0 DEF Crash, TypeOK
<1>3. ASSUME NEW c \in Consumers, AutoCommit(c) PROVE Alive(ProcessOf[c])
  BY <1>3 DEF AutoCommit, Members
<1>4. faults = 0
  <2>1. CASE UNCHANGED faults
    BY <2>1
  <2>2. CASE \E p \in Partitions : Store(p) \/ Count(p)
    BY <2>1, <2>2 DEF Store, Count
  <2>3. CASE \E c \in Consumers : \/ \E p \in Partitions : Receive(c, p)
                                 \/ Decrement(c) \/ HandleEvent(c) \/ Expire(c)
                                 \/ CommitOnStop(c) \/ LeaveGroup(c) \/ AutoCommit(c)
    BY <2>1, <2>3 DEF Receive, Decrement, HandleEvent, Expire, CommitOnStop,
                      LeaveGroup, AutoCommit, fates, deliveries
  <2>4. CASE \E w \in Processes : Exit(w) \/ Restart(w)
    BY <2>1, <2>4 DEF Exit, Restart
  <2>5. CASE Rebalance \/ Terminated \/ UNCHANGED vars
    BY <2>1, <2>5 DEF Rebalance, Terminated, vars
  <2>. QED BY <1>1, <1>2, <2>2, <2>3, <2>4, <2>5
           DEF Next, ListenerStep, RunnerStep, ConsumerFault
<1>5. ~\E w \in Processes : Restart(w)
  BY <1>4 DEF Flawless, Restart
<1>. QED
  BY <1>1, <1>2, <1>3, <1>4, <1>5
  DEF FlawlessStep, Next, ListenerStep, RunnerStep, ConsumerFault, Terminated

LEMMA StepFlawless ==
    ASSUME TypeInv, Flawless, FlawlessStep
    PROVE  Flawless'
<1>. USE ConsumerAssumption
<1>0. TypeOK
  BY DEF TypeInv
<1>1. CASE UNCHANGED <<code, exitCode, runner>>
  BY <1>1 DEF Flawless, Alive
<1>2. ASSUME NEW c \in Consumers, Alive(ProcessOf[c]),
             Expire(c) \/ CommitOnStop(c) \/ LeaveGroup(c)
      PROVE  Flawless'
  BY <1>0, <1>2 DEF Expire, CommitOnStop, LeaveGroup, Flawless, Alive, TypeOK,
                    processVars
<1>3. ASSUME NEW w \in Processes, Exit(w) PROVE Flawless'
  <2>1. ExitStatus(w) = 0
    BY DEF ExitStatus, Flawless, Team
  <2>2. /\ exitCode' = [exitCode EXCEPT ![w] = 0]
        /\ UNCHANGED <<code, runner>>
        /\ \A c \in Team(w) : runner[c] = "returned"
    BY <1>3, <2>1 DEF Exit
  <2>. QED BY <1>0, <2>2 DEF Flawless, Alive, Team, TypeOK
<1>4. CASE \E p \in Partitions : Store(p) \/ Count(p)
  BY <1>1, <1>4 DEF Store, Count, consumerVars, processVars
<1>5. CASE \E c \in Consumers : \/ \E p \in Partitions : Receive(c, p)
                               \/ Decrement(c) \/ HandleEvent(c) \/ AutoCommit(c)
  BY <1>1, <1>5 DEF Receive, Decrement, HandleEvent, AutoCommit, consumerVars,
                    processVars
<1>6. CASE Rebalance \/ UNCHANGED vars
  BY <1>1, <1>6 DEF Rebalance, vars, consumerVars, processVars
<1>. QED BY <1>2, <1>3, <1>4, <1>5, <1>6 DEF FlawlessStep

LEMMA StepHandledLate ==
    ASSUME TypeInv, TimerHeld, HandledLate, FlawlessStep
    PROVE  HandledLate'
<1>. USE ConsumerAssumption
<1>0. TypeOK
  BY DEF TypeInv
<1>1. CASE UNCHANGED <<listener, runner, current, exitCode, late>>
  BY <1>1 DEF HandledLate, Handling, Alive
<1>2. ASSUME NEW c \in Consumers, NEW p \in Partitions, Receive(c, p)
      PROVE  HandledLate'
  <2>1. /\ current'[c] = <<p, position[p] + 1>>
        /\ late' = IF runner[c] = "waiting" THEN late ELSE late \cup {current'[c]}
        /\ \A d \in Consumers \ {c} : /\ current'[d] = current[d]
                                     /\ listener'[d] = listener[d]
        /\ UNCHANGED <<runner, exitCode>>
    BY <1>0, <1>2 DEF Receive, TypeOK, processVars
  <2>. QED BY <2>1 DEF HandledLate, Handling, Alive
<1>3. ASSUME NEW c \in Consumers, Decrement(c) \/ HandleEvent(c) PROVE HandledLate'
  BY <1>0, <1>3 DEF Decrement, HandleEvent, AfterDecrement, AfterCallback,
       HandledLate, Handling, Alive, TypeOK, processVars, deliveries
<1>4. ASSUME NEW c \in Consumers, Expire(c) PROVE HandledLate'
  <2>1. ~Handling(c)
    BY <1>4 DEF Expire, TimerHeld
  <2>. QED BY <1>0, <1>4, <2>1 DEF Expire, HandledLate, Handling, Alive, TypeOK,
                processVars, deliveries
<1>5. ASSUME NEW c \in Consumers, CommitOnStop(c) \/ LeaveGroup(c) PROVE HandledLate'
  BY <1>0, <1>5 DEF CommitOnStop, LeaveGroup, HandledLate, Handling, Alive, TypeOK,
                    processVars, deliveries
<1>6. ASSUME NEW w \in Processes, Exit(w) PROVE HandledLate'
  BY <1>0, <1>6 DEF Exit, ExitStatus, Idle, Forgotten, Team, HandledLate, Handling,
                    Alive, TypeOK, Running, deliveries
<1>7. CASE \E p \in Partitions : Store(p) \/ Count(p)
  BY <1>1, <1>7 DEF Store, Count, consumerVars, processVars, deliveries
<1>8. CASE Rebalance \/ (\E c \in Consumers : AutoCommit(c)) \/ UNCHANGED vars
  BY <1>1, <1>8 DEF Rebalance, AutoCommit, vars, consumerVars, processVars,
                    deliveries
<1>. QED BY <1>2, <1>3, <1>4, <1>5, <1>6, <1>7, <1>8 DEF FlawlessStep

LEMMA StepRolledBackLate ==
    ASSUME TypeInv, Flawless, RolledBackLate, FlawlessStep
    PROVE  RolledBackLate'
<1>. USE ConsumerAssumption
<1>0. TypeOK
  BY DEF TypeInv
<1>1. CASE UNCHANGED <<received, late, position, committed, owner, runner>>
  BY <1>1 DEF RolledBackLate, LeftBehind
<1>2. ASSUME NEW c \in Consumers, NEW p \in Partitions, Receive(c, p)
      PROVE  RolledBackLate'
  <2>. DEFINE m == <<p, position[p] + 1>>
  <2>1. /\ owner[p] = c /\ runner[c] \in {"waiting", "closing", "leaving"}
        /\ received' = received \cup {m}
        /\ late' = IF runner[c] = "waiting" THEN late ELSE late \cup {m}
        /\ position' = [position EXCEPT ![p] = @ + 1]
        /\ UNCHANGED <<runner, owner, committed>>
    BY <1>2 DEF Receive, Deliverable, Owned
  <2>2. SUFFICES ASSUME NEW q \in Partitions, NEW o \in Offsets,
                        <<q, o>> \in received'
                 PROVE  /\ o > position'[q] => <<q, o>> \in late'
                        /\ LeftBehind(q)' /\ o > committed'[q] => <<q, o>> \in late'
    BY DEF RolledBackLate
  <2>3. LeftBehind(q)' <=> LeftBehind(q)
    BY <2>1 DEF LeftBehind
  <2>4. CASE <<q, o>> = m
    BY <1>0, <2>1, <2>3, <2>4 DEF LeftBehind, TypeOK
  <2>5. CASE <<q, o>> # m
    <3>1. <<q, o>> \in received
      BY <2>1, <2>2, <2>5
    <3>2. o > position'[q] => o > position[q]
      BY <1>0, <2>1 DEF TypeOK, Offsets
    <3>. QED BY <2>1, <2>3, <3>1, <3>2 DEF RolledBackLate
  <2>. QED BY <2>4, <2>5
<1>3. ASSUME NEW c \in Consumers, Expire(c) PROVE RolledBackLate'
  <2>1. /\ runner' = [runner EXCEPT ![c] = "closing"]
        /\ UNCHANGED <<received, late, position, committed, owner>>
    BY <1>3 DEF Expire, deliveries, groupVars
  <2>2. \A p \in Partitions : LeftBehind(p)' => LeftBehind(p)
    BY <1>0, <2>1 DEF LeftBehind, TypeOK
  <2>. QED BY <2>1, <2>2 DEF RolledBackLate
<1>4. ASSUME NEW c \in Consumers, CommitOnStop(c) PROVE RolledBackLate'
  <2>1. /\ runner' = [runner EXCEPT ![c] = "leaving"]
        /\ committed' = Commit(Owned(c))
        /\ UNCHANGED <<received, late, position, owner>>
    BY <1>4 DEF CommitOnStop, deliveries
  <2>2. ASSUME NEW p \in Partitions
        PROVE  \/ owner[p] = c /\ committed'[p] = position[p]
               \/ owner[p] # c /\ committed'[p] = committed[p]
                               /\ (LeftBehind(p)' => LeftBehind(p))
    BY <1>0, <2>1 DEF Commit, Committable, Owned, LeftBehind, TypeOK
  <2>. QED BY <2>1, <2>2 DEF RolledBackLate
<1>5. ASSUME NEW c \in Consumers, LeaveGroup(c) PROVE RolledBackLate'
  <2>1. /\ runner[c] = "leaving"
        /\ runner' = [runner EXCEPT ![c] = "returned"]
        /\ owner' = [p \in Partitions |-> IF owner[p] = c THEN Nobody ELSE owner[p]]
        /\ UNCHANGED <<received, late, position, committed>>
    BY <1>5 DEF LeaveGroup, deliveries
  <2>2. \A p \in Partitions : LeftBehind(p)' => LeftBehind(p)
    BY <1>0, <2>1 DEF LeftBehind, TypeOK
  <2>. QED BY <2>1, <2>2 DEF RolledBackLate
<1>6. ASSUME NEW c \in Consumers, AutoCommit(c) PROVE RolledBackLate'
  <2>1. /\ runner[c] = "waiting"
        /\ committed' = Commit(Owned(c))
        /\ UNCHANGED <<received, late, position, owner, runner>>
    BY <1>6 DEF AutoCommit, Members, deliveries, consumerVars
  <2>2. ASSUME NEW p \in Partitions
        PROVE  /\ LeftBehind(p)' <=> LeftBehind(p)
               /\ LeftBehind(p) => committed'[p] = committed[p]
    BY <1>0, <2>1 DEF Commit, Owned, LeftBehind, TypeOK
  <2>. QED BY <2>1, <2>2 DEF RolledBackLate
<1>7. CASE Rebalance
  <2>1. /\ owner' \in [Partitions -> Members]
        /\ committed' = Commit({p \in Partitions : owner[p] \in Members})
        /\ position' = committed'
        /\ UNCHANGED <<received, late, runner>>
        /\ \A c \in Consumers :
               Alive(ProcessOf[c]) => runner[c] \notin {"closing", "leaving"}
    BY <1>7 DEF Rebalance, deliveries, consumerVars
  <2>2. ASSUME NEW p \in Partitions PROVE ~LeftBehind(p)'
    BY <2>1 DEF LeftBehind, Members
  <2>3. ASSUME NEW p \in Partitions
        PROVE  \/ position'[p] = position[p]
               \/ position'[p] = committed[p] /\ LeftBehind(p)
    <3>1. CASE owner[p] \in Members
      BY <2>1, <3>1 DEF Commit, Committable
    <3>2. CASE owner[p] \notin Members
      <4>1. LeftBehind(p)
        BY <1>0, <2>1, <3>2 DEF LeftBehind, Members, Flawless, TypeOK
      <4>. QED BY <2>1, <3>2, <4>1 DEF Commit
    <3>. QED BY <3>1, <3>2
  <2>. QED BY <2>1, <2>2, <2>3 DEF RolledBackLate
<1>8. CASE \E c \in Consumers : Decrement(c) \/ HandleEvent(c)
  BY <1>1, <1>8 DEF Decrement, HandleEvent, groupVars, deliveries
<1>9. CASE \E w \in Processes : Exit(w)
  BY <1>1, <1>9 DEF Exit, groupVars, deliveries
<1>10. CASE \E p \in Partitions : Store(p) \/ Count(p)
  BY <1>1, <1>10 DEF Store, Count, consumerVars, groupVars, deliveries
<1>11. CASE UNCHANGED vars
  BY <1>1, <1>11 DEF vars, consumerVars, groupVars, deliveries
<1>. QED
  BY <1>2, <1>3, <1>4, <1>5, <1>6, <1>7, <1>8, <1>9, <1>10, <1>11 DEF FlawlessStep

LEMMA StepSufferLate ==
    ASSUME TypeInv, HandledLate, RolledBackLate, SufferLate, FlawlessStep
    PROVE  SufferLate'
<1>0. TypeOK
  BY DEF TypeInv
<1>1. CASE UNCHANGED <<dropped, redelivered, late>>
  BY <1>1 DEF SufferLate
<1>2. ASSUME NEW c \in Consumers, NEW p \in Partitions, Receive(c, p)
      PROVE  SufferLate'
  <2>. DEFINE m == <<p, position[p] + 1>>
  <2>1. /\ redelivered' = redelivered \cup ({m} \cap received)
        /\ late \subseteq late' /\ UNCHANGED dropped
    BY <1>2 DEF Receive, fates
  <2>2. position[p] + 1 \in Offsets /\ position[p] + 1 > position[p]
    BY <1>0, <1>2, ConsumerAssumption
    DEF Receive, Deliverable, Owned, TypeOK, Offsets
  <2>3. m \in received => m \in late
    BY <2>2 DEF RolledBackLate
  <2>. QED BY <2>1, <2>3 DEF SufferLate
<1>3. ASSUME NEW w \in Processes, Exit(w) PROVE SufferLate'
  <2>1. CutOff(w) \subseteq late
    BY <1>3 DEF Exit, CutOff, Team, HandledLate, Alive
  <2>. QED BY <1>3, <2>1 DEF Exit, SufferLate, deliveries
<1>4. CASE \E c \in Consumers : \/ Decrement(c) \/ HandleEvent(c) \/ Expire(c)
                               \/ CommitOnStop(c) \/ LeaveGroup(c) \/ AutoCommit(c)
  BY <1>1, <1>4 DEF Decrement, HandleEvent, Expire, CommitOnStop, LeaveGroup,
                    AutoCommit, fates, deliveries
<1>5. CASE \E p \in Partitions : Store(p) \/ Count(p)
  BY <1>1, <1>5 DEF Store, Count, fates, deliveries
<1>6. CASE Rebalance \/ UNCHANGED vars
  BY <1>1, <1>6 DEF Rebalance, vars, fates, deliveries
<1>. QED BY <1>2, <1>3, <1>4, <1>5, <1>6 DEF FlawlessStep

LEMMA StepLateInv == TypeInv /\ LateInv /\ [Next]_vars => LateInv'
<1>. SUFFICES ASSUME TypeInv, LateInv, [Next]_vars PROVE LateInv'
  OBVIOUS
<1>1. TimerHeld'
  BY StepTimerHeld DEF LateInv
<1>2. ASSUME faults' = 0
      PROVE  Flawless' /\ HandledLate' /\ RolledBackLate' /\ SufferLate'
  <2>1. faults = 0 /\ FlawlessStep
    BY <1>2, StepsWithoutFault DEF LateInv
  <2>. QED BY <2>1, StepFlawless, StepHandledLate, StepRolledBackLate,
              StepSufferLate DEF LateInv
<1>. QED BY <1>1, <1>2 DEF LateInv

(* Without a fault a message is cut off or delivered twice only if it was  *)
(* received by a consumer that was already disconnecting.                  *)
THEOREM WithoutFaultsOnlyLateMessagesSuffer == Spec => []OnlyLateMessagesSuffer
<1>1. Init => LateInv
  BY ConsumerAssumption DEF Init, LateInv, TimerHeld, Flawless, HandledLate,
        RolledBackLate, SufferLate, Handling, Alive, Running
<1>2. LateInv => OnlyLateMessagesSuffer
  BY DEF LateInv, SufferLate, OnlyLateMessagesSuffer
<1>. QED BY <1>1, <1>2, StepLateInv, TypeInvariant, PTL DEF Spec
-----------------------------------------------------------------------------
(* The group implements the abstract delivery of module Delivery.  A       *)
(* consumer has a message in hand exactly while its listener handles one,  *)
(* only a living process handles messages, and no commit runs ahead of the *)
(* position of its partition, so that commits only grow.                   *)
HandInv ==
    /\ \A c \in Consumers : ~Handling(c) => current[c] = NoMessage
    /\ \A c \in Consumers : ~Alive(ProcessOf[c]) => ~Handling(c)
    /\ \A p \in Partitions : committed[p] <= position[p]

(* A message is not the empty tuple. *)
LEMMA MessagesAreReal == NoMessage \notin AllMessages
  BY DEF NoMessage, AllMessages

LEMMA StepHandInv == TypeInv /\ HandInv /\ [Next]_vars => HandInv'
<1>. SUFFICES ASSUME TypeInv, HandInv, [Next]_vars PROVE HandInv'
  OBVIOUS
<1>. USE ConsumerAssumption
<1>0. TypeOK
  BY DEF TypeInv
<1>1. (\A p \in Partitions : committed[p] <= position[p])'
  <2>1. ASSUME NEW p \in Partitions PROVE committed'[p] <= position'[p]
    <3>1. CASE UNCHANGED <<position, committed>>
      BY <3>1 DEF HandInv
    <3>2. ASSUME NEW c \in Consumers, NEW q \in Partitions, Receive(c, q)
          PROVE  committed'[p] <= position'[p]
      BY <1>0, <3>2 DEF Receive, HandInv, TypeOK
    <3>3. ASSUME NEW ps, committed' = Commit(ps),
                 position' = position \/ position' = committed'
          PROVE  committed'[p] <= position'[p]
      <4>1. Commit(ps)[p] = position[p] \/ Commit(ps)[p] = committed[p]
        BY <1>0, CommitType
      <4>. QED BY <1>0, <3>3, <4>1 DEF HandInv, TypeOK
    <3>4. CASE \E c \in Consumers : CommitOnStop(c) \/ AutoCommit(c)
      BY <3>3, <3>4 DEF CommitOnStop, AutoCommit
    <3>5. CASE Rebalance
      BY <3>3, <3>5 DEF Rebalance
    <3>6. CASE \E c \in Consumers : \/ Decrement(c) \/ HandleEvent(c) \/ HandlingRaises(c)
                                   \/ Expire(c) \/ LeaveGroup(c) \/ Evict(c)
      BY <3>1, <3>6 DEF Decrement, HandleEvent, HandlingRaises, Expire, LeaveGroup,
                        Evict, groupVars
    <3>7. CASE \E q \in Partitions : Store(q) \/ Count(q)
      BY <3>1, <3>7 DEF Store, Count, groupVars
    <3>8. CASE \E w \in Processes : Exit(w) \/ Crash(w) \/ Restart(w)
      BY <3>1, <3>8 DEF Exit, Crash, Restart, groupVars
    <3>9. CASE Terminated \/ UNCHANGED vars
      BY <3>1, <3>9 DEF Terminated, vars, groupVars
    <3>. QED BY <3>2, <3>4, <3>5, <3>6, <3>7, <3>8, <3>9
             DEF Next, ListenerStep, RunnerStep, ConsumerFault
  <2>. QED BY <2>1
<1>2. ASSUME NEW c \in Consumers
      PROVE  /\ ~Handling(c)' => current'[c] = NoMessage
             /\ ~Alive(ProcessOf[c])' => ~Handling(c)'
  <2>. DEFINE Kept == /\ ~Handling(c)' => current'[c] = NoMessage
                      /\ ~Alive(ProcessOf[c])' => ~Handling(c)'
  <2>1. CASE UNCHANGED <<listener, current, exitCode>>
    BY <2>1 DEF HandInv, Handling, Alive
  <2>2. ASSUME NEW d \in Consumers, Alive(ProcessOf[d]),
               \/ \E p \in Partitions : Receive(d, p)
               \/ Decrement(d) \/ HandleEvent(d) \/ HandlingRaises(d) \/ LeaveGroup(d)
        PROVE  Kept
    BY <1>0, <2>2 DEF Receive, Decrement, HandleEvent, HandlingRaises, LeaveGroup,
         AfterDecrement, AfterCallback, HandInv, Handling, Alive, TypeOK, processVars
  <2>3. ASSUME NEW w \in Processes, Exit(w) \/ Crash(w) PROVE Kept
    BY <1>0, <2>3 DEF Exit, Crash, Idle, Forgotten, Team, HandInv, Handling, Alive, TypeOK
  <2>4. ASSUME NEW w \in Processes, Restart(w) PROVE Kept
    BY <1>0, <2>4 DEF Restart, Team, HandInv, Handling, Alive, TypeOK, Running
  <2>5. CASE \E d \in Consumers : Expire(d) \/ CommitOnStop(d) \/ AutoCommit(d) \/ Evict(d)
    BY <2>1, <2>5 DEF Expire, CommitOnStop, AutoCommit, Evict, consumerVars, processVars
  <2>6. CASE \E q \in Partitions : Store(q) \/ Count(q)
    BY <2>1, <2>6 DEF Store, Count, consumerVars, processVars
  <2>7. CASE Rebalance \/ Terminated \/ UNCHANGED vars
    BY <2>1, <2>7 DEF Rebalance, Terminated, vars, consumerVars, processVars
  <2>. QED BY <2>2, <2>3, <2>4, <2>5, <2>6, <2>7
           DEF Next, ListenerStep, RunnerStep, ConsumerFault
<1>. QED BY <1>1, <1>2 DEF HandInv

(* The abstract state, named for the proofs. *)
Stored == {m \in AllMessages : m[2] <= logEnd[m[1]]}
Lost == dropped \cup UNION {failed[w] : w \in Processes}
Settled == {m \in AllMessages : m[2] <= committed[m[1]]}

LEMMA InitDelivery == Init => Group!Init
<1>. SUFFICES ASSUME Init PROVE Group!Init
  OBVIOUS
<1>1. \A m \in AllMessages : m[1] \in Partitions /\ m[2] \in Offsets
  BY DEF AllMessages
<1>2. \A o \in Offsets : ~(o <= 0)
  BY ConsumerAssumption DEF Offsets
<1>3. Stored = {} /\ Settled = {}
  BY <1>1, <1>2 DEF Init, Stored, Settled
<1>4. Lost = {}
  BY DEF Init, Lost
<1>. QED BY <1>3, <1>4 DEF Group!Init, Init, Stored, Settled, Lost

(* A commit settles messages that were taken: they have a fate, which in   *)
(* the abstract state means processed, lost or in the hands of a worker.   *)
LEMMA CommitSettles ==
    ASSUME TypeInv, FateInv, HandInv, NEW ps, committed' = Commit(ps),
           UNCHANGED <<current, processed, dropped, failed, logEnd>>
    PROVE  Group!Settle
<1>. USE ConsumerAssumption
<1>0. TypeOK
  BY DEF TypeInv
<1>1. \A p \in Partitions : /\ committed[p] <= committed'[p]
                            /\ committed'[p] <= position[p]
  BY <1>0, CommitType DEF HandInv, TypeOK
<1>2. ASSUME NEW m \in AllMessages, m[2] <= committed'[m[1]]
      PROVE  m \in processed \cup Lost \cup {current[c] : c \in Group!Busy}
  <2>1. m[1] \in Partitions /\ m[2] \in Offsets /\ m = <<m[1], m[2]>>
    BY DEF AllMessages
  <2>2. m[2] <= position[m[1]]
    BY <1>0, <1>1, <1>2, <2>1, CommitType DEF TypeOK, Offsets
  <2>3. HasFate(<<m[1], m[2]>>)
    BY <2>1, <2>2 DEF FateInv
  <2>4. CASE m \in InFlight
    <3>1. PICK c \in Consumers : Handling(c) /\ current[c] = m
      BY <2>4, InFlightMeaning
    <3>2. c \in Group!Busy
      BY <3>1, MessagesAreReal DEF Group!Busy
    <3>. QED BY <3>1, <3>2
  <2>. QED BY <2>1, <2>3, <2>4 DEF HasFate, Lost
<1>3. ASSUME NEW m \in AllMessages, m[2] <= committed[m[1]]
      PROVE  m[2] <= committed'[m[1]]
  <2>1. m[1] \in Partitions /\ m[2] \in Offsets
    BY DEF AllMessages
  <2>2. committed'[m[1]] \in 0 .. MaxOffset
    BY <1>0, <2>1, CommitType
  <2>. QED BY <1>0, <1>1, <1>3, <2>1, <2>2 DEF TypeOK, Offsets
<1>4. Settled \subseteq Settled'
  BY <1>3 DEF Settled
<1>5. Settled' \subseteq processed \cup Lost \cup {current[c] : c \in Group!Busy}
  BY <1>2 DEF Settled
<1>. QED BY <1>4, <1>5 DEF Group!Settle, Settled, Lost

(* What a process cuts off, its consumers lose. *)
LEMMA CutOffLoses ==
    ASSUME TypeInv, HandInv, NEW w \in Processes,
           dropped' = dropped \cup CutOff(w), current' = Forgotten(w),
           UNCHANGED <<logEnd, committed, processed, failed>>
    PROVE  \E ws \in SUBSET Consumers : Group!Lose(ws)
<1>. DEFINE ws == {c \in Team(w) : Handling(c)}
<1>1. ws \subseteq Group!Busy
  <2>1. \A c \in ws : c \in Consumers /\ current[c] \in AllMessages
    BY DEF TypeInv, Team
  <2>. QED BY <2>1, MessagesAreReal DEF Group!Busy
<1>2. Lost' = Lost \cup {current[c] : c \in ws}
  BY DEF Lost, CutOff
<1>3. current' = [c \in Consumers |-> IF c \in ws THEN NoMessage ELSE current[c]]
  <2>1. \A c \in Team(w) \ ws : current[c] = NoMessage
    BY DEF HandInv, Team
  <2>. QED BY <2>1 DEF Forgotten
<1>4. Group!Lose(ws)
  BY <1>1, <1>2, <1>3 DEF Group!Lose, Lost
<1>5. ws \in SUBSET Consumers
  BY DEF Team
<1>. HIDE DEF ws
<1>. QED BY <1>4, <1>5 DEF Group!Lose

LEMMA StepDelivery ==
    TypeInv /\ FateInv /\ HandInv /\ [Next]_vars => [Group!Next]_(Group!vars)
<1>. SUFFICES ASSUME TypeInv, FateInv, HandInv, [Next]_vars
              PROVE  [Group!Next]_(Group!vars)
  OBVIOUS
<1>. USE ConsumerAssumption
<1>0. TypeOK
  BY DEF TypeInv
<1>1. CASE UNCHANGED <<logEnd, committed, current, processed, dropped, failed>>
  BY <1>1 DEF Group!vars
<1>2. ASSUME NEW p \in Partitions, Store(p) PROVE Group!Next
  <2>1. \A q \in Partitions : logEnd[q] <= logEnd'[q]
    BY <1>0, <1>2 DEF Store, TypeOK
  <2>2. ASSUME NEW m \in Stored PROVE m \in Stored'
    <3>1. m \in AllMessages /\ m[1] \in Partitions /\ m[2] \in Offsets
      BY DEF Stored, AllMessages
    <3>2. logEnd'[m[1]] \in Int /\ logEnd[m[1]] \in Int
      BY <1>0, <1>2, <3>1 DEF Store, TypeOK
    <3>. QED BY <2>1, <2>2, <3>1, <3>2 DEF Stored, Offsets
  <2>3. Stored \subseteq Stored'
    BY <2>2
  <2>4. Group!Store
    BY <1>2, <2>3 DEF Group!Store, Stored, Store, consumerVars, groupVars, fates
  <2>. QED BY <2>4 DEF Group!Next
<1>3. ASSUME NEW c \in Consumers, NEW p \in Partitions, Receive(c, p)
      PROVE  Group!Next
  <2>. DEFINE m == <<p, position[p] + 1>>
  <2>1. /\ current' = [current EXCEPT ![c] = m]
        /\ position[p] < logEnd[p] /\ listener[c] = "listening"
        /\ UNCHANGED <<logEnd, committed, processed, dropped, failed>>
    BY <1>3 DEF Receive, Deliverable, Owned, topicVars, fates
  <2>2. m \in AllMessages /\ m[1] = p /\ m[2] = position[p] + 1
    BY <1>0, <2>1 DEF TypeOK, AllMessages, Offsets
  <2>3. m \in Stored /\ m \notin Settled
    BY <1>0, <2>1, <2>2 DEF Stored, Settled, HandInv, TypeOK
  <2>4. current[c] = NoMessage
    BY <2>1 DEF HandInv, Handling
  <2>5. Group!Take(c)
    BY <2>1, <2>3, <2>4 DEF Group!Take, Stored, Settled
  <2>. QED BY <2>5 DEF Group!Next
<1>4. ASSUME NEW c \in Consumers, HandleEvent(c) PROVE Group!Next
  <2>1. current[c] # NoMessage
    BY <1>4, MessagesAreReal DEF HandleEvent, TypeInv, Handling
  <2>2. Group!Process(c)
    BY <1>4, <2>1 DEF HandleEvent, Group!Process, Group!Busy, groupVars, topicVars
  <2>. QED BY <2>2 DEF Group!Next
<1>5. ASSUME NEW c \in Consumers, HandlingRaises(c) PROVE Group!Next
  <2>1. current[c] # NoMessage
    BY <1>5, MessagesAreReal DEF HandlingRaises, TypeInv
  <2>2. ProcessOf[c] \in Processes
    OBVIOUS
  <2>3. Lost' = Lost \cup {current[c]}
    <3>1. CASE dropped' = dropped \cup {current[c]} /\ failed' = failed
      BY <3>1 DEF Lost
    <3>2. CASE /\ dropped' = dropped
               /\ failed' = [failed EXCEPT ![ProcessOf[c]] = @ \cup {current[c]}]
      BY <1>0, <2>2, <3>2 DEF Lost, TypeOK
    <3>. QED BY <1>5, <3>1, <3>2 DEF HandlingRaises
  <2>4. current' = [d \in Consumers |-> IF d \in {c} THEN NoMessage ELSE current[d]]
    BY <1>0, <1>5 DEF HandlingRaises, TypeOK
  <2>5. {c} \subseteq Group!Busy /\ {current[d] : d \in {c}} = {current[c]}
    BY <2>1 DEF Group!Busy
  <2>6. UNCHANGED <<Stored, processed, Settled>>
    BY <1>5 DEF HandlingRaises, Stored, Settled, groupVars, topicVars
  <2>7. Group!Lose({c})
    BY <2>3, <2>4, <2>5, <2>6 DEF Group!Lose, Lost, Stored, Settled
  <2>8. {c} \in SUBSET Consumers
    OBVIOUS
  <2>. QED BY <2>7, <2>8 DEF Group!Next
<1>6. ASSUME NEW w \in Processes, Exit(w) \/ Crash(w) PROVE Group!Next
  <2>1. \E ws \in SUBSET Consumers : Group!Lose(ws)
    BY <1>6, CutOffLoses DEF Exit, Crash, topicVars, groupVars
  <2>. QED BY <2>1 DEF Group!Next
<1>7. ASSUME NEW c \in Consumers, CommitOnStop(c) \/ AutoCommit(c) PROVE Group!Next
  <2>1. Group!Settle
    BY <1>7, CommitSettles DEF CommitOnStop, AutoCommit, consumerVars, topicVars, fates
  <2>. QED BY <2>1 DEF Group!Next
<1>8. CASE Rebalance
  <2>1. Group!Settle
    BY <1>8, CommitSettles DEF Rebalance, consumerVars, topicVars, fates
  <2>. QED BY <2>1 DEF Group!Next
<1>9. CASE \E c \in Consumers : Decrement(c) \/ Expire(c) \/ LeaveGroup(c) \/ Evict(c)
  BY <1>1, <1>9 DEF Decrement, Expire, LeaveGroup, Evict, consumerVars, groupVars,
                    topicVars, fates
<1>10. CASE (\E p \in Partitions : Count(p)) \/ \E w \in Processes : Restart(w)
  BY <1>1, <1>10 DEF Count, Restart, consumerVars, groupVars, topicVars, fates
<1>11. CASE Terminated \/ UNCHANGED vars
  BY <1>1, <1>11 DEF Terminated, vars, consumerVars, groupVars, topicVars, fates
<1>. QED
  BY <1>2, <1>3, <1>4, <1>5, <1>6, <1>7, <1>8, <1>9, <1>10, <1>11
  DEF Next, ListenerStep, RunnerStep, ConsumerFault

(* The consumer group implements the abstract delivery: what a commit      *)
(* settles was taken by a consumer and is processed, lost or in hand, and  *)
(* no consumer takes it again, whoever commits, fails, is evicted or takes *)
(* over.                                                                   *)
THEOREM GroupImplementsDelivery == Spec => ImplementsDelivery
<1>1. Init => HandInv
  BY ConsumerAssumption DEF Init, HandInv, Handling, Alive
<1>2. Init => FateInv
  BY ConsumerAssumption DEF Init, FateInv, Offsets
<1>. QED
  BY <1>1, <1>2, StepHandInv, StepFateInv, TypeInvariant, InitDelivery, StepDelivery,
     PTL DEF Spec, ImplementsDelivery, Group!Spec
-----------------------------------------------------------------------------
(* The counter follows consumption.  A message that waits to be counted    *)
(* off was received, and as long as no delivery has gone wrong no two      *)
(* listeners wait to count off the same one.                               *)
Uncounted(c) == listener[c] = "decrement"

Clean == faults = 0 /\ dropped \cup redelivered = {}

OneEach ==
    \A c, d \in Consumers : c # d /\ Uncounted(c) /\ Uncounted(d) => current[c] # current[d]

Tracked(p) == score[p] = counted[p] - Cardinality(Taken(p))

CounterInv ==
    /\ \A c \in Consumers : Uncounted(c) => current[c] \in received
    /\ Clean => OneEach /\ \A p \in Partitions : Tracked(p)

LEMMA AllMessagesFinite == IsFiniteSet(AllMessages)
<1>1. IsFiniteSet(Partitions) /\ IsFiniteSet(Offsets)
  BY ConsumerAssumption, FS_Interval DEF Partitions, Offsets
<1>. QED BY <1>1, FS_Product DEF AllMessages

LEMMA TakenFinite ==
    ASSUME TypeOK, NEW p PROVE IsFiniteSet(Taken(p))
  BY AllMessagesFinite, FS_Subset DEF TypeOK, Taken

(* What is taken depends on what was received and what still waits to be   *)
(* counted off.                                                            *)
LEMMA TakenKept ==
    ASSUME received' = received,
           \A c \in Consumers : /\ Uncounted(c)' <=> Uncounted(c)
                                /\ Uncounted(c) => current'[c] = current[c],
           NEW p
    PROVE  Taken(p)' = Taken(p)
  BY DEF Taken, Uncounted

(* Nothing goes right again: before a clean state all states are clean.    *)
LEMMA CleanBefore ==
    ASSUME TypeInv, LateInv, [Next]_vars, Clean'
    PROVE  Clean /\ FlawlessStep
<1>1. faults = 0 /\ FlawlessStep
  BY StepsWithoutFault DEF LateInv, Clean
<1>2. dropped \subseteq dropped' /\ redelivered \subseteq redelivered'
  <2>1. CASE UNCHANGED <<dropped, redelivered>>
    BY <2>1
  <2>2. CASE \E c \in Consumers, p \in Partitions : Receive(c, p)
    BY <2>2 DEF Receive, fates
  <2>3. CASE \E w \in Processes : Exit(w)
    BY <2>3 DEF Exit, deliveries
  <2>4. CASE \E c \in Consumers : \/ Decrement(c) \/ HandleEvent(c) \/ Expire(c)
                                 \/ CommitOnStop(c) \/ LeaveGroup(c) \/ AutoCommit(c)
    BY <2>1, <2>4 DEF Decrement, HandleEvent, Expire, CommitOnStop, LeaveGroup,
                      AutoCommit, fates, deliveries
  <2>5. CASE \E p \in Partitions : Store(p) \/ Count(p)
    BY <2>1, <2>5 DEF Store, Count, fates, deliveries
  <2>6. CASE Rebalance \/ UNCHANGED vars
    BY <2>1, <2>6 DEF Rebalance, vars, fates, deliveries
  <2>. QED BY <1>1, <2>2, <2>3, <2>4, <2>5, <2>6 DEF FlawlessStep
<1>. QED BY <1>1, <1>2 DEF Clean

LEMMA StepUncounted ==
    ASSUME TypeInv, CounterInv, [Next]_vars, NEW c \in Consumers, Uncounted(c)'
    PROVE  current'[c] \in received'
<1>0. TypeOK
  BY DEF TypeInv
<1>1. CASE received \subseteq received' /\ Uncounted(c) /\ current'[c] = current[c]
  BY <1>1 DEF CounterInv
<1>2. CASE UNCHANGED <<listener, current, received>>
  BY <1>1, <1>2 DEF Uncounted
<1>3. ASSUME NEW d \in Consumers, NEW p \in Partitions, Receive(d, p)
      PROVE  current'[c] \in received'
  BY <1>0, <1>1, <1>3 DEF Receive, Uncounted, TypeOK
<1>4. ASSUME NEW d \in Consumers, \/ Decrement(d) \/ HandleEvent(d)
                                  \/ HandlingRaises(d) \/ LeaveGroup(d)
      PROVE  current'[c] \in received'
  BY <1>0, <1>1, <1>4 DEF Decrement, HandleEvent, HandlingRaises, LeaveGroup,
        AfterDecrement, AfterCallback, Uncounted, TypeOK, deliveries
<1>5. ASSUME NEW w \in Processes, Exit(w) \/ Crash(w) \/ Restart(w)
      PROVE  current'[c] \in received'
  BY <1>0, <1>1, <1>5 DEF Exit, Crash, Restart, Idle, Forgotten, Uncounted, TypeOK,
                          deliveries
<1>6. CASE \E d \in Consumers : Expire(d) \/ CommitOnStop(d) \/ AutoCommit(d) \/ Evict(d)
  BY <1>2, <1>6 DEF Expire, CommitOnStop, AutoCommit, Evict, consumerVars, deliveries
<1>7. CASE \E p \in Partitions : Store(p) \/ Count(p)
  BY <1>2, <1>7 DEF Store, Count, consumerVars, deliveries
<1>8. CASE Rebalance \/ Terminated \/ UNCHANGED vars
  BY <1>2, <1>8 DEF Rebalance, Terminated, vars, consumerVars, deliveries
<1>. QED
  BY <1>3, <1>4, <1>5, <1>6, <1>7, <1>8
  DEF Next, ListenerStep, RunnerStep, ConsumerFault

(* The next record is new, and waits to be counted off. *)
LEMMA ReceiveTracked ==
    ASSUME TypeInv, CounterInv, Clean, Clean', NEW c \in Consumers,
           NEW q \in Partitions, Receive(c, q)
    PROVE  OneEach' /\ \A p \in Partitions : Tracked(p)'
<1>. DEFINE m == <<q, position[q] + 1>>
<1>1. /\ received' = received \cup {m} /\ m \notin received
      /\ listener' = [listener EXCEPT ![c] = "decrement"]
      /\ current' = [current EXCEPT ![c] = m]
      /\ listener[c] = "listening" /\ UNCHANGED <<score, counted>>
  BY DEF Receive, Clean, topicVars
<1>. HIDE DEF m
<1>2. /\ Uncounted(c)' /\ ~Uncounted(c) /\ current'[c] = m
      /\ \A d \in Consumers \ {c} : /\ Uncounted(d)' <=> Uncounted(d)
                                   /\ current'[d] = current[d]
  BY <1>1 DEF TypeInv, TypeOK, Uncounted
<1>3. OneEach'
  BY <1>1, <1>2 DEF OneEach, CounterInv
<1>4. ASSUME NEW p \in Partitions PROVE Taken(p)' = Taken(p)
  BY <1>1, <1>2 DEF Taken, Uncounted
<1>. QED BY <1>1, <1>3, <1>4 DEF Tracked, CounterInv

(* What is counted off is taken from then on. *)
LEMMA DecrementTracked ==
    ASSUME TypeInv, CounterInv, Clean, NEW c \in Consumers, Decrement(c)
    PROVE  OneEach' /\ \A p \in Partitions : Tracked(p)'
<1>0. TypeOK
  BY DEF TypeInv
<1>1. PICK m \in received, q \in Partitions : m = current[c] /\ q = m[1]
  BY DEF CounterInv, Decrement, Uncounted, TypeInv, Handling, AllMessages
<1>2. /\ received' = received /\ UNCHANGED <<current, counted>>
      /\ score' = [score EXCEPT ![q] = @ - 1]
      /\ Uncounted(c) /\ ~Uncounted(c)'
      /\ \A d \in Consumers \ {c} : Uncounted(d)' <=> Uncounted(d)
  BY <1>0, <1>1 DEF Decrement, Decremented, AfterDecrement, Uncounted, TypeOK, deliveries
<1>3. \A d \in Consumers \ {c} : Uncounted(d) => current[d] # m
  BY <1>1, <1>2 DEF CounterInv, OneEach
<1>4. OneEach'
  BY <1>2 DEF OneEach, CounterInv
<1>5. ASSUME NEW p \in Partitions, p # q PROVE Tracked(p)'
  <2>1. Taken(p)' = Taken(p)
    BY <1>1, <1>2, <1>5 DEF Taken, Uncounted
  <2>2. score'[p] = score[p]
    BY <1>0, <1>2, <1>5 DEF TypeOK
  <2>. QED BY <1>2, <2>1, <2>2 DEF Tracked, CounterInv
<1>6. Tracked(q)'
  <2>1. Taken(q)' = Taken(q) \cup {m}
    BY <1>1, <1>2, <1>3 DEF Taken, Uncounted
  <2>2. m \notin Taken(q)
    BY <1>1, <1>2 DEF Taken, Uncounted
  <2>3. IsFiniteSet(Taken(q))
    BY <1>0, TakenFinite
  <2>4. Cardinality(Taken(q)') = Cardinality(Taken(q)) + 1
    BY <2>1, <2>2, <2>3, FS_AddElement
  <2>5. score'[q] = score[q] - 1 /\ score[q] \in Int /\ counted[q] \in Int
    BY <1>0, <1>1, <1>2 DEF TypeOK
  <2>6. Cardinality(Taken(q)) \in Nat
    BY <2>3, FS_CardinalityType
  <2>7. Tracked(q)
    BY <1>1 DEF CounterInv
  <2>. QED BY <1>2, <2>4, <2>5, <2>6, <2>7 DEF Tracked
<1>. QED BY <1>1, <1>4, <1>5, <1>6

LEMMA StepCounterInv == TypeInv /\ LateInv /\ CounterInv /\ [Next]_vars => CounterInv'
<1>. SUFFICES ASSUME TypeInv, LateInv, CounterInv, [Next]_vars PROVE CounterInv'
  OBVIOUS
<1>. USE ConsumerAssumption
<1>0. TypeOK
  BY DEF TypeInv
<1>1. \A c \in Consumers : Uncounted(c)' => current'[c] \in received'
  BY StepUncounted
<1>2. ASSUME Clean' PROVE OneEach' /\ \A p \in Partitions : Tracked(p)'
  <2>. DEFINE Same == \A c \in Consumers : /\ Uncounted(c)' <=> Uncounted(c)
                                           /\ Uncounted(c) => current'[c] = current[c]
  <2>1. Clean /\ FlawlessStep
    BY <1>2, CleanBefore
  <2>2. ASSUME Same, UNCHANGED <<received, score, counted>>
        PROVE  OneEach' /\ \A p \in Partitions : Tracked(p)'
    <3>1. OneEach'
      BY <2>1, <2>2 DEF OneEach, CounterInv
    <3>2. \A p \in Partitions : Taken(p)' = Taken(p)
      BY <2>2, TakenKept
    <3>. QED BY <2>1, <2>2, <3>1, <3>2 DEF Tracked, CounterInv
  <2>3. CASE UNCHANGED <<listener, current, received, score, counted>>
    BY <2>2, <2>3 DEF Uncounted
  <2>4. ASSUME NEW c \in Consumers, NEW q \in Partitions, Receive(c, q)
        PROVE  OneEach' /\ \A p \in Partitions : Tracked(p)'
    BY <1>2, <2>1, <2>4, ReceiveTracked
  <2>5. ASSUME NEW c \in Consumers, Decrement(c)
        PROVE  OneEach' /\ \A p \in Partitions : Tracked(p)'
    BY <2>1, <2>5, DecrementTracked
  <2>6. ASSUME NEW c \in Consumers, HandleEvent(c) \/ LeaveGroup(c)
        PROVE  OneEach' /\ \A p \in Partitions : Tracked(p)'
    <3>1. Same
      BY <1>0, <2>6 DEF HandleEvent, LeaveGroup, AfterCallback, Uncounted, TypeOK
    <3>. QED BY <2>2, <2>6, <3>1 DEF HandleEvent, LeaveGroup, deliveries, topicVars
  <2>7. ASSUME NEW w \in Processes, Exit(w)
        PROVE  OneEach' /\ \A p \in Partitions : Tracked(p)'
    <3>1. CutOff(w) = {}
      BY <1>2, <2>7 DEF Exit, Clean
    <3>2. \A c \in Team(w) : ~Handling(c)
      BY <3>1 DEF CutOff
    <3>3. Same
      BY <2>7, <3>2 DEF Exit, Idle, Forgotten, Team, Uncounted, Handling
    <3>. QED BY <2>2, <2>7, <3>3 DEF Exit, deliveries, topicVars
  <2>8. ASSUME NEW q \in Partitions, Count(q)
        PROVE  OneEach' /\ \A p \in Partitions : Tracked(p)'
    <3>1. Same /\ received' = received
      BY <2>8 DEF Count, Uncounted, consumerVars, deliveries
    <3>2. OneEach'
      BY <2>1, <3>1 DEF OneEach, CounterInv
    <3>3. ASSUME NEW p \in Partitions PROVE Tracked(p)'
      <4>1. Taken(p)' = Taken(p)
        BY <3>1, TakenKept
      <4>2. Cardinality(Taken(p)) \in Nat
        BY <1>0, TakenFinite, FS_CardinalityType
      <4>3. /\ score[p] \in Int /\ counted[p] \in Int
            /\ \E n \in Int :
                  /\ score'[p] = IF p = q THEN score[p] + n ELSE score[p]
                  /\ counted'[p] = IF p = q THEN counted[p] + n ELSE counted[p]
        <5>1. PICK n \in 1 .. logEnd[q] - counted[q] :
                 /\ counted' = [counted EXCEPT ![q] = @ + n]
                 /\ score' = [score EXCEPT ![q] = @ + n]
          BY <2>8 DEF Count
        <5>2. n \in Int
          BY <1>0, <5>1 DEF TypeOK
        <5>. QED BY <1>0, <5>1, <5>2 DEF TypeOK
      <4>4. Tracked(p)
        BY <2>1 DEF CounterInv
      <4>. QED BY <4>1, <4>2, <4>3, <4>4 DEF Tracked
    <3>. QED BY <3>2, <3>3
  <2>9. CASE \E c \in Consumers : Expire(c) \/ CommitOnStop(c) \/ AutoCommit(c)
    BY <2>3, <2>9 DEF Expire, CommitOnStop, AutoCommit, consumerVars, deliveries,
                      topicVars
  <2>10. CASE \E q \in Partitions : Store(q)
    BY <2>3, <2>10 DEF Store, consumerVars, deliveries
  <2>11. CASE Rebalance \/ UNCHANGED vars
    BY <2>3, <2>11 DEF Rebalance, vars, consumerVars, deliveries, topicVars
  <2>. QED BY <2>1, <2>4, <2>5, <2>6, <2>7, <2>8, <2>9, <2>10, <2>11 DEF FlawlessStep
<1>. QED BY <1>1, <1>2 DEF CounterInv

(* As long as no delivery has gone wrong, the score the producer throttles *)
(* on is exactly what it has counted minus what the listeners have counted *)
(* off.                                                                    *)
THEOREM CounterFollowsConsumption == Spec => []CounterTracksConsumption
<1>1. ASSUME Init PROVE CounterInv
  <2>1. \A p \in Partitions : Taken(p) = {} /\ score[p] = 0 /\ counted[p] = 0
    BY <1>1 DEF Init, Taken
  <2>. QED BY <1>1, <2>1, FS_EmptySet DEF Init, CounterInv, OneEach, Tracked, Uncounted
<1>2. Init => LateInv
  BY ConsumerAssumption DEF Init, LateInv, TimerHeld, Flawless, HandledLate,
        RolledBackLate, SufferLate, Handling, Alive, Running
<1>3. CounterInv => CounterTracksConsumption
  BY DEF CounterInv, CounterTracksConsumption, Clean, Tracked
<1>. QED BY <1>1, <1>2, <1>3, StepCounterInv, StepLateInv, TypeInvariant, PTL DEF Spec
=============================================================================
