------------------------- MODULE OrdonnanceurProofs --------------------------
(***************************************************************************)
(* Theorems about Ordonnanceur, for every number of tasks, every set of    *)
(* tasks that wait and every period the code's arithmetic allows.          *)
(***************************************************************************)
EXTENDS Ordonnanceur, TLAPS

(* Where slept stops counting is beyond a period. *)
LEMMA MaxSleptBeyondPeriod ==
  /\ Period \in Nat /\ MaxSlept \in Nat
  /\ OCR1A < Period /\ Period <= MaxSlept
<1>1. Period \in Nat /\ Period > 0 /\ OCR1A < Period
  BY TimerAssumption DEF Period
<1>2. \A n, p \in Nat : n >= 2 => 2 * n * p \in Nat /\ p <= 2 * n * p
  OBVIOUS
<1>3. QED BY <1>1, <1>2, TaskAssumption DEF MaxSlept

(* What a sleeper is charged is an integer. *)
LEMMA ChargeIsInt ==
  ASSUME TypeOK, NEW i \in Task
  PROVE  difftime_ms(i) \in Int
<1>1. TCNT1 \in Int /\ OCR1A \in Int /\ OCR1A > 0
  BY TimerAssumption DEF TypeOK
<1>2. (TCNT1 * 200) \div OCR1A \in Int
  BY <1>1
<1>3. ((TCNT1 * 200) \div OCR1A) \div 10 \in Int
  BY <1>2
<1>4. QED BY <1>3 DEF difftime_ms

(* The turn goes up the indices and comes back to a task no higher than    *)
(* the current one through task 0, provided task 0 is awake.               *)
LEMMA TurnPassesZero ==
  ASSUME TypeOK, PickNext, state'[0] # SLEEP
  PROVE  /\ currentTask' \in Task
         /\ currentTask # 0 => currentTask' > currentTask \/ currentTask' = 0
<1> USE TaskAssumption DEF TypeOK, Task
<1>1. PICK n \in 1..NB_TASK :
        /\ \A m \in 1..(n - 1) : state'[after(m)] = SLEEP
        /\ currentTask' = after(n)
  BY DEF PickNext
<1>2. currentTask' \in Task
  BY <1>1 DEF after
<1>3. ASSUME currentTask # 0, n > NB_TASK - currentTask PROVE FALSE
  <2>1. /\ NB_TASK - currentTask \in 1..(n - 1)
        /\ after(NB_TASK - currentTask) = 0
    BY <1>3 DEF after
  <2>2. QED BY <1>1, <2>1
<1>4. QED BY <1>1, <1>2, <1>3 DEF after

-----------------------------------------------------------------------------
(* The inductive invariant.  A task in wait has slept at least as long as  *)
(* the counter says (CounterBehind), for wait clears both; and a task that *)
(* has not yet slept a period waits for a turn that is still above it or,  *)
(* at task 0, for the end of the period (TurnToCome).                      *)
ZeroRuns == state[0] = AWAKE /\ where[0] = "run"

CurrentNotAsleep == where[currentTask] # "asleep"

CounterBehind == \A i \in Task : where[i] # "run" => TCNT1 <= slept[i]

TurnToCome ==
  \A i \in Task : where[i] = "asleep" =>
    \/ slept[i] >= Period
    \/ currentTask > i
    \/ currentTask = 0 /\ ~OCF1A

RunHasSlept == \A i \in Task : where[i] = "run" => slept[i] >= Period

IInv ==
  /\ TypeOK
  /\ ZeroRuns
  /\ CurrentNotAsleep
  /\ CounterBehind
  /\ TurnToCome
  /\ RunHasSlept

LEMMA InitIInv == Init => IInv
<1>1. 0 \in Task /\ 0 \in Word /\ 0 \in 0..OCR1A
  BY TaskAssumption, TimerAssumption DEF Task, Word
<1>2. MaxSlept \in 0..MaxSlept /\ MaxSlept >= Period
  BY MaxSleptBeyondPeriod
<1>3. QED BY <1>1, <1>2
          DEF Init, IInv, TypeOK, ZeroRuns, CurrentNotAsleep, CounterBehind,
              TurnToCome, RunHasSlept, Place

LEMMA CountIInv == IInv /\ Count => IInv'
<1> SUFFICES ASSUME IInv, Count PROVE IInv'
  OBVIOUS
<1> USE DEF IInv, TypeOK
<1>1. TCNT1' \in 0..OCR1A /\ (TCNT1' = 0 \/ TCNT1' = TCNT1 + 1)
  BY TimerAssumption DEF Count
<1>2. ASSUME NEW i \in Task
      PROVE  /\ slept'[i] \in 0..MaxSlept
             /\ slept'[i] >= slept[i]
             /\ where[i] # "run" => slept'[i] = MaxSlept
                                    \/ slept'[i] = slept[i] + 1
  BY MaxSleptBeyondPeriod DEF Count
<1>3. slept' \in [Task -> 0..MaxSlept]
  BY <1>2 DEF Count
<1>4. TypeOK'
  BY <1>1, <1>3 DEF Count
<1>5. ZeroRuns' /\ CurrentNotAsleep'
  BY DEF Count, ZeroRuns, CurrentNotAsleep
<1>6. CounterBehind'
  <2> SUFFICES ASSUME NEW i \in Task, where[i] # "run"
               PROVE  TCNT1' <= slept'[i]
    BY DEF Count, CounterBehind
  <2>1. TCNT1 \in Int /\ TCNT1' \in Int /\ TCNT1' <= OCR1A
    BY <1>1, TimerAssumption
  <2>2. slept[i] \in Int /\ slept'[i] \in Int /\ 0 <= slept[i]
    BY <1>2, MaxSleptBeyondPeriod
  <2>3. TCNT1 <= slept[i]
    BY DEF CounterBehind
  <2>4. slept'[i] = MaxSlept \/ slept'[i] = slept[i] + 1
    BY <1>2
  <2>5. QED BY <1>1, <2>1, <2>2, <2>3, <2>4, MaxSleptBeyondPeriod,
              TimerAssumption
<1>7. TurnToCome'
  <2> SUFFICES ASSUME NEW i \in Task, where[i] = "asleep",
                      ~(currentTask > i), ~(currentTask = 0 /\ ~OCF1A')
               PROVE  slept'[i] >= Period
    BY DEF Count, TurnToCome
  <2>1. CASE slept[i] >= Period
    BY <1>2, <2>1, MaxSleptBeyondPeriod
  <2>2. CASE currentTask = 0 /\ OCF1A'
    <3>1. TCNT1 = OCR1A /\ TCNT1 <= slept[i]
      BY <2>2 DEF Count, CounterBehind
    <3>2. QED BY <1>2, <3>1, MaxSleptBeyondPeriod, TimerAssumption DEF Period
  <2>3. QED BY <2>1, <2>2 DEF TurnToCome, Count
<1>8. RunHasSlept'
  BY <1>2, MaxSleptBeyondPeriod DEF Count, RunHasSlept
<1>9. QED BY <1>4, <1>5, <1>6, <1>7, <1>8

LEMMA WaitIInv == ASSUME NEW w \in Waiters PROVE IInv /\ Wait(w) => IInv'
<1> SUFFICES ASSUME IInv, Wait(w) PROVE IInv'
  OBVIOUS
<1> USE DEF IInv, TypeOK
<1>1. w \in Task /\ w # 0 /\ 0 \in Task
  BY WaitersAssumption, TaskAssumption DEF Task
<1>2. TypeOK'
  <2>1. 20 \in Word /\ 0 \in 0..OCR1A /\ 0 \in 0..MaxSlept
    BY MaxSleptBeyondPeriod, TimerAssumption DEF Word
  <2>2. state' \in [Task -> {SLEEP, AWAKE}] /\ data' \in [Task -> Word]
    BY <2>1 DEF Wait, Delay
  <2>3. where' \in [Task -> Place] /\ slept' \in [Task -> 0..MaxSlept]
    BY <2>1 DEF Wait, Place
  <2>4. TCNT1' \in 0..OCR1A /\ OCF1A' \in BOOLEAN
    BY <2>1 DEF Wait
  <2>5. QED BY <2>2, <2>3, <2>4 DEF Wait
<1>3. ZeroRuns' /\ CurrentNotAsleep'
  BY <1>1 DEF Wait, ZeroRuns, CurrentNotAsleep
<1>4. CounterBehind'
  BY <1>1, MaxSleptBeyondPeriod DEF Wait, CounterBehind
<1>5. TurnToCome'
  BY <1>1 DEF Wait, TurnToCome
<1>6. RunHasSlept'
  BY <1>1 DEF Wait, RunHasSlept
<1>7. QED BY <1>2, <1>3, <1>4, <1>5, <1>6

(* scheduler keeps the types and task 0 awake.  *)
LEMMA SchedulerType ==
  ASSUME IInv, scheduler
  PROVE  /\ currentTask' \in Task
         /\ state' \in [Task -> {SLEEP, AWAKE}] /\ state'[0] = AWAKE
         /\ data' \in [Task -> Word]
         /\ TCNT1' \in 0..OCR1A /\ TCNT1' <= TCNT1
<1> USE DEF IInv
<1>1. 0 \in Task /\ 0 \in 0..OCR1A
  BY TaskAssumption, TimerAssumption DEF Task
<1>2. TCNT1' \in 0..OCR1A /\ TCNT1' <= TCNT1
  BY <1>1, TimerAssumption DEF scheduler, TypeOK
<1>3. state' \in [Task -> {SLEEP, AWAKE}] /\ state'[0] = AWAKE
  BY <1>1 DEF scheduler, TypeOK, Sleepers, ZeroRuns
<1>4. \A x \in Int : x % 65536 \in Word
  BY DEF Word
<1>5. ASSUME NEW i \in Task PROVE (data[i] - difftime_ms(i)) % 65536 \in Word
  <2>1. data[i] \in Int
    BY DEF TypeOK, Word
  <2>2. difftime_ms(i) \in Int
    BY ChargeIsInt
  <2>3. data[i] - difftime_ms(i) \in Int
    BY <2>1, <2>2
  <2>4. QED BY <1>4, <2>3
<1>6. data' \in [Task -> Word]
  BY <1>5 DEF scheduler, TypeOK
<1>7. state'[0] # SLEEP
  BY <1>3 DEF SLEEP, AWAKE
<1>8. currentTask' \in Task
  BY <1>7, TurnPassesZero DEF scheduler
<1>9. QED BY <1>2, <1>3, <1>6, <1>8

(* A switch out of the current task, be it by the timer or by wait: the    *)
(* task picked has slept a period if it was parked, and every other parked *)
(* task still has its turn to come.                                        *)
LEMMA SwitchIInv ==
  ASSUME IInv, NEW place \in {"run", "call", "asleep"}, Switch(place),
         OCF1A' = FALSE,
         place = "asleep" => where[currentTask] = "call" /\ ~OCF1A,
         place # "asleep" => where[currentTask] = place /\ OCF1A
  PROVE  IInv'
<1> USE DEF IInv
<1>1. /\ currentTask' \in Task
      /\ state' \in [Task -> {SLEEP, AWAKE}] /\ state'[0] = AWAKE
      /\ data' \in [Task -> Word]
      /\ TCNT1' \in 0..OCR1A /\ TCNT1' <= TCNT1
  BY SchedulerType DEF Switch
<1>2. currentTask \in Task /\ currentTask \in Int /\ where \in [Task -> Place]
  BY TaskAssumption DEF TypeOK, Task
<1>3. currentTask # 0 => currentTask' > currentTask \/ currentTask' = 0
  BY <1>1, TurnPassesZero DEF Switch, scheduler, SLEEP, AWAKE
<1>4. place = "asleep" => currentTask # 0
  BY DEF ZeroRuns
<1>5. place = "asleep" => currentTask' # currentTask
  BY <1>1, <1>2, <1>3, <1>4 DEF Task
<1>6. /\ where' \in [Task -> Place]
      /\ \A i \in Task : i # currentTask /\ i # currentTask'
                           => where'[i] = where[i]
      /\ currentTask' # currentTask => where'[currentTask] = place
      /\ currentTask' = currentTask => where'[currentTask] = place
      /\ currentTask' # currentTask =>
           where'[currentTask'] = IF where[currentTask'] = "asleep"
                                  THEN "run" ELSE where[currentTask']
  BY <1>1, <1>2, <1>5 DEF Switch, Place
<1>7. TypeOK'
  BY <1>1, <1>6 DEF Switch, TypeOK
<1>8. ZeroRuns'
  BY <1>1, <1>2, <1>4, <1>6, TaskAssumption DEF ZeroRuns, Task, Place
<1>9. CurrentNotAsleep'
  BY <1>1, <1>2, <1>5, <1>6 DEF CurrentNotAsleep, Place
<1>10. \A i \in Task : where'[i] # "run" => where[i] # "run"
  BY <1>1, <1>2, <1>5, <1>6
<1>11. CounterBehind'
  <2>1. \A i \in Task : slept'[i] = slept[i] /\ slept[i] \in Int
    BY MaxSleptBeyondPeriod DEF Switch, TypeOK
  <2>2. TCNT1 \in Int /\ TCNT1' \in Int
    BY <1>1, TimerAssumption DEF TypeOK
  <2>3. QED BY <1>1, <1>10, <2>1, <2>2 DEF CounterBehind
<1>12. TurnToCome'
  <2> SUFFICES ASSUME NEW i \in Task, where'[i] = "asleep",
                      ~(currentTask' > i), currentTask' # 0
               PROVE  slept[i] >= Period
    BY DEF Switch, TurnToCome
  <2>1. i # currentTask
    BY <1>2, <1>3, <1>4, <1>6, <1>9 DEF CurrentNotAsleep
  <2>2. where[i] = "asleep"
    BY <1>1, <1>6, <1>9, <2>1 DEF CurrentNotAsleep
  <2>3. ~(currentTask > i)
    BY <1>1, <1>2, <1>3, TaskAssumption DEF Task
  <2>4. currentTask = 0 => OCF1A
    BY <1>4
  <2>5. QED BY <2>2, <2>3, <2>4 DEF TurnToCome
<1>13. RunHasSlept'
  <2> SUFFICES ASSUME NEW i \in Task, where'[i] = "run"
               PROVE  slept[i] >= Period
    BY DEF Switch, RunHasSlept
  <2>1. CASE where[i] = "run"
    BY <2>1 DEF RunHasSlept
  <2>2. CASE where[i] # "run"
    <3>1. i = currentTask' /\ i # currentTask /\ where[i] = "asleep"
      BY <1>1, <1>2, <1>5, <1>6, <2>2 
    <3>2. ~(currentTask > i)
      BY <1>1, <1>2, <1>3, <3>1, <2>2, TaskAssumption DEF Task, ZeroRuns
    <3>3. currentTask = 0 => OCF1A
      BY <1>4
    <3>4. QED BY <3>1, <3>2, <3>3 DEF TurnToCome
  <2>3. QED BY <2>1, <2>2
<1>14. QED BY <1>7, <1>8, <1>9, <1>11, <1>12, <1>13

LEMMA NextIInv == IInv /\ [Next]_vars => IInv'
<1> SUFFICES ASSUME IInv, [Next]_vars PROVE IInv'
  OBVIOUS
<1>1. CASE Count
  BY <1>1, CountIInv
<1>2. CASE TimerInterrupt
  <2>1. where[currentTask] \in {"run", "call"}
    BY DEF IInv, TypeOK, CurrentNotAsleep, Place
  <2>2. QED BY <1>2, <2>1, SwitchIInv DEF TimerInterrupt
<1>3. ASSUME NEW i \in Waiters, Wait(i) PROVE IInv'
  BY <1>3, WaitIInv
<1>4. CASE CallHandler
  <2>1. OCF1A' = FALSE
    BY <1>4 DEF CallHandler, IInv, TypeOK
  <2>2. QED BY <1>4, <2>1, SwitchIInv DEF CallHandler
<1>5. CASE UNCHANGED vars
  BY <1>5 DEF vars, IInv, TypeOK, ZeroRuns, CurrentNotAsleep, CounterBehind,
              TurnToCome, RunHasSlept
<1>6. QED BY <1>1, <1>2, <1>3, <1>4, <1>5 DEF Next

(* The inductive invariant holds. *)
LEMMA IInvInvariant == Spec => []IInv
BY InitIInv, NextIInv, PTL DEF Spec

(* The counters stay in range, and the time left is a uint16_t. *)
THEOREM TypeCorrect == Spec => []TypeOK
<1>1. IInv => TypeOK
  BY DEF IInv
<1>2. QED BY <1>1, IInvInvariant, PTL

(* wait lasts a period of the timer at least, for every number of tasks    *)
(* and whichever of them wait, as long as task 0 does not: scheduler's     *)
(* immediate charge of 20 ms never cuts it short.                          *)
THEOREM WaitLasts == Spec => []SleptEnough
<1>1. IInv => SleptEnough
  BY WaitersAssumption DEF IInv, RunHasSlept, SleptEnough
<1>2. QED BY <1>1, IInvInvariant, PTL

-----------------------------------------------------------------------------
(* The time left.  The counter is read at 0, or at 1 when a step of the    *)
(* timer fell into wait: a sleeper is charged all of its time or nothing.  *)
CounterAtCall ==
  /\ OCF1A => TCNT1 = 0
  /\ where[currentTask] = "call" => TCNT1 \in {0, 1}

AllOrNothing ==
  \A i \in Task : /\ data[i] \in {0, Delay}
                  /\ state[i] = SLEEP => data[i] = Delay

LEMMA ChargeOfOneStep == (200 \div OCR1A) \div 10 = 0
<1>1. \A n \in Nat : n > 20 => 200 \div n < 10 /\ 200 \div n \in Nat
  OBVIOUS
<1>2. \A q \in Nat : q < 10 => q \div 10 = 0
  OBVIOUS
<1>3. QED BY <1>1, <1>2, TimerAssumption

(* scheduler, with the counter at 0 or 1. *)
LEMMA ChargesAll ==
  ASSUME TypeOK, AllOrNothing, scheduler, TCNT1 \in {0, 1}
  PROVE  AllOrNothing'
<1> SUFFICES ASSUME NEW i \in Task
             PROVE  /\ data'[i] \in {0, Delay}
                    /\ state'[i] = SLEEP => data'[i] = Delay
  BY DEF AllOrNothing
<1>1. /\ data'[i] = IF i \in Sleepers THEN (data[i] - difftime_ms(i)) % 65536 ELSE data[i]
      /\ state'[i] = IF i \in Sleepers /\ data'[i] = 0 THEN AWAKE ELSE state[i]
  BY DEF scheduler
<1>2. CASE i \notin Sleepers
  BY <1>1, <1>2 DEF AllOrNothing, Sleepers
<1>3. CASE i \in Sleepers
  <2>1. data[i] = 20
    BY <1>3 DEF Sleepers, AllOrNothing, Delay
  <2>2. difftime_ms(i) \in {0, 20}
    BY ChargeOfOneStep DEF difftime_ms
  <2>3. (20 - 0) % 65536 = 20 /\ (20 - 20) % 65536 = 0
    OBVIOUS
  <2>4. data'[i] \in {0, 20}
    BY <1>1, <1>3, <2>1, <2>2, <2>3
  <2>5. QED BY <1>1, <1>3, <2>4 DEF Delay, SLEEP, AWAKE
<1>4. QED BY <1>2, <1>3

LEMMA TimeLeftStep ==
  ASSUME IInv, CounterAtCall, AllOrNothing, [Next]_vars
  PROVE  CounterAtCall' /\ AllOrNothing'
<1>1. TypeOK /\ TCNT1 \in Nat /\ OCR1A \in Nat /\ OCR1A > 20
  BY TimerAssumption DEF IInv, TypeOK
<1>2. CASE Count
  <2>1. OCF1A' => TCNT1' = 0
    BY <1>2 DEF Count
  <2>2. where'[currentTask'] = "call" => TCNT1' \in {0, 1}
    BY <1>1, <1>2 DEF Count
  <2>3. QED BY <1>2, <2>1, <2>2 DEF Count, CounterAtCall, AllOrNothing
<1>3. CASE TimerInterrupt
  <2>1. TCNT1 = 0 /\ scheduler /\ OCF1A' = FALSE
    BY <1>3 DEF TimerInterrupt, Switch, CounterAtCall
  <2>2. TCNT1' = 0
    BY <2>1 DEF scheduler
  <2>3. QED BY <1>1, <2>1, <2>2, ChargesAll DEF CounterAtCall
<1>4. ASSUME NEW w \in Waiters, Wait(w)
      PROVE  CounterAtCall' /\ AllOrNothing'
  BY <1>1, <1>4, WaitersAssumption DEF Wait, CounterAtCall, AllOrNothing, TypeOK
<1>5. CASE CallHandler
  <2>1. TCNT1 \in {0, 1} /\ scheduler /\ ~OCF1A /\ UNCHANGED OCF1A
    BY <1>5 DEF CallHandler, Switch, CounterAtCall
  <2>2. TCNT1' \in {0, 1}
    BY <2>1 DEF scheduler
  <2>3. QED BY <1>1, <2>1, <2>2, ChargesAll DEF CounterAtCall
<1>6. CASE UNCHANGED vars
  BY <1>6 DEF vars, CounterAtCall, AllOrNothing
<1>7. QED BY <1>2, <1>3, <1>4, <1>5, <1>6 DEF Next

(* The time left never wraps below zero, for every number of tasks and     *)
(* every period: at the end of a period the counter stands at 0, charged   *)
(* as 20 ms, and within wait at 1 at most, charged as nothing, so that a   *)
(* sleeper pays all of its 20 ms at once.                                  *)
THEOREM NeverWraps == Spec => []TimeLeftNeverWraps
<1>1. Init => CounterAtCall /\ AllOrNothing
  BY DEF Init, CounterAtCall, AllOrNothing, SLEEP, AWAKE
<1>2. AllOrNothing => TimeLeftNeverWraps
  BY DEF AllOrNothing, TimeLeftNeverWraps, Delay
<1>3. QED BY <1>1, <1>2, IInvInvariant, TimeLeftStep, PTL DEF Spec

-----------------------------------------------------------------------------
(* How long a wait may last.  A sleeper is awake again when the turn comes *)
(* to it (SleepersBehind), so that no turn is passed over (NextTurn), and  *)
(* a turn lasts a period at most (Elapsed); a task is in wait for two      *)
(* rounds at most, the first when it is switched out before it calls the   *)
(* handler.                                                                *)
SleepersBehind ==
  \A i \in Task : state[i] = SLEEP => currentTask >= i \/ currentTask = 0

(* Turns since that of task i, and the steps of the present one.           *)
Since(i) == IF currentTask > i THEN currentTask - i
                               ELSE currentTask - i + NB_TASK
Elapsed  == IF OCF1A THEN Period
            ELSE IF where[currentTask] = "call" THEN OCR1A + TCNT1 ELSE TCNT1
Turns(n) == n * Period

RoundsSlept ==
  \A i \in Task :
    /\ where[i] = "call" /\ currentTask = i =>
         /\ slept[i] <= Turns(NB_TASK - 1) + TCNT1
         /\ OCF1A => slept[i] = 0
    /\ where[i] = "call" /\ currentTask # i =>
         slept[i] <= Turns(Since(i) - 1) + Elapsed
    /\ where[i] = "asleep" =>
         slept[i] <= Turns(NB_TASK - 1) + 1 + Turns(Since(i) - 1) + Elapsed

Rounds == SleepersBehind /\ RoundsSlept

LEMMA TurnsAdd ==
  /\ Period \in Nat /\ Period > 21 /\ Turns(0) = 0
  /\ \A n \in Nat : Turns(n) \in Nat /\ Turns(n + 1) = Turns(n) + Period
  /\ \A m, n \in Nat : m <= n => Turns(m) <= Turns(n)
<1>1. Period \in Nat /\ Period > 21
  BY TimerAssumption DEF Period
<1>2. \A n, p \in Nat : n * p \in Nat /\ (n + 1) * p = n * p + p
  OBVIOUS
<1>3. \A m, n, p \in Nat : m <= n => m * p <= n * p
  <2> SUFFICES ASSUME NEW m \in Nat, NEW n \in Nat, NEW p \in Nat, m <= n
               PROVE  m * p <= n * p
    OBVIOUS
  <2>1. n - m \in Nat /\ n = m + (n - m)
    OBVIOUS
  <2>2. n * p = m * p + (n - m) * p
    BY <2>1
  <2>3. (n - m) * p \in Nat /\ m * p \in Nat
    BY <2>1
  <2>4. QED BY <2>2, <2>3
<1>4. QED BY <1>1, <1>2, <1>3 DEF Turns

LEMMA TurnsOf ==
  /\ Turns(NB_TASK - 1) \in Nat /\ Turns(NB_TASK - 2) \in Nat
  /\ \A k \in 1..NB_TASK : Turns(k - 1) \in Nat
<1>1. NB_TASK - 1 \in Nat /\ NB_TASK - 2 \in Nat
  BY TaskAssumption
<1>2. ASSUME NEW k \in 1..NB_TASK PROVE Turns(k - 1) \in Nat
  <2>1. k - 1 \in Nat
    BY <1>2, TaskAssumption
  <2>2. QED BY <2>1, TurnsAdd
<1>3. QED BY <1>1, <1>2, TurnsAdd

(* The round robin goes one task on.  Task 0 is left only at the end of a  *)
(* period, which charges every sleeper all of its time.                    *)
LEMMA NextTurn ==
  ASSUME IInv, CounterAtCall, AllOrNothing, SleepersBehind, scheduler,
         TCNT1 = 0 \/ currentTask # 0
  PROVE  /\ currentTask' = after(1)
         /\ SleepersBehind'
<1> USE DEF IInv
<1>1. /\ currentTask \in Task /\ currentTask \in Int /\ currentTask < NB_TASK /\ currentTask >= 0
      /\ \A i \in Task : state[i] \in {SLEEP, AWAKE} /\ (state[i] # SLEEP => state'[i] # SLEEP)
  BY TaskAssumption DEF TypeOK, Task, scheduler, Sleepers, SLEEP, AWAKE
<1>2. TCNT1 = 0 => \A i \in Task : state'[i] # SLEEP
  <2> SUFFICES ASSUME TCNT1 = 0, NEW i \in Task, state[i] = SLEEP
               PROVE  state'[i] # SLEEP
    BY <1>1
  <2>1. data[i] = 20 /\ difftime_ms(i) = 20 /\ i \in Sleepers
    BY DEF AllOrNothing, Delay, difftime_ms, Sleepers
  <2>2. (20 - 20) % 65536 = 0
    OBVIOUS
  <2>3. data'[i] = 0
    BY <2>1, <2>2 DEF scheduler
  <2>4. QED BY <2>1, <2>3 DEF scheduler, SLEEP, AWAKE
<1>3. after(1) \in Task /\ after(1) = IF currentTask = NB_TASK - 1 THEN 0 ELSE currentTask + 1
  BY <1>1, TaskAssumption DEF after, Task
<1>4. state'[after(1)] # SLEEP
  <2>1. CASE TCNT1 = 0
    BY <1>2, <1>3, <2>1
  <2>2. CASE currentTask # 0
    <3>1. after(1) # 0 => state[after(1)] # SLEEP
      BY <1>1, <1>3, <2>2, TaskAssumption DEF SleepersBehind
    <3>2. state[0] # SLEEP
      BY DEF ZeroRuns, SLEEP, AWAKE
    <3>3. QED BY <1>1, <1>3, <3>1, <3>2
  <2>3. QED BY <2>1, <2>2
<1>5. currentTask' = after(1)
  <2>1. PICK n \in 1..NB_TASK : (\A m \in 1..(n - 1) : state'[after(m)] = SLEEP) /\ currentTask' = after(n)
    BY DEF scheduler, PickNext
  <2>2. n = 1
    BY <1>4, <2>1, TaskAssumption
  <2>3. QED BY <2>1, <2>2
<1>6. SleepersBehind'
  <2>1. CASE TCNT1 = 0
    BY <1>2, <2>1 DEF SleepersBehind
  <2>2. CASE currentTask # 0
    <3> SUFFICES ASSUME NEW i \in Task, state'[i] = SLEEP
                 PROVE  currentTask' >= i \/ currentTask' = 0
      BY DEF SleepersBehind
    <3>1. state[i] = SLEEP
      BY <1>1
    <3>2. currentTask >= i /\ i \in Int
      BY <2>2, <3>1, TaskAssumption DEF SleepersBehind, Task
    <3>3. QED BY <1>1, <1>3, <1>5, <3>2
  <2>3. QED BY <2>1, <2>2
<1>7. QED BY <1>5, <1>6

(* When the turn goes on, a turn more has passed for every other task.     *)
LEMMA SinceNext ==
  ASSUME TypeOK, currentTask' = after(1), NEW i \in Task
  PROVE  /\ Since(i) \in 1..NB_TASK
         /\ currentTask = i => Since(i)' = 1 /\ currentTask' # i
         /\ currentTask # i => IF currentTask' = i THEN Since(i) = NB_TASK - 1
                                                   ELSE Since(i)' = Since(i) + 1
BY TaskAssumption DEF TypeOK, Task, Since, after

LEMMA ElapsedType == IInv /\ CounterAtCall => Elapsed \in 0..Period
<1> SUFFICES ASSUME IInv, CounterAtCall PROVE Elapsed \in 0..Period
  OBVIOUS
<1>1. TCNT1 \in 0..OCR1A /\ OCR1A \in Nat
  BY TimerAssumption DEF IInv, TypeOK
<1>2. QED BY <1>1 DEF Elapsed, Period, CounterAtCall

(* A step of the timer is one of the present turn.                         *)
LEMMA CountRounds ==
  ASSUME IInv, CounterAtCall, Rounds, Count
  PROVE  Rounds'
<1> USE DEF IInv, Rounds
<1>1. /\ currentTask \in Task /\ TCNT1 \in 0..OCR1A /\ OCR1A \in Nat /\ OCR1A > 20
      /\ UNCHANGED <<currentTask, state, where>> /\ ~OCF1A
  BY TimerAssumption DEF TypeOK, Count
<1>2. Elapsed \in Nat /\ Elapsed' = Elapsed + 1
  <2>1. CASE TCNT1 = OCR1A
    <3>1. where[currentTask] # "call" /\ OCF1A'
      <4>1. OCR1A # 0
        BY <1>1
      <4>2. where[currentTask] = "call" => TCNT1 = 0
        BY DEF Count
      <4>3. OCF1A'
        BY <2>1, Zenon DEF Count
      <4>4. QED BY <2>1, <4>1, <4>2, <4>3
    <3>2. Elapsed = OCR1A /\ Elapsed' = OCR1A + 1
      BY <1>1, <2>1, <3>1 DEF Elapsed, Period
    <3>3. QED BY <1>1, <3>2
  <2>2. CASE TCNT1 # OCR1A
    <3>1. ~OCF1A' /\ TCNT1' = TCNT1 + 1
      BY <2>2 DEF Count
    <3>2. CASE where[currentTask] = "call"
      <4>1. Elapsed = OCR1A + TCNT1 /\ Elapsed' = OCR1A + (TCNT1 + 1)
        BY <1>1, <3>1, <3>2 DEF Elapsed
      <4>2. QED BY <1>1, <4>1
    <3>3. CASE where[currentTask] # "call"
      <4>1. Elapsed = TCNT1 /\ Elapsed' = TCNT1 + 1
        BY <1>1, <3>1, <3>3 DEF Elapsed
      <4>2. QED BY <1>1, <4>1
    <3>4. QED BY <3>2, <3>3
  <2>3. QED BY <2>1, <2>2
<1>3. ASSUME NEW i \in Task, where[i] # "run"
      PROVE  slept[i] \in Nat /\ slept'[i] \in Nat /\ slept'[i] <= slept[i] + 1
  BY <1>3, MaxSleptBeyondPeriod DEF Count, TypeOK
<1>4. RoundsSlept'
  <2> SUFFICES ASSUME NEW i \in Task
        PROVE  /\ where[i] = "call" /\ currentTask = i =>
                    slept'[i] <= Turns(NB_TASK - 1) + TCNT1' /\ ~OCF1A'
               /\ where[i] = "call" /\ currentTask # i =>
                    slept'[i] <= Turns(Since(i) - 1) + Elapsed'
               /\ where[i] = "asleep" =>
                    slept'[i] <= Turns(NB_TASK - 1) + 1 + Turns(Since(i) - 1) + Elapsed'
    BY <1>1 DEF RoundsSlept, Since
  <2>1. Since(i) \in 1..NB_TASK
    BY <1>1, TaskAssumption DEF Since, Task
  <2>2. Turns(NB_TASK - 1) \in Nat /\ Turns(Since(i) - 1) \in Nat
    BY <2>1, TurnsOf
  <2>3. CASE where[i] = "call" /\ currentTask = i
    <3>1. TCNT1 = 0 /\ TCNT1 # OCR1A
      BY <1>1, <2>3 DEF Count
    <3>2. TCNT1' = 0 + 1
      BY <3>1 DEF Count
    <3>3. ~OCF1A'
      BY <3>1, Zenon DEF Count
    <3>4. slept[i] <= Turns(NB_TASK - 1) + TCNT1
      BY <2>3 DEF RoundsSlept
    <3>5. QED BY <1>3, <2>2, <2>3, <3>1, <3>2, <3>3, <3>4
  <2>4. CASE where[i] = "call" /\ currentTask # i
    <3>1. slept[i] <= Turns(Since(i) - 1) + Elapsed
      BY <2>4 DEF RoundsSlept
    <3>2. QED BY <1>2, <1>3, <2>2, <2>4, <3>1
  <2>5. CASE where[i] = "asleep"
    <3>1. slept[i] <= Turns(NB_TASK - 1) + 1 + Turns(Since(i) - 1) + Elapsed
      BY <2>5 DEF RoundsSlept
    <3>2. QED BY <1>2, <1>3, <2>2, <2>5, <3>1
  <2>6. QED BY <2>3, <2>4, <2>5
<1>5. QED BY <1>1, <1>4 DEF SleepersBehind

(* wait clears the counter, but not what has passed of the turn.           *)
LEMMA WaitRounds ==
  ASSUME IInv, CounterAtCall, Rounds, NEW w \in Waiters, Wait(w)
  PROVE  Rounds'
<1> USE DEF IInv, Rounds
<1>1. /\ w \in Task /\ currentTask = w /\ currentTask' = w /\ w \in Int
      /\ TCNT1 \in 0..OCR1A /\ OCR1A \in Nat /\ TCNT1' = 0
      /\ slept' = [slept EXCEPT ![w] = 0] /\ where' = [where EXCEPT ![w] = "call"]
  BY WaitersAssumption, TaskAssumption, TimerAssumption DEF TypeOK, Wait, Task
<1>2. Elapsed \in Nat /\ Elapsed' \in Nat /\ Elapsed <= Elapsed'
  BY <1>1 DEF Elapsed, Wait, Period, TypeOK
<1>3. SleepersBehind'
  BY <1>1 DEF Wait, SleepersBehind, TypeOK, SLEEP, AWAKE
<1>4. RoundsSlept'
  <2> SUFFICES ASSUME NEW i \in Task
        PROVE  /\ where'[i] = "call" /\ w = i => slept'[i] = 0 /\ 0 <= Turns(NB_TASK - 1)
               /\ where'[i] = "call" /\ w # i =>
                    slept'[i] <= Turns(Since(i) - 1) + Elapsed'
               /\ where'[i] = "asleep" =>
                    slept'[i] <= Turns(NB_TASK - 1) + 1 + Turns(Since(i) - 1) + Elapsed'
    <3>1. Turns(NB_TASK - 1) \in Nat
      BY TurnsOf
    <3>2. QED BY <1>1, <3>1 DEF RoundsSlept, Since
  <2>1. Since(i) \in 1..NB_TASK
    BY <1>1, TaskAssumption DEF Since, Task, TypeOK
  <2>2. Turns(NB_TASK - 1) \in Nat /\ Turns(Since(i) - 1) \in Nat
    BY <2>1, TurnsOf
  <2>3. CASE i = w
    BY <1>1, <2>2, <2>3 DEF TypeOK
  <2>4. CASE i # w
    <3>1. slept'[i] = slept[i] /\ where'[i] = where[i] /\ slept[i] \in Nat
      BY <1>1, <2>4, MaxSleptBeyondPeriod DEF TypeOK
    <3>2. /\ where[i] = "call" => slept[i] <= Turns(Since(i) - 1) + Elapsed
          /\ where[i] = "asleep" => slept[i] <= Turns(NB_TASK - 1) + 1 + Turns(Since(i) - 1) + Elapsed
      BY <1>1, <2>4 DEF RoundsSlept
    <3>3. QED BY <1>2, <2>2, <2>4, <3>1, <3>2
  <2>5. QED BY <2>3, <2>4
<1>5. QED BY <1>3, <1>4

(* The turn goes on. *)
LEMMA SwitchRounds ==
  ASSUME IInv, CounterAtCall, AllOrNothing, Rounds,
         NEW place \in {"run", "call", "asleep"}, Switch(place),
         OCF1A' = FALSE,
         place = "asleep" => where[currentTask] = "call" /\ ~OCF1A,
         place # "asleep" => where[currentTask] = place /\ OCF1A
  PROVE  Rounds'
<1> USE DEF IInv, Rounds
<1>1. /\ currentTask \in Task /\ TCNT1 \in 0..OCR1A /\ OCR1A \in Nat
      /\ TCNT1' \in 0..OCR1A /\ currentTask' \in Task
  BY SchedulerType, TimerAssumption DEF TypeOK, Switch
<1>2. TCNT1 = 0 \/ currentTask # 0
  BY DEF ZeroRuns, CounterAtCall
<1>3. currentTask' = after(1) /\ SleepersBehind'
  BY <1>2, NextTurn DEF Switch
<1>4. currentTask' # currentTask
  BY <1>1, <1>3, SinceNext
<1>5. /\ where'[currentTask] = place
      /\ where'[currentTask'] = "run" \/ where'[currentTask'] = where[currentTask']
      /\ where'[currentTask'] # "asleep"
      /\ \A i \in Task \ {currentTask, currentTask'} : where'[i] = where[i]
  BY <1>1, <1>4 DEF Switch, TypeOK
<1>6. Elapsed \in 0..Period /\ Elapsed' \in Nat /\ Period \in Nat
  <2>1. Elapsed \in 0..Period /\ Period \in Nat
    BY ElapsedType, TurnsAdd
  <2>2. Elapsed' = IF where'[currentTask'] = "call" THEN OCR1A + TCNT1' ELSE TCNT1'
    BY DEF Elapsed
  <2>3. TCNT1' \in Nat /\ OCR1A + TCNT1' \in Nat
    <3>1. \A n \in Nat : \A t \in 0..n : t \in Nat /\ n + t \in Nat
      OBVIOUS
    <3>2. QED BY <1>1, <3>1
  <2>4. QED BY <2>1, <2>2, <2>3
<1>7. Turns(NB_TASK - 1) \in Nat /\ Turns(NB_TASK - 1) = Turns(NB_TASK - 2) + Period /\ Turns(0) = 0
  <2>1. NB_TASK - 2 \in Nat /\ (NB_TASK - 2) + 1 = NB_TASK - 1
    BY TaskAssumption
  <2>2. QED BY <2>1, TurnsAdd
<1>8. RoundsSlept'
  <2> SUFFICES ASSUME NEW i \in Task
        PROVE  /\ where'[i] = "call" /\ currentTask' = i =>
                    slept[i] <= Turns(NB_TASK - 1) + TCNT1'
               /\ where'[i] = "call" /\ currentTask' # i =>
                    slept[i] <= Turns(Since(i)' - 1) + Elapsed'
               /\ where'[i] = "asleep" =>
                    slept[i] <= Turns(NB_TASK - 1) + 1 + Turns(Since(i)' - 1) + Elapsed'
    BY DEF RoundsSlept, Switch
  <2>1. slept[i] \in Nat
    BY MaxSleptBeyondPeriod DEF TypeOK
  <2>2. CASE i = currentTask
    <3>1. Since(i)' = 1
      BY <1>3, <2>2, SinceNext
    <3>2. Turns(Since(i)' - 1) = 0
      BY <1>7, <3>1
    <3>3. CASE place = "asleep"
      <4>1. slept[i] <= Turns(NB_TASK - 1) + TCNT1 /\ TCNT1 <= 1
        BY <2>2, <3>3 DEF RoundsSlept, CounterAtCall
      <4>2. QED BY <1>1, <1>4, <1>5, <1>6, <1>7, <2>1, <2>2, <3>2, <3>3, <4>1
    <3>4. CASE place = "call"
      <4>1. slept[i] = 0
        BY <2>2, <3>4 DEF RoundsSlept
      <4>2. QED BY <1>4, <1>5, <1>6, <2>2, <3>2, <3>4, <4>1
    <3>5. CASE place = "run"
      BY <1>5, <2>2, <3>5
    <3>6. QED BY <3>3, <3>4, <3>5
  <2>3. CASE i = currentTask'
    <3>1. Since(i) = NB_TASK - 1 /\ i # currentTask
      BY <1>3, <1>4, <2>3, SinceNext
    <3>2. where'[i] = "call" => slept[i] <= Turns(NB_TASK - 2) + Elapsed
      BY <1>5, <2>3, <3>1, TaskAssumption DEF RoundsSlept
    <3>3. Turns(NB_TASK - 2) \in Nat
      BY TurnsOf
    <3>4. QED BY <1>1, <1>5, <1>6, <1>7, <2>1, <2>3, <3>2, <3>3
  <2>4. CASE i # currentTask /\ i # currentTask'
    <3>1. Since(i) \in 1..NB_TASK /\ Since(i)' = Since(i) + 1 /\ where'[i] = where[i]
      BY <1>3, <1>5, <2>4, SinceNext
    <3>2. Since(i) - 1 \in Nat /\ (Since(i) - 1) + 1 = Since(i) /\ Since(i)' - 1 = Since(i)
      BY <3>1, TaskAssumption
    <3>3. Turns(Since(i) - 1) \in Nat /\ Turns(Since(i)' - 1) = Turns(Since(i) - 1) + Period
      BY <3>2, TurnsAdd
    <3>4. /\ where[i] = "call" => slept[i] <= Turns(Since(i) - 1) + Elapsed
          /\ where[i] = "asleep" => slept[i] <= Turns(NB_TASK - 1) + 1 + Turns(Since(i) - 1) + Elapsed
      BY <2>4 DEF RoundsSlept
    <3>5. QED BY <1>6, <1>7, <2>1, <2>4, <3>1, <3>3, <3>4
  <2>5. QED BY <2>2, <2>3, <2>4
<1>9. QED BY <1>3, <1>8

(* What is left of two rounds. *)
LEMMA RoundsEnd == IInv /\ CounterAtCall /\ Rounds => SleptNotTooLong
<1> SUFFICES ASSUME IInv, CounterAtCall, Rounds, NEW i \in Waiters, where[i] # "run"
             PROVE  slept[i] < MaxSlept
  BY DEF SleptNotTooLong
<1>1. i \in Task /\ currentTask \in Task /\ where[i] \in {"call", "asleep"} /\ slept[i] \in Nat
  BY WaitersAssumption, MaxSleptBeyondPeriod DEF IInv, TypeOK, Place
<1>2. Elapsed \in 0..Period /\ TCNT1 \in 0..OCR1A /\ OCR1A \in Nat /\ Period = OCR1A + 1
  BY ElapsedType, TimerAssumption DEF IInv, TypeOK, Period
<1>3. NB_TASK - 1 \in Nat /\ NB_TASK \in Nat /\ (NB_TASK - 1) + 1 = NB_TASK
  BY TaskAssumption
<1>4. Turns(NB_TASK) = Turns(NB_TASK - 1) + Period /\ Turns(NB_TASK - 1) \in Nat /\ Period > 21
  BY <1>3, TurnsAdd
<1>5. MaxSlept = Turns(NB_TASK) + Turns(NB_TASK)
  <2>1. \A n, p \in Nat : 2 * n * p = n * p + n * p
    OBVIOUS
  <2>2. QED BY <1>3, <2>1, TurnsAdd DEF MaxSlept, Turns
<1>6. CASE where[i] = "call" /\ currentTask = i
  <2>1. slept[i] <= Turns(NB_TASK - 1) + TCNT1
    BY <1>1, <1>6 DEF Rounds, RoundsSlept
  <2>2. QED BY <1>1, <1>2, <1>4, <1>5, <2>1
<1>7. CASE currentTask # i
  <2>1. Since(i) - 1 \in Nat /\ Since(i) <= NB_TASK - 1
    BY <1>1, <1>7, TaskAssumption DEF Since, Task
  <2>2. Since(i) - 1 <= NB_TASK - 2 /\ NB_TASK - 2 \in Nat /\ (NB_TASK - 2) + 1 = NB_TASK - 1
    BY <1>1, <2>1, TaskAssumption DEF Since, Task
  <2>3. /\ Turns(Since(i) - 1) <= Turns(NB_TASK - 2) /\ Turns(Since(i) - 1) \in Nat
        /\ Turns(NB_TASK - 1) = Turns(NB_TASK - 2) + Period /\ Turns(NB_TASK - 2) \in Nat
    BY <2>1, <2>2, TurnsAdd
  <2>4. slept[i] <= Turns(NB_TASK - 1) + 1 + Turns(Since(i) - 1) + Elapsed
    <3>1. CASE where[i] = "asleep"
      BY <1>1, <3>1 DEF Rounds, RoundsSlept
    <3>2. CASE where[i] = "call"
      <4>1. slept[i] <= Turns(Since(i) - 1) + Elapsed
        BY <1>1, <1>7, <3>2 DEF Rounds, RoundsSlept
      <4>2. QED BY <1>1, <1>2, <1>4, <2>3, <4>1
    <3>3. QED BY <1>1, <3>1, <3>2
  <2>5. QED BY <1>1, <1>2, <1>4, <1>5, <2>3, <2>4
<1>8. CASE where[i] = "asleep" /\ currentTask = i
  BY <1>8 DEF IInv, CurrentNotAsleep
<1>9. QED BY <1>1, <1>6, <1>7, <1>8

(* wait ends before two rounds are over, for every number of tasks, any    *)
(* set of them asleep at once, and every period: scheduler may charge the  *)
(* first sleeper nothing, but it is awake when the turn comes.             *)
THEOREM WaitEnds == Spec => []SleptNotTooLong
<1>1. Init => Rounds
  BY DEF Init, Rounds, SleepersBehind, RoundsSlept, SLEEP, AWAKE
<1>2. IInv /\ CounterAtCall /\ AllOrNothing /\ Rounds /\ [Next]_vars => Rounds'
  <2> SUFFICES ASSUME IInv, CounterAtCall, AllOrNothing, Rounds, [Next]_vars PROVE Rounds'
    OBVIOUS
  <2>1. CASE Count
    BY <2>1, CountRounds
  <2>2. CASE TimerInterrupt
    <3>1. where[currentTask] \in {"run", "call"}
      BY DEF IInv, TypeOK, CurrentNotAsleep, Place
    <3>2. QED BY <2>2, <3>1, SwitchRounds DEF TimerInterrupt
  <2>3. ASSUME NEW w \in Waiters, Wait(w) PROVE Rounds'
    BY <2>3, WaitRounds
  <2>4. CASE CallHandler
    <3>1. OCF1A' = FALSE
      BY <2>4 DEF CallHandler, IInv, TypeOK
    <3>2. QED BY <2>4, <3>1, SwitchRounds DEF CallHandler
  <2>5. CASE UNCHANGED vars
    BY <2>5 DEF vars, Rounds, SleepersBehind, RoundsSlept, Since, Elapsed
  <2>6. QED BY <2>1, <2>2, <2>3, <2>4, <2>5 DEF Next
<1>3. Init => CounterAtCall /\ AllOrNothing
  BY DEF Init, CounterAtCall, AllOrNothing, SLEEP, AWAKE
<1>4. QED BY <1>1, <1>2, <1>3, IInvInvariant, TimeLeftStep, RoundsEnd, PTL DEF Spec
=============================================================================
