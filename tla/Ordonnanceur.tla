---------------------------- MODULE Ordonnanceur -----------------------------
(***************************************************************************)
(* The preemptive scheduler of the main board, ordonnanceur.c: NB_TASK     *)
(* tasks in round robin on one timer, TIMER1 in CTC mode (it counts 0,     *)
(* 1, ..., OCR1A, 0 and raises OCF1A when it comes back to 0), and wait,   *)
(* with which a task sleeps.  wait calls the interrupt handler as a plain  *)
(* function to give up the processor.                                      *)
(*                                                                         *)
(* One step of the timer is 64 us, longer than wait, the handler and       *)
(* scheduler take together: at most one step of the timer falls in them,   *)
(* and a raised OCF1A is served before the next one.                       *)
(***************************************************************************)
EXTENDS Integers

CONSTANTS
  NB_TASK,      \* number of tasks, 5 in the program
  OCR1A,        \* last value of the counter, 312 in the program
  Waiters       \* the tasks that call wait; {NB_TASK - 1} in the program

Task == 0..(NB_TASK - 1)

(* Task 0 never sleeps.  Above 20 steps a period, one step of the timer is *)
(* less than a millisecond; below 328, TCNT1 * 200 fits a uint16_t.        *)
ASSUME TaskAssumption  == NB_TASK \in Nat /\ NB_TASK >= 2
ASSUME TimerAssumption == OCR1A \in Nat /\ 20 < OCR1A /\ OCR1A < 328
ASSUME WaitersAssumption == Waiters \subseteq Task \ {0}

SLEEP == 0
AWAKE == 1
Word  == {n \in Nat : n < 65536}      \* uint16_t
Delay == 20      \* the data of every call of wait, in milliseconds

(* A task's place in wait: not in it, about to call the handler, or parked *)
(* in that call.                                                           *)
Place == {"run", "call", "asleep"}

VARIABLES
  currentTask,
  state,        \* task[i].state
  data,         \* task[i].sleep.data, a uint16_t
  where,        \* what the saved context of task i returns to
  TCNT1,        \* the counter
  OCF1A,        \* its interrupt flag
  slept         \* history: steps of the timer since task i last called wait

vars == <<currentTask, state, data, where, TCNT1, OCF1A, slept>>

Period   == OCR1A + 1
MaxSlept == 2 * NB_TASK * Period      \* where slept stops counting

TypeOK ==
  /\ currentTask \in Task
  /\ state \in [Task -> {SLEEP, AWAKE}]
  /\ data \in [Task -> Word]
  /\ where \in [Task -> Place]
  /\ TCNT1 \in 0..OCR1A
  /\ OCF1A \in BOOLEAN
  /\ slept \in [Task -> 0..MaxSlept]

(* setup: every task ready, task 0 entered by main. *)
Init ==
  /\ currentTask = 0
  /\ state = [i \in Task |-> AWAKE]
  /\ data = [i \in Task |-> 0]
  /\ where = [i \in Task |-> "run"]
  /\ TCNT1 = 0
  /\ OCF1A = FALSE
  /\ slept = [i \in Task |-> MaxSlept]

-----------------------------------------------------------------------------
Sleepers == {i \in Task : state[i] = SLEEP}

(* Mutant: no special case for a zero counter. *)
difftime_ms_NoDefault(i) ==
  IF \A j \in Sleepers : i <= j
  THEN ((TCNT1 * 200) \div OCR1A) \div 10
  ELSE 0

(* The time charged to sleeper i: the loop reads the counter for the first *)
(* sleeper and clears it, and a zero counter stands for 20 ms.             *)
difftime_ms(i) ==
  IF TCNT1 # 0 /\ \A j \in Sleepers : i <= j
  THEN ((TCNT1 * 200) \div OCR1A) \div 10
  ELSE 20

after(n) == IF currentTask + n < NB_TASK THEN currentTask + n
                                         ELSE currentTask + n - NB_TASK

(* Mutants: the search starts with the last task; with the current one. *)
PickNext_FromTheTop ==
  \E i \in Task :
    /\ state'[i] # SLEEP
    /\ \A j \in Task : j > i => state'[j] = SLEEP
    /\ currentTask' = i
PickNext_StartsAtCurrent ==
  \E n \in 0..(NB_TASK - 1) :
    /\ state'[after(n)] # SLEEP
    /\ \A m \in 0..(n - 1) : state'[after(m)] = SLEEP
    /\ currentTask' = after(n)

(* The next task that does not sleep; the search never ends when all do.   *)
PickNext ==
  \E n \in 1..NB_TASK :
    /\ state'[after(n)] # SLEEP
    /\ \A m \in 1..(n - 1) : state'[after(m)] = SLEEP
    /\ currentTask' = after(n)

(* data is unsigned: "<= 0" is "= 0".                                      *)
scheduler ==
  /\ data'  = [i \in Task |-> IF i \in Sleepers
                              THEN (data[i] - difftime_ms(i)) % 65536
                              ELSE data[i]]
  /\ state' = [i \in Task |-> IF i \in Sleepers /\ data'[i] = 0
                              THEN AWAKE ELSE state[i]]
  /\ TCNT1' = IF Sleepers = {} THEN TCNT1 ELSE 0
  /\ PickNext

(* TIMER1_COMPA_vect: save the context of the current task, which returns  *)
(* to place, and restore that of the task picked.  A task parked in wait   *)
(* leaves wait.                                                            *)
Switch(place) ==
  /\ scheduler
  /\ LET saved == [where EXCEPT ![currentTask] = place]
     IN  where' = [saved EXCEPT ![currentTask'] =
                                  IF @ = "asleep" THEN "run" ELSE @]
  /\ UNCHANGED slept

-----------------------------------------------------------------------------
(* Mutant: CTC1 not set in TCCR1B, the counter goes on past OCR1A. *)
Count_NoCTC ==
  /\ ~OCF1A
  /\ TCNT1' = TCNT1 + 1
  /\ OCF1A' = (TCNT1 = OCR1A)
  /\ slept' = [i \in Task |-> IF where[i] # "run" /\ slept[i] < MaxSlept
                              THEN slept[i] + 1 ELSE slept[i]]
  /\ UNCHANGED <<currentTask, state, data, where>>

(* One step of the timer. *)
Count ==
  /\ ~OCF1A
  /\ where[currentTask] = "call" => TCNT1 = 0
  /\ TCNT1' = IF TCNT1 = OCR1A THEN 0 ELSE TCNT1 + 1
  /\ OCF1A' = (TCNT1 = OCR1A)
  /\ slept' = [i \in Task |-> IF where[i] # "run" /\ slept[i] < MaxSlept
                              THEN slept[i] + 1 ELSE slept[i]]
  /\ UNCHANGED <<currentTask, state, data, where>>

(* The hardware takes the interrupt. *)
TimerInterrupt ==
  /\ OCF1A
  /\ OCF1A' = FALSE
  /\ Switch(where[currentTask])

(* Mutant: the counter is not cleared. *)
Wait_KeepsCounter(i) ==
  /\ currentTask = i /\ where[i] = "run" /\ ~OCF1A
  /\ state' = [state EXCEPT ![i] = SLEEP]
  /\ data'  = [data EXCEPT ![i] = Delay]
  /\ where' = [where EXCEPT ![i] = "call"]
  /\ slept' = [slept EXCEPT ![i] = 0]
  /\ UNCHANGED <<currentTask, TCNT1, OCF1A>>

(* wait, from cli to sei.  The counter may come to its end in between, and *)
(* the interrupt is then pending.                                          *)
Wait(i) ==
  /\ currentTask = i
  /\ where[i] = "run"
  /\ ~OCF1A
  /\ state' = [state EXCEPT ![i] = SLEEP]
  /\ data'  = [data EXCEPT ![i] = Delay]
  /\ TCNT1' = 0
  /\ OCF1A' \in {FALSE, TCNT1 = OCR1A}
  /\ where' = [where EXCEPT ![i] = "call"]
  /\ slept' = [slept EXCEPT ![i] = 0]
  /\ UNCHANGED currentTask

(* The rest of wait: the call of the handler.  A pending interrupt comes   *)
(* first.                                                                  *)
CallHandler ==
  /\ where[currentTask] = "call"
  /\ ~OCF1A
  /\ Switch("asleep")
  /\ UNCHANGED OCF1A

Next ==
  \/ Count
  \/ TimerInterrupt
  \/ \E i \in Waiters : Wait(i)
  \/ CallHandler

Spec == Init /\ [][Next]_vars

(* The timer runs, interrupts are served, and the processor executes.  No  *)
(* task is obliged to call wait.                                           *)
FairSpec ==
  Spec /\ WF_vars(Count) /\ WF_vars(TimerInterrupt) /\ WF_vars(CallHandler)

-----------------------------------------------------------------------------
(* wait(20) lasts a whole period of the timer at least, though scheduler   *)
(* charges 20 ms to the sleeper as soon as it lies down: what makes it     *)
(* last is that the turn must come back through task 0, which only the end *)
(* of a period takes the processor from (wait, scheduler, main).           *)
SleptEnough ==
  \A i \in Waiters : where[i] = "run" => slept[i] >= Period

(* wait(20) ends before two rounds of all the tasks are over, so a missed  *)
(* charge (the counter read as 1) costs no more than the pending interrupt *)
(* does.                                                                   *)
SleptNotTooLong ==
  \A i \in Waiters : where[i] # "run" => slept[i] < MaxSlept

(* The unsigned time left never passes below zero: it would wrap to more   *)
(* than a minute, and scheduler's test "<= 0" would not see it.            *)
TimeLeftNeverWraps == \A i \in Task : data[i] <= Delay

(* No task is left out of the round robin, whatever calls of wait do to    *)
(* the timer that drives it.                                               *)
EveryTaskRuns == \A i \in Task : []<>(currentTask = i /\ where[i] = "run")
=============================================================================
