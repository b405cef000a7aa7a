----------------------------- MODULE TimeDriver -----------------------------
(***************************************************************************)
(* The embassy time driver (zynq7000-embassy/src/lib.rs) on the global     *)
(* timer counter (zynq7000-hal/src/gtc.rs): tasks schedule a wake-up, the  *)
(* driver programs the comparator for the earliest, and the interrupt      *)
(* wakes what has expired and programs the next.                           *)
(*                                                                         *)
(* schedule_wake and the interrupt run in critical sections of one core,   *)
(* so only one of them is under way; the counter counts on between any two *)
(* of their steps, the two halves of it being read one after the other.    *)
(* AlarmState::timestamp is written and never read: it is left out.        *)
(***************************************************************************)
EXTENDS Integers, FiniteSetsExt

CONSTANTS
  Waker,     \* the tasks that wait
  WIDTH,     \* values of the lower half of the counter
  SCALE,     \* counts per tick of the driver
  MaxAt,     \* bound on the times scheduled
  Modes      \* circumstances: lucky, that the lower half does not wrap while the counter is
             \* read; early, that a wake-up may be scheduled before init; rearms, that
             \* programming the comparator withdraws an event of its old value (the event
             \* flag is sticky and nothing clears it)

Never == MaxAt + 1  \* u64::MAX
MaxCount == (MaxAt + 3) * SCALE

TimeAssumption ==
  /\ WIDTH \in Nat \ {0} /\ SCALE \in Nat \ {0} /\ MaxAt \in Nat
  /\ Modes \subseteq [lucky : BOOLEAN, early : BOOLEAN, rearms : BOOLEAN]

VARIABLES
  mode,         \* the member of Modes for this behaviour
  count,        \* the counter
  initialised,  \* init was called
  queue,        \* the time each task waits for, Never if it does not
  pc,           \* where the driver is, "idle" outside
  reading,      \* how far read_timer is
  upper, lower, \* the halves it has read
  next,         \* the argument of set_alarm
  comparator,   \* the comparator, or the value about to be written to it
  comparing,    \* the comparator is enabled
  event_flag,
  irq_enabled

timer == <<comparator, comparing, event_flag, irq_enabled>>
vars == <<mode, count, initialised, queue, pc, reading, upper, lower, next,
          comparator, comparing, event_flag, irq_enabled>>

earliest(q) == Min({q[w] : w \in Waker} \cup {Never})

Init ==
  /\ mode \in Modes
  /\ count = 0 /\ initialised = FALSE
  /\ queue = [w \in Waker |-> Never]
  /\ pc = "idle" /\ reading = "start" /\ upper = 0 /\ lower = 0 /\ next = Never
  /\ comparator = 0 /\ comparing = FALSE /\ event_flag = FALSE /\ irq_enabled = FALSE

-----------------------------------------------------------------------------
(* read_timer: upper, lower, and upper again until it is what it was.      *)

read_upper ==
  /\ pc \in {"expire", "alarm"} /\ initialised /\ reading = "start"
  /\ upper' = count \div WIDTH
  /\ reading' = "upper"
  /\ UNCHANGED <<mode, count, initialised, queue, pc, lower, next, timer>>

read_lower ==
  /\ reading = "upper"
  /\ lower' = count % WIDTH
  /\ reading' = "lower"
  /\ UNCHANGED <<mode, count, initialised, queue, pc, upper, next, timer>>

same_upper == count \div WIDTH = upper

(* The loop reads lower again, and keeps the first value of upper.         *)
read_again ==
  /\ reading = "lower" /\ ~ same_upper
  /\ reading' = "upper"
  /\ UNCHANGED <<mode, count, initialised, queue, pc, upper, lower, next, timer>>

(* now() can return, and what it returns; before init that is 0.           *)
now_known == initialised => reading = "lower" /\ same_upper
now_rounded_up == IF initialised THEN (upper * WIDTH + lower + SCALE - 1) \div SCALE ELSE 0
now == IF initialised THEN (upper * WIDTH + lower) \div SCALE ELSE 0

-----------------------------------------------------------------------------
(* Queue::next_expiration wakes what has expired and returns the earliest  *)
(* time of the rest.                                                       *)
next_expiration ==
  /\ pc = "expire" /\ now_known
  /\ queue' = [w \in Waker |-> IF queue[w] <= now THEN Never ELSE queue[w]]
  /\ next' = earliest(queue')
  /\ pc' = "alarm" /\ reading' = "start"
  /\ UNCHANGED <<mode, count, initialised, upper, lower, timer>>

(* set_alarm returns false, and its caller starts again.                   *)
alarm_too_late ==
  /\ pc = "alarm" /\ now_known /\ (~ initialised \/ next <= now)
  /\ irq_enabled' = (irq_enabled /\ ~ initialised)
  /\ pc' = "expire" /\ reading' = "start"
  /\ UNCHANGED <<mode, count, initialised, queue, upper, lower, next,
                 comparator, comparing, event_flag>>

(* The largest timestamp overflows when it is scaled: nothing is changed.  *)
alarm_overflows ==
  /\ pc = "alarm" /\ now_known /\ initialised /\ next = Never
  /\ pc' = "idle" /\ reading' = "start"
  /\ UNCHANGED <<mode, count, initialised, queue, upper, lower, next, timer>>

safe_timestamp == Max({next, now + 3})

alarm_ahead ==
  /\ pc = "alarm" /\ now_known /\ initialised /\ now < next /\ next < Never
  /\ comparing' = FALSE
  /\ comparator' = safe_timestamp * SCALE
  /\ event_flag' = (event_flag /\ ~ mode.rearms)
  /\ pc' = "program" /\ reading' = "start"
  /\ UNCHANGED <<mode, count, initialised, queue, upper, lower, next, irq_enabled>>

interrupt_left_off == irq_enabled' = irq_enabled
enable_interrupt == irq_enabled' = TRUE

set_comparator ==
  /\ pc = "program"
  /\ comparing' = TRUE
  /\ enable_interrupt
  /\ pc' = "idle"
  /\ UNCHANGED <<mode, count, initialised, queue, reading, upper, lower, next,
                 comparator, event_flag>>

-----------------------------------------------------------------------------
init ==
  /\ pc = "idle" /\ ~ initialised /\ initialised' = TRUE
  /\ UNCHANGED <<mode, count, queue, pc, reading, upper, lower, next, timer>>

(* A task that waits already is moved only to an earlier time.             *)
schedule_wake(w, at) ==
  /\ pc = "idle" /\ (initialised \/ mode.early) /\ at < queue[w]
  /\ queue' = [queue EXCEPT ![w] = at]
  /\ pc' = "expire"
  /\ UNCHANGED <<mode, count, initialised, reading, upper, lower, next, timer>>

on_interrupt ==
  /\ pc = "idle" /\ event_flag /\ irq_enabled
  /\ irq_enabled' = FALSE
  /\ pc' = "expire"
  /\ UNCHANGED <<mode, count, initialised, queue, reading, upper, lower, next,
                 comparator, comparing, event_flag>>

(* The counter runs from init on.  The bound stops it at MaxCount.         *)
tick ==
  /\ initialised /\ count < MaxCount
  /\ mode.lucky /\ reading # "start" => (count + 1) % WIDTH # 0
  /\ count' = count + 1
  /\ UNCHANGED <<mode, initialised, queue, pc, reading, upper, lower, next, timer>>

match ==
  /\ comparing /\ count >= comparator /\ ~ event_flag
  /\ event_flag' = TRUE
  /\ UNCHANGED <<mode, count, initialised, queue, pc, reading, upper, lower, next,
                 comparator, comparing, irq_enabled>>

read_timer == read_upper \/ read_lower \/ read_again
set_alarm == alarm_too_late \/ alarm_overflows \/ alarm_ahead \/ set_comparator
Driver == read_timer \/ next_expiration \/ set_alarm \/ on_interrupt

Next ==
  \/ init \/ (\E w \in Waker, at \in 0 .. MaxAt : schedule_wake(w, at))
  \/ Driver \/ tick \/ match

(* A critical section runs on; a pending interrupt is taken when one ends, *)
(* whatever tasks do; the counter counts, also when luck holds it back     *)
(* during every reading.                                                   *)
Spec == /\ Init /\ [][Next]_vars
        /\ WF_vars(Driver) /\ SF_vars(on_interrupt) /\ SF_vars(tick) /\ WF_vars(match)

-----------------------------------------------------------------------------
(* No task is woken before its time.                                       *)
NeverEarly ==
  [][\A w \in Waker : queue[w] < Never /\ queue'[w] = Never => count >= queue[w] * SCALE]_vars

(* While anything waits, the interrupt is enabled and the comparator set   *)
(* to the earliest time, or at most two ticks behind it: "an alarm can be  *)
(* delayed for up to 2 ticks ... but not before" (set_alarm).              *)
AlarmCovers ==
  pc = "idle" /\ initialised /\ ~ mode.early /\ earliest(queue) < Never
    => /\ irq_enabled /\ comparing
       /\ comparator >= earliest(queue) * SCALE
       /\ comparator <= (earliest(queue) + 2) * SCALE

(* Every wake-up scheduled comes, as long as the counter is read without a *)
(* wrap of its lower half and nothing is scheduled before init.            *)
EveryoneWoken ==
  mode.lucky /\ ~ mode.early => \A w \in Waker : queue[w] < Never ~> queue[w] = Never

(* Both: while a task waits its alarm is set, and it is woken.             *)
AlarmsRing == []AlarmCovers /\ EveryoneWoken

(* read_timer ends, also when the lower half wraps while it runs:          *)
(* "Overflow, read upper again." (gtc.rs)                                  *)
ReadEnds == reading = "upper" ~> reading = "start"
=============================================================================
