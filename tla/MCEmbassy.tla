----------------------------- MODULE MCEmbassy -----------------------------
(* What the tasks of an Embassy executor wait for: a transfer of the       *)
(* asynchronous SPI driver or a time.  One of both drivers runs in a       *)
(* behaviour while the other stays as it is initially.                     *)
EXTENDS SpiAsync

CONSTANTS Waker, WIDTH, SCALE, MaxAt, TimeModes

VARIABLES
  subject,   \* what runs: "spi" or "time"
  time_mode, count, initialised, queue, pc, reading, upper, lower, next, comparator, comparing,
  event_flag, irq_enabled

Time == INSTANCE TimeDriver WITH Modes <- TimeModes, mode <- time_mode

ASSUME MCEmbassyAssumption == Time!TimeAssumption

timeVars == <<time_mode, count, initialised, queue, pc, reading, upper, lower, next, comparator,
              comparing, event_flag, irq_enabled>>
mcVars == <<subject, vars, timeVars>>

SpiDoes(A) == subject = "spi" /\ A /\ UNCHANGED <<subject, timeVars>>
TimeDoes(A) == subject = "time" /\ A /\ UNCHANGED <<subject, vars>>

MCInit ==
  /\ subject \in {"spi", "time"}
  /\ Init /\ Time!Init
  /\ subject # "spi" => mode = CHOOSE m \in Modes : TRUE
  /\ subject # "time" => time_mode = CHOOSE m \in TimeModes : TRUE

MCNext == SpiDoes(Next) \/ TimeDoes(Time!Next)

(* The fairness of both drivers.  Only one runs, so one condition can      *)
(* stand for one of each.                                                  *)
MCSpec ==
  /\ MCInit /\ [][MCNext]_mcVars
  /\ WF_mcVars(SpiDoes(Task) \/ TimeDoes(Time!Driver))
  /\ WF_mcVars(SpiDoes(Handler) \/ TimeDoes(Time!match))
  /\ WF_mcVars(SpiDoes(spi_word))
  /\ SF_mcVars(TimeDoes(Time!on_interrupt)) /\ SF_mcVars(TimeDoes(Time!tick))

-----------------------------------------------------------------------------
(* Ways of using the SPI driver.                                           *)
DriverModes ==
  {[max_len |-> 5, prompt |-> TRUE, equal |-> TRUE],
   [max_len |-> 4, prompt |-> TRUE, equal |-> FALSE],
   [max_len |-> 2, prompt |-> FALSE, equal |-> TRUE],
   [max_len |-> 4, prompt |-> FALSE, equal |-> TRUE]}

(* Circumstances of the time driver.  AlarmsRing needs luck and no early   *)
(* caller; NeverEarly meets an unlucky reader, with an early caller and    *)
(* without.                                                                *)
AnyTimeMode == {m \in [lucky : BOOLEAN, early : BOOLEAN, rearms : BOOLEAN] :
  IF m.lucky THEN ~ m.early ELSE m.early # m.rearms}

-----------------------------------------------------------------------------
(* What the time driver states.                                            *)

(* No task is woken before its time.                                       *)
NeverEarly == Time!NeverEarly
(* While a task waits its alarm is set, and it is woken.                   *)
AlarmsRing == subject = "time" => Time!AlarmsRing
=============================================================================
