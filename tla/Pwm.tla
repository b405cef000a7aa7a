-------------------------------- MODULE Pwm --------------------------------
(* A PWM output made by a channel of a triple timer counter: the driver    *)
(* changes period and duty cycle register by register while the counter    *)
(* may run on.                                                             *)
(* (firmware/zynq7000-hal/src/ttc.rs)                                      *)
EXTENDS Naturals

CONSTANTS
  Intervals,  \* ticks of a period at the frequencies asked for
  Percents,   \* asked for through SetDutyCycle
  MaxCalls

PwmAssumption ==
  /\ \A ticks \in Intervals : ticks \in Nat \ {0} /\ ticks <= 65535
  /\ Percents \subseteq 0 .. 100 /\ MaxCalls \in Nat

VARIABLES
  cnt_ctrl,  \* "disabled" (also before the first set-up) or "enabled"
  interval, match_0,
  counter, high,   \* of the current period: ticks, and those with a high output
  pwm_call,  \* what runs: <<step, interval, duty>>
  wanted,    \* period and duty cycle of the last call that returned
  pwm_calls,
  periods    \* whole periods since the last change: length and high ticks

pwmVars == <<cnt_ctrl, interval, match_0, counter, high, pwm_call, wanted, pwm_calls, periods>>

idle == <<"idle", 0, 0>>
step(from) == pwm_call[1] = from
goto(to) == pwm_call' = [pwm_call EXCEPT ![1] = to]
registers == <<interval, match_0>>

-----------------------------------------------------------------------------
(* new_generic and set_frequency start alike; a duty cycle is computed     *)
(* from the interval that max_duty_cycle reads.                            *)
Begin(call) == pwm_call = idle /\ pwm_call' = call /\ pwm_calls' = pwm_calls + 1
set_frequency ==
  \E ticks \in Intervals : pwm_calls < MaxCalls /\ Begin(<<"set_up", ticks, 0>>)
set_duty_cycle_percent ==
  \E percent \in Percents :
    /\ pwm_calls \in 1 .. MaxCalls - 1
    /\ Begin(<<"set_duty", interval, (percent * interval) \div 100>>)

set_up_match_kept(old) == old
set_up_match(old) == 0

(* set_up_and_configure_pwm and set_duty_cycle                             *)
set_up_and_configure_pwm ==
  \/ /\ step("set_up") /\ goto("interval")
     /\ cnt_ctrl' = "disabled" /\ UNCHANGED <<registers, counter, high, wanted>>
  \/ /\ step("interval") /\ goto("match")
     /\ interval' = pwm_call[2] /\ UNCHANGED <<cnt_ctrl, match_0, counter, high, wanted>>
  \/ /\ step("match") /\ goto("enable")
     /\ match_0' = set_up_match(match_0) /\ UNCHANGED <<cnt_ctrl, interval, counter, high, wanted>>
set_duty_cycle ==
  \/ /\ step("set_duty") /\ goto("duty")
     /\ cnt_ctrl' = "disabled" /\ UNCHANGED <<registers, counter, high, wanted>>
  \/ /\ step("duty") /\ goto("enable")
     /\ match_0' = pwm_call[3] /\ UNCHANGED <<cnt_ctrl, interval, counter, high, wanted>>
enable ==
  /\ step("enable") /\ pwm_call' = idle
  /\ cnt_ctrl' = "enabled" /\ counter' = 0 /\ high' = 0
  /\ wanted' = <<pwm_call[2], pwm_call[3]>> /\ periods' = {} /\ UNCHANGED registers

Driver ==
  \/ (set_up_and_configure_pwm \/ set_duty_cycle) /\ UNCHANGED <<pwm_calls, periods>>
  \/ enable /\ UNCHANGED pwm_calls
  \/ (set_frequency \/ set_duty_cycle_percent)
       /\ UNCHANGED <<cnt_ctrl, registers, counter, high, wanted, periods>>

(* The output is high until the counter matches, a period ends at the      *)
(* interval.                                                               *)
tick ==
  /\ cnt_ctrl = "enabled"
  /\ LET level == IF counter < match_0 THEN 1 ELSE 0 IN
     IF counter + 1 < interval
     THEN counter' = counter + 1 /\ high' = high + level /\ UNCHANGED periods
     ELSE /\ counter' = 0 /\ high' = 0
          /\ periods' = periods \cup {<<counter + 1, high + level>>}
  /\ UNCHANGED <<cnt_ctrl, registers, pwm_call, wanted, pwm_calls>>

PwmInit ==
  /\ cnt_ctrl = "disabled" /\ interval = 0 /\ match_0 = 0 /\ counter = 0 /\ high = 0
  /\ pwm_call = idle /\ wanted = <<0, 0>> /\ pwm_calls = 0 /\ periods = {}
PwmNext == Driver \/ tick
PwmSpec == PwmInit /\ [][PwmNext]_pwmVars

-----------------------------------------------------------------------------
(* Every whole period has the length and the duty cycle of the last call   *)
(* that returned: no call, stopped at any register, lets out a period with *)
(* the length of one setting and the duty cycle of another.                *)
PeriodsAsAsked == periods \subseteq {wanted}
=============================================================================
