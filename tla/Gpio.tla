-------------------------------- MODULE Gpio --------------------------------
(* Two pins of one GPIO bank: a Flex pin, which the main program changes   *)
(* access by access, and a pin of an interrupt handler, which runs as a    *)
(* whole between two of these.  Both read, change and write registers of   *)
(* the bank and of the SLCR; only levels have a masked register.           *)
(* (firmware/zynq7000-hal/src/gpio/mod.rs, gpio/ll.rs, slcr.rs)            *)
EXTENDS Naturals, Sequences

CONSTANTS
  Kinds,        \* what the Flex pin is: "mio", "emio", or "mio7", a pin without an input
  HandlerModes  \* how the handler uses its pin: "OutputPushPull", "OutputOpenDrain" or "Periph"

VARIABLES
  kind, handler_mode,  \* of this behaviour
  bank,      \* direction and output enable of both pins
  data_out,  \* their output data
  mio,       \* their multiplexers: tristate, pull-up and what they are connected to
  slcr_locked,
  mode,      \* Flex::mode
  steps,     \* register accesses left of the call to the Flex pin
  copy,      \* what it has read
  call,      \* the call: "configure" or "set"
  level,     \* level asked of each pin last
  overtaken  \* history: the pins with a change that the interrupt came into

gpioVars == <<kind, handler_mode, bank, data_out, mio, slcr_locked, mode, steps, copy, call, level,
              overtaken>>
unchangedRegs == UNCHANGED <<bank, data_out, mio, slcr_locked>>

Pin == {"flex", "handler"}
Level == {"Low", "High"}
MioConfig == [tri : BOOLEAN, pullup : BOOLEAN, mux : {"Gpio", "Periph"}]
Any == BOOLEAN  \* settings of the pull-up that will do when none is asked for

-----------------------------------------------------------------------------
(* The accesses of LowLevelGpio.                                           *)
Read(r) == [do |-> "read", reg |-> r]
Write(r, bit) == [do |-> "write", reg |-> r, bit |-> bit]
Set(r, bit) == <<Read(r), Write(r, bit)>>
State(l) == [do |-> "state", level |-> l]
reconfigure_slcr_mio_cfg(tristate, pullup) ==
  IF kind = "emio" THEN <<>> ELSE <<[do |-> "compare", tri |-> tristate, pullup |-> pullup]>>
write_state(p, l) == [data_out EXCEPT ![p] = l]

configure_as_output_push_pull(init_level) ==
  reconfigure_slcr_mio_cfg(FALSE, Any)
    \o Set("dirm", TRUE) \o Set("out_en", TRUE) \o <<State(init_level)>>

configure_as_output_open_drain(init_level, pullup) ==
  reconfigure_slcr_mio_cfg(FALSE, {pullup}) \o Set("dirm", TRUE)
    \o (IF init_level = "High" THEN Set("out_en", FALSE)
        ELSE <<Read("out_en"), State("Low"), Write("out_en", TRUE)>>)

configure_as_input(pullup) ==
  reconfigure_slcr_mio_cfg(TRUE, {pullup}) \o Set("dirm", FALSE) \o Set("out_en", FALSE)

set_low_driving_first(m) ==
  (IF m = "OutputOpenDrain" THEN Set("out_en", TRUE) ELSE <<>>) \o <<State("Low")>>
set_low(m) == <<State("Low")>> \o (IF m = "OutputOpenDrain" THEN Set("out_en", TRUE) ELSE <<>>)
set_high(m) == IF m = "OutputOpenDrain" THEN Set("out_en", FALSE) ELSE <<State("High")>>

-----------------------------------------------------------------------------
(* A pin drives its level when all of this holds; an EMIO pin has no       *)
(* multiplexer.                                                            *)
connected(p) == \/ p = "flex" /\ kind = "emio"
                \/ mio[p].mux = "Gpio" /\ ~ mio[p].tri
driven(p) == bank.dirm[p] /\ bank.out_en[p] /\ connected(p)

GpioIdle ==
  /\ kind \in Kinds /\ handler_mode \in HandlerModes
  /\ bank = [r \in {"dirm", "out_en"} |-> [p \in Pin |-> p = "handler"]]
  /\ data_out = [p \in Pin |-> "Low"] /\ level = [p \in Pin |-> "Low"]
  /\ mio \in [Pin -> MioConfig]
  /\ mio["handler"] = [tri |-> FALSE, pullup |-> FALSE, mux |-> "Gpio"]
  /\ slcr_locked = TRUE /\ copy = [p \in Pin |-> FALSE] /\ overtaken = {}

(* new_for_mio and new_for_emio: the mode they record is InputFloating.    *)
GpioInit ==
  /\ GpioIdle
  /\ mode = "InputFloating" /\ call = "configure"
  /\ steps = IF kind = "mio7" THEN configure_as_output_push_pull("Low") ELSE configure_as_input(FALSE)

-----------------------------------------------------------------------------
(* Calls to the Flex pin; mode is recorded before the registers change,    *)
(* also when the pin turns out to have no input.                           *)
begin(c, plan, l) ==
  /\ call' = c /\ steps' = plan
  /\ level' = [level EXCEPT !["flex"] = l]
  /\ unchangedRegs /\ UNCHANGED <<kind, handler_mode, copy>>

configure_output ==
  /\ steps = <<>> /\ overtaken' = overtaken \ {"flex"}
  /\ \E l \in Level :
       \/ /\ mode' = "OutputPushPull"
          /\ begin("configure", configure_as_output_push_pull(l), l)
       \/ /\ mode' = "OutputOpenDrain"
          /\ \E pullup \in BOOLEAN : begin("configure", configure_as_output_open_drain(l, pullup), l)

configure_input ==
  /\ steps = <<>> /\ overtaken' = overtaken \ {"flex"}
  /\ \E pullup \in BOOLEAN :
       /\ mode' = IF pullup THEN "InputPullUp" ELSE "InputFloating"
       /\ begin("configure", IF kind = "mio7" THEN <<>> ELSE configure_as_input(pullup), level["flex"])

is_input == mode \in {"InputFloating", "InputPullUp"}
set ==
  /\ steps = <<>>
  /\ \E l \in Level :
       begin("set", CASE is_input -> <<>>
                      [] ~ is_input /\ l = "High" -> set_high(mode)
                      [] OTHER -> set_low(mode), l)
  /\ UNCHANGED <<mode, overtaken>>

-----------------------------------------------------------------------------
(* The accesses of a call.                                                 *)
access(do) == /\ steps # <<>> /\ Head(steps).do = do
              /\ UNCHANGED <<kind, handler_mode, mode, call, level, overtaken>>

read_register ==
  /\ access("read")
  /\ copy' = bank[Head(steps).reg] /\ steps' = Tail(steps)
  /\ unchangedRegs

write_register ==
  /\ access("write")
  /\ bank' = [bank EXCEPT ![Head(steps).reg] = [copy EXCEPT !["flex"] = Head(steps).bit]]
  /\ steps' = Tail(steps)
  /\ UNCHANGED <<data_out, mio, slcr_locked, copy>>

write_level ==
  /\ access("state")
  /\ data_out' = write_state("flex", Head(steps).level)
  /\ steps' = Tail(steps)
  /\ UNCHANGED <<bank, mio, slcr_locked, copy>>

(* reconfigure_slcr_mio_cfg reads the configuration, and leaves it if it   *)
(* is as asked for; modify() unlocks the SLCR, changes it and locks it.    *)
wanted(s) == [tri |-> s.tri, mux |-> "Gpio",
              pullup |-> IF mio["flex"].pullup \in s.pullup THEN mio["flex"].pullup
                         ELSE ~ mio["flex"].pullup]
compare_mio ==
  /\ access("compare")
  /\ steps' = (IF mio["flex"] = wanted(Head(steps)) THEN <<>>
               ELSE <<[do |-> "unlock"], [Head(steps) EXCEPT !.do = "modify"], [do |-> "lock"]>>)
              \o Tail(steps)
  /\ unchangedRegs /\ UNCHANGED copy

modify_mio ==
  /\ access("modify")
  /\ mio' = IF slcr_locked THEN mio ELSE [mio EXCEPT !["flex"] = wanted(Head(steps))]
  /\ steps' = Tail(steps)
  /\ UNCHANGED <<bank, data_out, slcr_locked, copy>>

lock_unlock ==
  /\ access("unlock") \/ access("lock")
  /\ slcr_locked' = (Head(steps).do = "lock")
  /\ steps' = Tail(steps)
  /\ UNCHANGED <<bank, data_out, mio, copy>>

Access == read_register \/ write_register \/ write_level \/ compare_mio \/ modify_mio \/ lock_unlock

-----------------------------------------------------------------------------
(* The handler sets the level of its pin, or, in "Periph", connects it     *)
(* with IoPeriphPin::new, which leaves the SLCR locked if it changes it.   *)
handler_levels(l) ==
  IF handler_mode = "OutputPushPull" \/ l = "Low" THEN write_state("handler", l) ELSE data_out
handler_sets(l) ==
  /\ handler_mode # "Periph"
  /\ data_out' = handler_levels(l)
  /\ bank' = IF handler_mode = "OutputPushPull" THEN bank
             ELSE [bank EXCEPT !.out_en["handler"] = l = "Low"]
  /\ UNCHANGED <<mio, slcr_locked>>

handler_connects(m) ==
  /\ handler_mode = "Periph"
  /\ mio' = [mio EXCEPT !["handler"].mux = m, !["handler"].tri = FALSE]
  /\ slcr_locked' = (slcr_locked \/ mio' # mio)
  /\ UNCHANGED <<bank, data_out>>

(* The interrupt comes between the read of the output enables and their    *)
(* write, or between the unlocking of the SLCR and the change of it.       *)
inside_out_en ==
  \E i \in DOMAIN steps : /\ steps[i].do = "write" /\ steps[i].reg = "out_en"
                          /\ \A j \in 1 .. i - 1 : steps[j].do # "read"
inside_slcr == steps # <<>> /\ Head(steps).do = "modify"
overtakes ==
  {p \in Pin : IF p = "handler" THEN handler_mode = "OutputOpenDrain" /\ inside_out_en
               ELSE handler_mode = "Periph" /\ slcr_locked' /\ inside_slcr}

interrupt ==
  /\ \E l \in Level :
       /\ level' = [level EXCEPT !["handler"] = l]
       /\ handler_sets(l) \/ \E m \in {"Gpio", "Periph"} : handler_connects(m)
  /\ overtaken' = (overtaken \ {"handler"}) \cup overtakes
  /\ UNCHANGED <<kind, handler_mode, mode, steps, copy, call>>

GpioNext == configure_output \/ configure_input \/ set \/ Access \/ interrupt
GpioSpec == GpioInit /\ [][GpioNext]_gpioVars

-----------------------------------------------------------------------------
(* What a pin in mode m shows when it was asked for level l.               *)
shows(p, m, l) ==
  CASE m = "OutputPushPull" -> driven(p) /\ data_out[p] = l
    [] m = "OutputOpenDrain" -> IF l = "Low" THEN driven(p) /\ data_out[p] = "Low" ELSE ~ driven(p)
    [] OTHER -> ~ driven(p)

(* Between calls the Flex pin shows what it was asked for in its mode, and *)
(* an open-drain pin never drives a high level, not even while it is set;  *)
(* the handler's pin shows what the handler asked for at every moment.     *)
(* This goes on until an interrupt comes into a change of the same         *)
(* register, which loses the update of one of the two or finds the SLCR    *)
(* locked; and MIO 7, which is no input, is not what a construction that   *)
(* leaves it recorded as one says.                                         *)
PinsAsAsked ==
  /\ steps = <<>> /\ "flex" \notin overtaken /\ ~ (kind = "mio7" /\ is_input) =>
       shows("flex", mode, level["flex"])
  /\ mode = "OutputOpenDrain" /\ call = "set" /\ driven("flex") => data_out["flex"] = "Low"
  /\ handler_mode # "Periph" /\ "handler" \notin overtaken =>
       shows("handler", handler_mode, level["handler"])
=============================================================================
