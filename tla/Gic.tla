--------------------------------- MODULE Gic ---------------------------------
(***************************************************************************)
(* The interrupt controller (gic.rs): CPU 0 configures it in any order of  *)
(* calls, as the documentation of GicConfigurator allows, and serves its   *)
(* interrupts with acknowledge_interrupt and end_of_interrupt.  A line is  *)
(* a level, held until its handler clears the device, or a pulse, which    *)
(* only an edge-sensitive input remembers.                                 *)
(***************************************************************************)
EXTENDS Integers

CONSTANTS
  Lines,      \* interrupts that devices raise: private or shared ones
  Pulses,     \* those of them that are pulses
  PlIds,      \* programmable-logic interrupts whose sensitivity is set
  MaxCalls,   \* bound on the calls after the initialization
  MaxRaised   \* bound on the events of each line

GicAssumption == Lines \subseteq Nat

VARIABLES
  initialized, calls,
  icfr,       \* sensitivity of each shared interrupt: 1 is level, 3 is edge
  iptr,       \* CPUs each shared interrupt is sent to
  iser,       \* enabled interrupts
  pmr,        \* priority mask
  dcr,        \* the distributor and the interface forward interrupts
  irq,        \* CPU 0 takes interrupts
  high, latched, active,   \* level lines that are high; pulses remembered; being served
  handler,    \* how far irq_handler is
  info,       \* what it acknowledged
  raised,     \* events of each line so far
  owed,       \* lines with an event that no handler has seen
  asked,      \* last sensitivity asked for, by programmable-logic interrupt
  meant       \* shared interrupts last asked to go to CPU 0

config == <<icfr, iptr, iser, pmr, dcr, irq>>
request == <<initialized, calls, asked, meant>>
service == <<high, latched, active, handler, info, raised, owed>>
gicVars == <<config, request, service>>

SPURIOUS_INTERRUPT_ID == 1023
Level == 1
Edge == 3
Shared == 32 .. 95
SpiInterrupt == 32 .. 92
PpiInterrupt == 27 .. 31

(* The identifier of a programmable-logic interrupt.                       *)
Pl(id) == IF id < 8 THEN 61 + id ELSE 76 + id

-----------------------------------------------------------------------------
(* What the four ICFR_n_FIXED_VALUE constants say of each interrupt.       *)
FixedEdges == {32, 33, 41, 55, 78, 92}
Reserved == {36, 93, 94, 95}
FIXED_VALUE == [i \in Shared |-> IF i \in FixedEdges THEN Edge
                                 ELSE IF i \in Reserved THEN 0 ELSE Level]

(* Mutant: the priority mask keeps its reset value.                        *)
initialize_unmasked == icfr' = FIXED_VALUE /\ pmr' = pmr

initialize == icfr' = FIXED_VALUE /\ pmr' = 255

GicInit ==
  /\ initialized = FALSE /\ calls = 0 /\ asked = <<>> /\ meant = {}
  /\ icfr = [i \in Shared |-> Level] /\ iptr = [i \in Shared |-> {}] /\ iser = {}
  /\ pmr = 0 /\ dcr = FALSE /\ irq = FALSE
  /\ high = {} /\ latched = {} /\ active = {} /\ handler = "none"
  /\ info = SPURIOUS_INTERRUPT_ID /\ raised = [i \in Lines |-> 0] /\ owed = {}

new_with_init ==
  /\ ~ initialized /\ initialized' = TRUE
  /\ initialize
  /\ UNCHANGED <<calls, asked, meant, iptr, iser, dcr, irq, service>>

(* A call after the initialization, from the main program.                 *)
call == initialized /\ handler = "none" /\ calls < MaxCalls /\ calls' = calls + 1

(* The two bits at a position of a configuration register, the first of    *)
(* whose interrupts is first.  A shift by 32 or more wraps, as it does     *)
(* without overflow checks.                                                *)
field(first, pos) == first + (pos % 32) \div 2
PlField(id) ==
  CASE id \in 0 .. 2  -> field(48, 26 + id * 2)
    [] id \in 3 .. 7  -> field(64, id * 2)
    [] id \in 8 .. 15 -> field(80, 8 + id * 2)

set_pl_interrupt_sensitivity(id, sensitivity) ==
  /\ call
  /\ icfr' = [icfr EXCEPT ![PlField(id)] = sensitivity]
  /\ asked' = [p \in DOMAIN asked \cup {id} |-> IF p = id THEN sensitivity ELSE asked[p]]
  /\ UNCHANGED <<initialized, meant, iptr, iser, pmr, dcr, irq, service>>

set_spi_interrupt_cpu_target_flags(i, target) ==
  /\ call
  /\ iptr' = [iptr EXCEPT ![i] = target]
  /\ meant' = IF 0 \in target THEN meant \cup {i} ELSE meant \ {i}
  /\ UNCHANGED <<initialized, asked, icfr, iser, pmr, dcr, irq, service>>

set_spi_interrupt_target_for_cpu(i, cpu) ==
  /\ call
  /\ iptr' = [iptr EXCEPT ![i] = @ \cup {cpu}]
  /\ meant' = IF cpu = 0 THEN meant \cup {i} ELSE meant
  /\ UNCHANGED <<initialized, asked, icfr, iser, pmr, dcr, irq, service>>

set_all_spi_interrupt_targets_cpu0 ==
  /\ call
  /\ iptr' = [i \in Shared |-> iptr[i] \cup {0}]
  /\ meant' = Shared
  /\ UNCHANGED <<initialized, asked, icfr, iser, pmr, dcr, irq, service>>

Enable(S) ==
  /\ call
  /\ iser' = iser \cup S
  /\ UNCHANGED <<initialized, asked, meant, icfr, iptr, pmr, dcr, irq, service>>

enable_spi_interrupt == \E i \in Lines \cap SpiInterrupt : Enable({i})
enable_ppi_interrupt == \E i \in Lines \cap PpiInterrupt : Enable({i})
enable_all_interrupts == Enable(0 .. 15 \cup PpiInterrupt \cup Shared)

enable ==
  /\ call
  /\ dcr' = TRUE
  /\ UNCHANGED <<initialized, asked, meant, icfr, iptr, iser, pmr, irq, service>>

enable_interrupts ==
  /\ call
  /\ irq' = TRUE
  /\ UNCHANGED <<initialized, asked, meant, icfr, iptr, iser, pmr, dcr, service>>

Configure ==
  \/ new_with_init
  \/ \E id \in PlIds : \E s \in {Level, Edge} : set_pl_interrupt_sensitivity(id, s)
  \/ \E i \in Lines \cap Shared :
        \/ \E target \in SUBSET {0, 1} : set_spi_interrupt_cpu_target_flags(i, target)
        \/ \E cpu \in {0, 1} : set_spi_interrupt_target_for_cpu(i, cpu)
  \/ set_all_spi_interrupt_targets_cpu0
  \/ enable_spi_interrupt \/ enable_ppi_interrupt \/ enable_all_interrupts
  \/ enable \/ enable_interrupts

-----------------------------------------------------------------------------
(* The distributor and the interface.  All interrupts have priority 0, so  *)
(* none is signalled while one is being served; the lowest goes first.     *)
Pending == {i \in (high \cup latched) \cap iser : i \in Shared => 0 \in iptr[i]}
Signalled ==
  IF dcr /\ pmr > 0 /\ active = {} THEN {i \in Pending : \A j \in Pending : i <= j} ELSE {}

(* An event that is to be remembered: a pulse only if its input is meant   *)
(* to be edge-sensitive.                                                   *)
Remembered(i) == i \in Pulses => \E id \in DOMAIN asked : Pl(id) = i /\ asked[id] = Edge

raise(i) ==
  /\ initialized /\ raised[i] < MaxRaised
  /\ raised' = [raised EXCEPT ![i] = @ + 1]
  /\ owed' = IF Remembered(i) THEN owed \cup {i} ELSE owed
  /\ IF i \in Pulses
     THEN latched' = latched \cup (IF icfr[i] = Edge THEN {i} ELSE {}) /\ UNCHANGED high
     ELSE high' = high \cup {i} /\ UNCHANGED latched
  /\ UNCHANGED <<config, request, active, handler, info>>

(* A driver that polls its device clears the line, at the latest when the  *)
(* interrupt has just been taken.                                          *)
clear_by_polling(i) ==
  /\ i \in high /\ handler \in {"none", "entered"}
  /\ high' = high \ {i} /\ owed' = owed \ {i}
  /\ UNCHANGED <<config, request, latched, active, handler, info, raised>>

-----------------------------------------------------------------------------
(* The interrupt handler.                                                  *)
take_irq ==
  /\ irq /\ handler = "none" /\ Signalled # {}
  /\ handler' = "entered"
  /\ UNCHANGED <<config, request, high, latched, active, info, raised, owed>>

acknowledge_interrupt ==
  /\ handler = "entered" /\ handler' = "acknowledged"
  /\ IF Signalled = {}
     THEN info' = SPURIOUS_INTERRUPT_ID /\ UNCHANGED <<latched, active>>
     ELSE \E i \in Signalled :
             /\ info' = i /\ active' = active \cup {i} /\ latched' = latched \ {i}
  /\ UNCHANGED <<config, request, high, raised, owed>>

(* The device's own handler, for an interrupt that has one.                *)
serve ==
  /\ handler = "acknowledged" /\ handler' = "served"
  /\ high' = high \ {info} /\ owed' = owed \ {info}
  /\ UNCHANGED <<config, request, latched, active, info, raised>>

end_of_interrupt ==
  /\ handler = "served" /\ handler' = "none"
  /\ active' = active \ {info}
  /\ UNCHANGED <<config, request, high, latched, info, raised, owed>>

Handler == take_irq \/ acknowledge_interrupt \/ serve \/ end_of_interrupt

GicNext ==
  \/ Configure \/ Handler
  \/ \E i \in Lines : raise(i) \/ clear_by_polling(i)

GicSpec == GicInit /\ [][GicNext]_gicVars /\ WF_gicVars(Handler)

-----------------------------------------------------------------------------
(* What the caller has asked for is that CPU 0 serves this line.           *)
Wanted(i) == dcr /\ irq /\ i \in iser /\ (i \in Shared => i \in meant)

(* Every event of a line that CPU 0 is to serve reaches a handler, in      *)
(* whatever order the controller was configured and with devices that      *)
(* withdraw their interrupt.                                               *)
Served ==
  \A i \in Lines : (i \in owed /\ Wanted(i)) ~> (i \notin owed \/ ~ Wanted(i))

(* gic.rs:405-409: the call sets the sensitivity of a programmable-logic   *)
(* interrupt, and "these are the only interrupt IDs which are              *)
(* configurable".                                                          *)
SensitivityAsAsked ==
  initialized =>
    /\ \A id \in DOMAIN asked : icfr[Pl(id)] = asked[id]
    /\ \A i \in Shared \ {Pl(id) : id \in DOMAIN asked} : icfr[i] = FIXED_VALUE[i]
=============================================================================
