------------------------------- MODULE BringUp -------------------------------
(***************************************************************************)
(* The first steps of the boot loader (zedboard-fsbl main): the PLLs       *)
(* (clocks/pll.rs), the CPU clocks, the clocks as read from the registers  *)
(* (clocks/mod.rs), the DDR controller (ddr/mod.rs, ddr/ll.rs), the L2     *)
(* cache and the memory test, with PLLs that lock, an impedance            *)
(* calibration that ends and a controller that initializes the memory.     *)
(***************************************************************************)
EXTENDS Integers, Sequences

CONSTANTS
  PS_CLK,      \* the clock that is multiplied
  Targets,     \* PLL frequencies to configure: functions of PllType
  DIVISOR_MAX, \* u6::MAX
  DCI_MAX_FREQ,
  Words, Bits, \* number of words tested, and of bits of a word
  Faults       \* stuck bits of the memory: none, or [word, bit, value]

BringUpAssumption ==
  PS_CLK \in Nat \ {0} /\ DIVISOR_MAX \in Nat /\ Words \in Nat \ {0} /\ Bits \in Nat \ {0, 1}

PllType == {"Arm", "Io", "Ddr"}

VARIABLES
  pinned,      \* BootPllConfig::Bypassed
  target,      \* the frequencies of this behaviour
  pll,         \* registers and state of each PLL
  pll_init,    \* ARM_PLL_INIT, IO_PLL_INIT and DDR_PLL_INIT
  step,        \* how far main is
  pll_step,    \* how far configure_pll_unchecked is
  arm_div, ddr_div,  \* clock dividers
  clocks,      \* Clocks, as read
  dci,         \* the impedance calibration
  ddrc,        \* soft reset, registers written, and whether the memory is initialized
  released,    \* what the controller was released with
  l2,          \* the L2 cache is on
  fault, tests, memory   \* the stuck bit; patterns still to test; what the words hold

pllVars == <<pll, pll_step>>
clockVars == <<arm_div, ddr_div, clocks, pll_init>>
ddrVars == <<dci, ddrc, released>>
memVars == <<fault, tests, memory, l2>>
bringUpVars == <<pinned, target, pllVars, clockVars, ddrVars, memVars, step>>

BOOT_MUL == 26   \* the multiplier of a PLL after reset

-----------------------------------------------------------------------------
(* PLL configurations: the multiplier, and the loop filter and lock count  *)
(* from the table of the reference manual.                                 *)
PLL_MUL_MIN == 13
PLL_MUL_MAX == 66
mul(p) == target[p] \div PS_CLK

lock_count(m) ==
  CASE m \in 13 .. 15 -> 750 - (m - 13) * 50   [] m = 16 -> 625
    [] m \in 17 .. 24 -> 575 - (m - 17) * 25   [] m = 25 -> 400
    [] m = 26 -> 375                           [] m \in 27 .. 28 -> 350
    [] m \in 29 .. 30 -> 325                   [] m \in 31 .. 33 -> 300
    [] m \in 34 .. 36 -> 275                   [] m \in 37 .. 66 -> 250
charge_pump(m) == IF m \in 41 .. 47 THEN 3 ELSE 2
loop_resistor(m) ==
  CASE m \in 13 .. 15 -> 6  [] m \in 16 .. 19 -> 10  [] m \in 20 .. 30 \cup 41 .. 47 -> 12
    [] m \in 31 .. 40 -> 2  [] m \in 48 .. 66 -> 4
PllConfig(m) == <<charge_pump(m), loop_resistor(m), lock_count(m)>>

(* What the PLL puts out, as a multiple of PS_CLK.                         *)
bypassed(p) == pll[p].bypass_force \/ (pll[p].bypass_qual /\ pinned)
output(p) == IF bypassed(p) THEN 1 ELSE pll[p].mul

BringUpInit ==
  /\ pinned \in BOOLEAN /\ target \in Targets /\ fault \in Faults
  /\ pll = [p \in PllType |->
       [fdiv |-> BOOT_MUL, cfg |-> PllConfig(BOOT_MUL), mul |-> BOOT_MUL, locked |-> TRUE,
        bypass_qual |-> TRUE, bypass_force |-> FALSE, reset |-> FALSE]]
  /\ pll_init = {} /\ step = "arm_pll" /\ pll_step = "idle"
  /\ arm_div = 4 /\ ddr_div = <<4, 6>> /\ clocks = <<>>
  /\ dci = [reset |-> FALSE, enable |-> FALSE, div |-> <<1, 1>>, done |-> FALSE]
  /\ ddrc = [reset |-> TRUE, written |-> {}, normal |-> FALSE] /\ released = <<>>
  /\ tests = <<>> /\ memory = <<>> /\ l2 = TRUE

-----------------------------------------------------------------------------
(* configure_pll_unchecked of the PLL that main is at.                     *)
At(s, p) == step = s /\ p = CASE s = "arm_pll" -> "Arm" [] s = "io_pll" -> "Io"
                              [] OTHER -> "Ddr"

PllStep(from, to, p, new) ==
  /\ \E s \in {"arm_pll", "io_pll", "ddr_pll"} : At(s, p)
  /\ pll_step = from /\ pll_step' = to
  /\ pll' = [pll EXCEPT ![p] = new]
  /\ UNCHANGED <<pinned, target, clockVars, ddrVars, memVars, step>>

(* A multiplier out of range is an error that main unwraps; a PLL is       *)
(* configured once only.                                                   *)
program(p) ==
  /\ mul(p) \in PLL_MUL_MIN .. PLL_MUL_MAX /\ p \notin pll_init
  /\ PllStep("idle", "bypass", p, [pll[p] EXCEPT !.fdiv = mul(p), !.cfg = PllConfig(mul(p))])

bypass(p) ==
  PllStep("bypass", "reset", p,
          [pll[p] EXCEPT !.bypass_qual = @ /\ ~ pinned, !.bypass_force = TRUE])

reset(p) ==
  PllStep("reset", "release", p,
          [pll[p] EXCEPT !.reset = TRUE, !.locked = FALSE, !.mul = pll[p].fdiv])

release(p) == PllStep("release", "wait", p, [pll[p] EXCEPT !.reset = FALSE])

(* Mutant: the wait reads the lock bit of the ARM PLL.                     *)
wait_locked_arm(p) ==
  pll["Arm"].locked /\ PllStep("wait", "unbypass", p, pll[p])

wait_locked(p) ==
  pll[p].locked /\ PllStep("wait", "unbypass", p, pll[p])

unbypass(p) == PllStep("unbypass", "done", p, [pll[p] EXCEPT !.bypass_force = FALSE])

configure_pll_unchecked ==
  \E p \in PllType :
     program(p) \/ bypass(p) \/ reset(p) \/ release(p) \/ wait_locked(p) \/ unbypass(p)

(* A PLL locks once it has left its reset, with the configuration that     *)
(* goes with the multiplier.                                               *)
lock(p) ==
  /\ ~ pll[p].locked /\ ~ pll[p].reset /\ pll[p].cfg = PllConfig(pll[p].mul)
  /\ pll' = [pll EXCEPT ![p].locked = TRUE]
  /\ UNCHANGED <<pinned, target, pll_step, clockVars, ddrVars, memVars, step>>

-----------------------------------------------------------------------------
(* main up to the DDR controller.                                          *)
Advance(from, to) == step = from /\ step' = to /\ UNCHANGED <<pinned, target>>

configured(p, from, to) ==
  /\ pll_step = "done" /\ pll_step' = "idle"
  /\ Advance(from, to)
  /\ pll_init' = pll_init \cup {p}
  /\ UNCHANGED <<pll, arm_div, ddr_div, clocks, ddrVars, memVars>>

configure_arm_pll == configured("Arm", "arm_pll", "io_pll")
configure_io_pll == configured("Io", "io_pll", "l2_disable")

l2_cache_disable ==
  /\ Advance("l2_disable", "arm_clock")
  /\ l2' = FALSE
  /\ UNCHANGED <<pllVars, clockVars, ddrVars, fault, tests, memory>>

new_with_cpu_clock_init ==
  /\ Advance("arm_clock", "read_clocks")
  /\ arm_div' = 2
  /\ UNCHANGED <<pllVars, ddr_div, clocks, pll_init, ddrVars, memVars>>

(* The clocks are computed from the registers' multipliers.                *)
new_from_regs ==
  /\ Advance("read_clocks", "ddr_pll")
  /\ clocks' = [p \in PllType |-> PS_CLK * pll[p].fdiv]
  /\ UNCHANGED <<pllVars, arm_div, ddr_div, pll_init, ddrVars, memVars>>

-----------------------------------------------------------------------------
(* configure_ddr_for_ddr3.                                                 *)
configure_ddr_pll == configured("Ddr", "ddr_pll", "ddr_clock")

new_with_2x_3x_init ==
  /\ Advance("ddr_clock", "ddr_reset")
  /\ ddr_div' = <<2, 3>>
  /\ UNCHANGED <<pllVars, arm_div, clocks, pll_init, ddrVars, memVars>>

(* The loop over both divisors ends with the first pair of the least error *)
(* among those with an error below the initial best one.                   *)
abs_diff(a, b) == IF a > b THEN a - b ELSE b - a
error(div) ==
  abs_diff(div[1] * div[2], (target["Ddr"] + DCI_MAX_FREQ - 1) \div DCI_MAX_FREQ)
best_error == 0
calculate_dci_divisors ==
  LET improving == {div \in (1 .. DIVISOR_MAX - 1) \X (1 .. DIVISOR_MAX - 1) :
                      error(div) < best_error}
      first(d, e) == d[1] < e[1] \/ (d[1] = e[1] /\ d[2] <= e[2])
  IN  IF improving = {} THEN <<DIVISOR_MAX, DIVISOR_MAX>>
      ELSE CHOOSE d \in improving : \A e \in improving :
             error(d) < error(e) \/ (error(d) = error(e) /\ first(d, e))

soft_reset ==
  /\ Advance("ddr_reset", "dci")
  /\ ddrc' = [ddrc EXCEPT !.reset = TRUE, !.normal = FALSE]
  /\ UNCHANGED <<pllVars, clockVars, dci, released, memVars>>

(* The I/O buffers, and the start of the impedance calibration, whose      *)
(* reset bit is toggled and left set.                                      *)
calibrate_iob_impedance ==
  /\ Advance("dci", "ddr_config")
  /\ dci' = [reset |-> TRUE, enable |-> TRUE, done |-> FALSE,
             div |-> calculate_dci_divisors]
  /\ UNCHANGED <<pllVars, clockVars, ddrc, released, memVars>>

(* The registers of a DdrcConfigSet, and those that configure_ddr_config   *)
(* writes.                                                                 *)
DdrcConfigSet ==
  {"ctrl", "two_rank", "queues", "dram_params", "dram_init_param", "dram_emr",
   "dram_burst8_rdwr", "disable_dq", "dram_addr_map_bank", "dram_addr_map_col",
   "dram_addr_map_row", "dram_odt", "phy_cmd_timeout_rddata_cpt", "dll_calib",
   "odt_delay_hold", "ctrl_regs", "che_t_zq", "deep_powerdown", "reg_2c_2d", "dfi_timing",
   "ecc", "phy", "reg_64_65", "page_mask", "axi_priority_ports", "lpddr_ctrl"}
written == DdrcConfigSet \ {"dram_addr_map_bank", "dram_addr_map_col", "dram_addr_map_row",
                            "dram_odt"}

configure_ddr_config ==
  /\ Advance("ddr_config", "dci_wait")
  /\ ddrc' = [ddrc EXCEPT !.written = written]
  /\ UNCHANGED <<pllVars, clockVars, dci, released, memVars>>

out_of_reset ==
  /\ dci.done
  /\ Advance("dci_wait", "ddr_wait")
  /\ ddrc' = [ddrc EXCEPT !.reset = FALSE]
  /\ released' = <<[dci |-> dci.done, written |-> ddrc.written, clock |-> output("Ddr")]>>
  /\ UNCHANGED <<pllVars, clockVars, dci, memVars>>

normal_operation ==
  /\ ddrc.normal
  /\ Advance("ddr_wait", "l2_init")
  /\ UNCHANGED <<pllVars, clockVars, ddrVars, memVars>>

calibrated ==
  /\ dci.enable /\ dci.reset /\ ~ dci.done
  /\ dci' = [dci EXCEPT !.done = TRUE]
  /\ UNCHANGED <<pinned, target, pllVars, clockVars, ddrc, released, memVars, step>>

initialized ==
  /\ ~ ddrc.reset /\ ~ ddrc.normal
  /\ ddrc' = [ddrc EXCEPT !.normal = TRUE]
  /\ UNCHANGED <<pinned, target, pllVars, clockVars, dci, released, memVars, step>>

-----------------------------------------------------------------------------
(* The L2 cache and the memory test, which the constant                    *)
(* PERFORM_DDR_MEMTEST turns on.  A pattern is the set of bits that are 1, *)
(* for each word.  The start code has turned the data cache on, and the    *)
(* memory is cached: the test writes and reads the cache, and a stuck bit  *)
(* shows only in a word that has been evicted between the two.             *)
AllBits == 0 .. Bits - 1
walking_zero_test == [i \in 1 .. Bits |-> [w \in 0 .. Words - 1 |-> AllBits \ {i - 1}]]
walking_one_test == [i \in 1 .. Bits |-> [w \in 0 .. Words - 1 |-> {i - 1}]]
checkerboard_test ==
  LET odd == {b \in AllBits : b % 2 = 1}
  IN  [i \in 1 .. 2 |-> [w \in 0 .. Words - 1 |-> IF w % 2 = i - 1 THEN odd ELSE AllBits \ odd]]

init_with_defaults ==
  /\ Advance("l2_init", "memtest")
  /\ l2' = TRUE
  /\ tests' \in {<<>>, walking_zero_test \o walking_one_test \o checkerboard_test}
  /\ UNCHANGED <<pllVars, clockVars, ddrVars, fault, memory>>

write_pass ==
  /\ step = "memtest" /\ tests # <<>> /\ memory = <<>>
  /\ memory' = Head(tests)
  /\ UNCHANGED <<pinned, target, pllVars, clockVars, ddrVars, fault, tests, l2, step>>

(* The first word that differs ends the test, which main expects not to.   *)
read_pass ==
  /\ step = "memtest" /\ memory # <<>>
  /\ memory' = <<>>
  /\ IF memory # Head(tests)
     THEN step' = "failed" /\ UNCHANGED tests
     ELSE tests' = Tail(tests) /\ UNCHANGED step
  /\ UNCHANGED <<pinned, target, pllVars, clockVars, ddrVars, fault, l2>>

tested ==
  /\ step = "memtest" /\ tests = <<>>
  /\ Advance("memtest", "boot")
  /\ UNCHANGED <<pllVars, clockVars, ddrVars, memVars>>

evict ==
  /\ memory # <<>> /\ fault # <<>>
  /\ memory' = [memory EXCEPT ![fault.word] = IF fault.value = 1 THEN @ \cup {fault.bit}
                                             ELSE @ \ {fault.bit}]
  /\ UNCHANGED <<pinned, target, pllVars, clockVars, ddrVars, fault, tests, l2, step>>

-----------------------------------------------------------------------------
Main ==
  \/ configure_pll_unchecked \/ configure_arm_pll \/ configure_io_pll \/ configure_ddr_pll
  \/ l2_cache_disable \/ new_with_cpu_clock_init \/ new_from_regs \/ new_with_2x_3x_init
  \/ soft_reset \/ calibrate_iob_impedance \/ configure_ddr_config \/ out_of_reset
  \/ normal_operation \/ init_with_defaults \/ write_pass \/ read_pass \/ tested

Hardware == calibrated \/ initialized \/ \E p \in PllType : lock(p)

BringUpNext == Main \/ Hardware \/ evict
BringUpSpec ==
  BringUpInit /\ [][BringUpNext]_bringUpVars /\ WF_bringUpVars(Main) /\ WF_bringUpVars(Hardware)

-----------------------------------------------------------------------------
(* A PLL drives its clocks only while it is locked, and when the           *)
(* controller of the memory leaves its reset its clock is the one asked    *)
(* for, the impedance calibration has ended and it is configured.          *)
ClocksStable ==
  /\ \A p \in PllType : bypassed(p) \/ pll[p].locked
  /\ released # <<>> => /\ released[1].dci /\ released[1].clock = mul("Ddr")
                       /\ released[1].written = written

(* The loader boots with the frequencies asked for, the L2 cache on and    *)
(* the memory in operation; it fails only for a multiplier out of range,   *)
(* and a memory without a stuck bit passes the test.                       *)
Usable ==
  /\ l2 /\ ddrc.normal
  /\ \A p \in PllType : output(p) = mul(p)
  /\ \A p \in {"Arm", "Io"} : clocks[p] = PS_CLK * output(p)
InRange == \A p \in PllType : mul(p) \in PLL_MUL_MIN .. PLL_MUL_MAX
BootsUsable ==
  /\ [](step = "boot" => Usable)
  /\ InRange => <>(step = "boot" \/ (step = "failed" /\ fault # <<>>))
=============================================================================
