------------------------------ MODULE MCSystem ------------------------------
(* The parts of the system below the drivers: cache maintenance, boot      *)
(* loader, bring-up of clocks and memory, interrupt controller and memory  *)
(* map, the set-up of drivers and their clock rates, delays and PWM.  One  *)
(* of them runs in a behaviour while the others stay as they are           *)
(* initially.                                                              *)
EXTENDS CacheMaintenance, DriverSetup

CONSTANTS
  LIMIT, NAME_WORDS, ELF_BASE_ADDR, BOOT_BIN_STAGING_OFFSET, DDR_WORDS, BootImages,   \* boot loader
  PS_CLK, Targets, DIVISOR_MAX, DCI_MAX_FREQ, Words, Bits, Faults,                    \* bring-up
  IrqLines, Pulses, PlIds, IrqCalls, MaxRaised,                                       \* interrupts
  Accessed,                                                                           \* memory map
  Boards, RateCalls, MaxRateCalls,                                                    \* clock rates
  Cores, CoreHandlers, U32_MAX, Delays, MaxDelays,                                        \* delays
  Intervals, Percents, MaxPwmCalls                                                    \* PWM

VARIABLES
  subject,   \* what runs: "cache", "boot", "bring_up", "gic", "mmu", "drivers", "rates",
             \* "delay" or "pwm"
  images, qspi_flash, registers, ddr, unclean, boot_step, guard, header_len, header,
  next_header, index, partition, partition_index, count, jump_addr, pl,
  pinned, target, pll, pll_init, bring_step, pll_step, arm_div, ddr_div, clocks, dci, ddrc,
  released, l2, fault, tests, memory,
  initialized, calls, icfr, iptr, iser, pmr, dcr, irq, high, latched, active, handler, info,
  raised, owed, asked, meant,
  generated, region, table, tlb, mmu_step, dirty_in, set_to,
  rate_pll, ratio, clk_ctrl, known, current, outer, best, made,
  TIM_TAKEN, tim, at, delayed, remaining, delay, elapsed,
  cnt_ctrl, interval, match_0, counter, level, pwm_call, wanted, pwm_calls, periods

Loader == INSTANCE Boot
Board == INSTANCE BringUp WITH step <- bring_step
Irq == INSTANCE Gic WITH Lines <- IrqLines, MaxCalls <- IrqCalls
Mmu == INSTANCE MemoryMap
Rates == INSTANCE ClockRates
           WITH Calls <- RateCalls, MaxCalls <- MaxRateCalls, pll <- rate_pll, clocks <- known
Tim == INSTANCE PrivateTimer WITH Handlers <- CoreHandlers, asked <- delay
Out == INSTANCE Pwm WITH MaxCalls <- MaxPwmCalls, high <- level

ASSUME MCSystemAssumption ==
  /\ Loader!BootAssumption /\ Loader!BootImageAssumption /\ Board!BringUpAssumption
  /\ Irq!GicAssumption /\ Mmu!MemoryMapAssumption
  /\ Tim!PrivateTimerAssumption /\ Out!PwmAssumption

loaderVars == <<images, qspi_flash, registers, ddr, unclean, boot_step, guard, header_len,
                header, next_header, index, partition, partition_index, count, jump_addr, pl>>
boardVars == <<pinned, target, pll, pll_init, bring_step, pll_step, arm_div, ddr_div, clocks, dci,
               ddrc, released, l2, fault, tests, memory>>
irqVars == <<initialized, calls, icfr, iptr, iser, pmr, dcr, irq, high, latched, active, handler,
             info, raised, owed, asked, meant>>
mmuVars == <<generated, region, table, tlb, mmu_step, dirty_in, set_to>>
ratesVars == <<rate_pll, ratio, clk_ctrl, known, current, outer, best, made>>
timVars == <<TIM_TAKEN, tim, at, delayed, remaining, delay, elapsed>>
pwmVars == <<cnt_ctrl, interval, match_0, counter, level, pwm_call, wanted, pwm_calls, periods>>
boardSide == <<loaderVars, boardVars, irqVars, mmuVars>>
driverSide == <<setupVars, ratesVars, timVars, pwmVars>>
mcVars == <<subject, vars, boardSide, driverSide>>

Part(name, A) == subject = name /\ A /\ UNCHANGED subject
Low(name, A) == Part(name, A) /\ UNCHANGED driverSide
High(name, A) == Part(name, A) /\ UNCHANGED <<vars, boardSide>>
Cache(A) == Low("cache", A) /\ UNCHANGED boardSide
B(A) == Low("boot", A) /\ UNCHANGED <<vars, boardVars, irqVars, mmuVars>>
U(A) == Low("bring_up", A) /\ UNCHANGED <<vars, loaderVars, irqVars, mmuVars>>
G(A) == Low("gic", A) /\ UNCHANGED <<vars, loaderVars, boardVars, mmuVars>>
M(A) == Low("mmu", A) /\ UNCHANGED <<vars, loaderVars, boardVars, irqVars>>
D(A) == High("drivers", A) /\ UNCHANGED <<ratesVars, timVars, pwmVars>>
R(A) == High("rates", A) /\ UNCHANGED <<setupVars, timVars, pwmVars>>
T(A) == High("delay", A) /\ UNCHANGED <<setupVars, ratesVars, pwmVars>>
P(A) == High("pwm", A) /\ UNCHANGED <<setupVars, ratesVars, timVars>>

(* What a part that does not run starts from, with nothing in the large    *)
(* memories of the loader and the registers of the pins.                   *)
One(S) == CHOOSE x \in S : TRUE
NoLoader ==
  /\ images = One(BootImages) /\ qspi_flash = 0 /\ registers = TRUE /\ ddr = 0 /\ unclean = {}
  /\ boot_step = "none" /\ guard = FALSE /\ header_len = 0 /\ header = 0 /\ next_header = 0
  /\ index = 0 /\ partition = 0 /\ partition_index = 0 /\ count = 0 /\ jump_addr = 0
  /\ pl = [dma |-> "idle", reset |-> TRUE, holds |-> 0]
NoDrivers ==
  /\ free = {} /\ unused = {} /\ mio = 0 /\ aper = {} /\ drivers = {} /\ refused = 0
  /\ configured = {}

MCInit ==
  /\ subject \in {"cache", "boot", "bring_up", "gic", "mmu", "drivers", "rates", "delay", "pwm"}
  /\ Init /\ (subject # "cache" => latest = [i \in Line |-> One(Values)])
  /\ IF subject = "boot" THEN Loader!BootInit ELSE NoLoader
  /\ Board!BringUpInit
  /\ subject # "bring_up" => ~ pinned /\ target = One(Targets) /\ fault = One(Faults)
  /\ Irq!GicInit /\ Mmu!MmuInit
  /\ IF subject = "drivers" THEN SetupInit ELSE NoDrivers
  /\ Rates!RatesInit
  /\ subject # "rates" => rate_pll = One(Boards).pll /\ clk_ctrl = One(Boards).clk_ctrl
  /\ Tim!PrivTimInit
  /\ subject # "delay" => \A c \in Cores : tim[c].enable /\ tim[c].auto_reload /\ tim[c].event_flag
                                             /\ tim[c].counter > 0
  /\ Out!PwmInit

MCNext ==
  \/ Cache(Next) \/ B(Loader!BootNext) \/ U(Board!BringUpNext) \/ G(Irq!GicNext) \/ M(Mmu!MmuNext)
  \/ D(SetupNext) \/ R(Rates!RatesNext) \/ T(Tim!PrivTimNext) \/ P(Out!PwmNext)

(* The fairness of the parts that have some.  Only one part runs, so one   *)
(* condition can stand for one of each.                                    *)
MCSpec ==
  /\ MCInit /\ [][MCNext]_mcVars
  /\ WF_mcVars(B(Loader!qspi_boot) \/ U(Board!Main) \/ G(Irq!Handler))
  /\ WF_mcVars(B(Loader!dma_done) \/ U(Board!Hardware))

-----------------------------------------------------------------------------
(* Images for the boot loader: a bitstream between two partitions of an    *)
(* application; partitions of nobody, of no words, and two images; an      *)
(* image that reaches into the metadata with its last partition, and one   *)
(* with its first; and one without an application.                         *)
PS(load, words) == [dest |-> 1, load |-> ELF_BASE_ADDR + 4 * load, words |-> words]
PL(words) == [dest |-> 2, load |-> 0, words |-> words]
Other(dest) == [dest |-> dest, load |-> 0, words |-> 1]
Image(name, ps) == [name |-> name, partitions |-> ps]
Fsbl == Image(<<2, 4, 3>>, <<PS(0, 2)>>)
MCBootImages ==
  { <<Fsbl, Image(<<2, 2, 2>>, <<PL(3), PS(4, 5), PS(0, 3)>>)>>,
    <<Fsbl, Image(<<3>>, <<PL(1), Other(3), PL(0)>>), Image(<<2, 5>>, <<PS(1, 2), Other(9)>>)>>,
    <<Fsbl, Image(<<2>>, <<PS(0, 3), PL(17), PS(5, 12)>>)>>,
    <<Fsbl, Image(<<2>>, <<PS(5, 12), PS(0, 3)>>)>>,
    <<Fsbl, Image(<<2>>, <<PL(2)>>)>> }

(* Frequencies of the PLLs: those of the boot loader, the limits of the    *)
(* range, and one below it.  The faults are all stuck bits, and none.      *)
Hz(arm, io, ddr_hz) == [p \in {"Arm", "Io", "Ddr"} |->
                          CASE p = "Arm" -> arm [] p = "Io" -> io [] OTHER -> ddr_hz]
MCTargets ==
  {Hz(1600000000, 1000000000, 1066666666), Hz(450000000, 2133333312, 1400000000),
   Hz(1600000000, 1000000000, 400000000)}
MCFaults == {<<>>} \cup [word : 0 .. Words - 1, bit : 0 .. Bits - 1, value : {0, 1}]

(* Boards: clocks of the Zedboard as a loader leaves them, of the boot     *)
(* loader with SPI on the ARM PLL, a ratio of 4:2:1 with SPI on the DDR    *)
(* PLL, a slow CPU, and one whose I2C divisors leave the limit of fast     *)
(* mode.  The calls include ones that have to be refused, and rates the    *)
(* divisors of QSPI do not keep.                                           *)
Divided(src, divisor) == [src |-> src, div |-> <<divisor, 1>>]
WithClocks(outputs, cpu_ratio, arm, spi) ==
  [pll |-> outputs, ratio |-> cpu_ratio,
   clk_ctrl |-> [c \in {"Arm", "Spi", "Sdio", "Lqspi", "Gem", "Uart"} |->
                   CASE c = "Arm" -> Divided("Arm", arm) [] c = "Spi" -> spi
                     [] c = "Gem" -> [src |-> "Io", div |-> <<8, 5>>] [] OTHER -> Divided("Io", 20)]]
MCBoards ==
  {WithClocks(Hz(1333333320, 999999990, 1066666656), 6, 2, Divided("Io", 6)),
   WithClocks(Hz(1600000000, 1000000000, 1066666666), 6, 2, Divided("Arm", 63)),
   WithClocks(Hz(1333333320, 1600000000, 1066666656), 4, 2, Divided("Ddr", 6)),
   WithClocks(Hz(1333333320, 999999990, 1066666656), 6, 30, Divided("Io", 6)),
   WithClocks(Hz(1299999987, 999999990, 1066666656), 6, 4, Divided("Io", 6))}
MHz == 1000000
MCRateCalls ==
  [device : {"Spi"}, less : {0, 1}, baud_div : {4, 64}]
    \cup [device : {"Sdio"}, id : {0, 1}, target_ref : {10 * MHz, 100 * MHz}, target : {10 * MHz, 50 * MHz}]
    \cup [device : {"Qspi"}, loopback : {TRUE}, src : {"Io", "Arm"}, target : {MHz, 50 * MHz, 100 * MHz}]
    \cup [device : {"Qspi"}, loopback : {FALSE}, src : {"Io", "Ddr"}, target_ref : {100 * MHz, 200 * MHz},
          target : {MHz, 10 * MHz, 100 * MHz}]
    \cup [device : {"Gem"}, speed : {100}] \cup [device : {"I2c"}, speed : {100000, 400000}]
    \cup [device : {"Mdc"}] \cup [device : {"Ttc"}, freq : {1, 50, 1500, MHz}]

-----------------------------------------------------------------------------
(* What the modules state, of the part that runs.                          *)

(* The loader jumps only to an application that is whole in DDR.           *)
JumpsToWhole == subject = "boot" => Loader!JumpsToWhole
(* A PLL drives its clocks, and the memory leaves its reset, only with     *)
(* stable clocks.                                                          *)
ClocksStable == subject = "bring_up" => Board!ClocksStable
(* The loader brings the board up with the clocks asked for, or stops for  *)
(* a reason, and starts an image that can be loaded in the end.            *)
BootEnds == IF subject = "boot" THEN Loader!BootEnds ELSE subject = "bring_up" => Board!BootsUsable
(* Every event of an interrupt that CPU 0 is to serve is served.           *)
Served == Irq!Served
(* The table is the generated one and, but for the OCM, the documented     *)
(* one, and a change of it is seen at once.                                *)
SectionsRight == subject = "mmu" => Mmu!SectionsRight
(* Buses run within their limits, as near to what was asked as can be.     *)
RatesRight == subject = "rates" => Rates!RatesRight
(* A delay lasts as long as asked.                                         *)
DelaysLast == subject = "delay" => Tim!DelaysLast
(* A PWM period has the length and duty cycle of one setting.              *)
PeriodsAsAsked == subject = "pwm" => Out!PeriodsAsAsked
=============================================================================
