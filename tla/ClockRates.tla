----------------------------- MODULE ClockRates -----------------------------
(* Which rate each peripheral gets: the clocks are read back from the      *)
(* registers, drivers compute divisors from them and write them into the   *)
(* clock registers, some of which two drivers share, and into their own.   *)
(* (firmware/zynq7000-hal/src: clocks/mod.rs, i2c.rs, sd/mod.rs,           *)
(* qspi/mod.rs, spi/mod.rs, eth/, ttc.rs)                                  *)
EXTENDS Integers, FiniteSets

CONSTANTS
  Boards,    \* outputs of the PLLs, ratio of the CPU clocks, clock registers as a loader left them
  Calls,     \* to the drivers, each with what it asks for
  MaxCalls

VARIABLES
  pll, ratio,  \* of this board
  clk_ctrl,    \* clock registers: source and divisors
  clocks,      \* what Clocks::new_from_regs made of them, frequencies by name
  current,     \* the search that runs, or one that is none
  outer,       \* its outer loop variable
  best,        \* what it found so far, one for each target
  made         \* calls that have returned, with the divisors in use

ratesVars == <<pll, ratio, clk_ctrl, clocks, current, outer, best, made>>

U6_MAX == 63
U16_MAX == 65535
u32_MAX == 2147483647   \* no frequency and no deviation reaches it
none == [device |-> "none"]
unread == [x \in {} |-> 0]

ceil(a, b) == (a + b - 1) \div b
abs(n) == IF n < 0 THEN - n ELSE n
least(S) == CHOOSE x \in S : \A y \in S : x <= y

-----------------------------------------------------------------------------
(* What the hardware makes of its registers, rounded down.                 *)
Rate(c) == pll[clk_ctrl[c].src] \div (clk_ctrl[c].div[1] * clk_ctrl[c].div[2])
Cpu1x == Rate("Arm") \div ratio

(* Clocks::new_from_regs, and the field that configure_spi_ref_clk updates *)
new_from_regs ==
  /\ clocks = unread
  /\ \A c \in DOMAIN clk_ctrl : clk_ctrl[c].div[1] # 0 /\ clk_ctrl[c].div[2] # 0
  /\ LET arm_clk_divided == pll[clk_ctrl["Arm"].src] \div clk_ctrl["Arm"].div[1]
         named == DOMAIN clk_ctrl \cup {"cpu_1x", "cpu_3x2x", "io_ref", "arm_ref", "ddr_ref"}
     IN clocks' = [c \in named |->
                     CASE c = "cpu_1x" -> arm_clk_divided \div ratio
                       [] c = "cpu_3x2x" -> arm_clk_divided \div 2
                       [] c = "io_ref" -> pll["Io"]
                       [] c = "arm_ref" -> pll["Arm"]
                       [] c = "ddr_ref" -> pll["Ddr"]
                       [] OTHER -> (pll[clk_ctrl[c].src] \div clk_ctrl[c].div[1]) \div clk_ctrl[c].div[2]]
  /\ UNCHANGED <<pll, ratio, clk_ctrl, current, outer, best, made>>
ref_clk(src) == CASE src = "Io" -> clocks["io_ref"]
                  [] src = "Arm" -> clocks["arm_ref"]
                  [] src = "Ddr" -> clocks["ddr_ref"]

Begin(device, c) ==
  /\ c \in Calls /\ c.device = device
  /\ clocks # unread /\ current = none /\ Cardinality(made) < MaxCalls
  /\ \A m \in made : m.call.device = device => device = "Sdio" /\ m.call.id # c.id
Returned(c, ok, result) ==
  made' = made \cup {[call |-> c, ok |-> ok, result |-> result, at |-> Cardinality(made)]}
Return(c, result) == Returned(c, TRUE, result)
Fail(c) == Returned(c, FALSE, unread)
write(c, src, div_0, div_1) == clk_ctrl' = [clk_ctrl EXCEPT ![c] = [src |-> src, div |-> <<div_0, div_1>>]]
single_step == UNCHANGED <<pll, ratio, current, outer, best>>

-----------------------------------------------------------------------------
(* SPI: the largest divisor, or one less as the caller of the example      *)
(* takes, then the driver, which stores its bit rate.                      *)
update_spi_clk(divisor) == [clocks EXCEPT !["Spi"] = ref_clk(clk_ctrl["Spi"].src) \div divisor]

spi_configure ==
  \E c \in Calls :
    LET largest == ref_clk(clk_ctrl["Spi"].src) \div clocks["cpu_1x"] IN
    /\ Begin("Spi", c)
    /\ \/ /\ largest > U6_MAX
          /\ Fail(c) /\ UNCHANGED <<clk_ctrl, clocks>>
       \/ LET divisor == largest - c.less IN
          /\ largest <= U6_MAX
          /\ write("Spi", clk_ctrl["Spi"].src, divisor, 1)
          /\ clocks' = update_spi_clk(divisor)
          /\ Return(c, [sclk |-> update_spi_clk(divisor)["Spi"] \div c.baud_div])
    /\ single_step

-----------------------------------------------------------------------------
(* SD: initialisation and normal phase divide one reference clock, whose   *)
(* register both controllers share.                                        *)
PowersOfTwo(last) == {n \in 1..last : \E k \in 0..8 : n = 2^k}
SdClockDivisor == PowersOfTwo(256)
divisor_select_from_value(value) ==
  IF value > 128 THEN 256 ELSE least({d \in SdClockDivisor : d >= value})
INIT_CLOCK_HZ == 400000

sdio_configure ==
  \E c \in Calls :
    LET divisor == ceil(clocks["io_ref"], c.target_ref)
        ref == clocks["io_ref"] \div divisor IN
    /\ Begin("Sdio", c)
    /\ \/ /\ divisor > U6_MAX
          /\ Fail(c) /\ UNCHANGED clk_ctrl
       \/ /\ divisor <= U6_MAX
          /\ write("Sdio", "Io", divisor, 1)
          /\ Return(c, [init |-> divisor_select_from_value(ceil(ref, INIT_CLOCK_HZ)),
                        normal |-> divisor_select_from_value(ceil(ref, c.target)),
                        high_speed |-> c.target > 25000000])
    /\ single_step /\ UNCHANGED clocks

-----------------------------------------------------------------------------
(* QSPI, with the loopback clock, which fixes the last divisor, or without.*)
BaudRateDivisor(n) ==
  CASE n \in 0..32 -> least({d \in PowersOfTwo(32) \ {1} : d >= n})
    [] n \in 65..128 -> 64
    [] n \in 129..256 -> 128
    [] OTHER -> 256

calculate_with_loopback ==
  \E c \in Calls :
    LET ref_clk_div == ceil(ref_clk(c.src), c.target * 2) IN
    /\ Begin("Qspi", c) /\ c.loopback
    /\ \/ /\ ref_clk_div > U6_MAX
          /\ Fail(c) /\ UNCHANGED clk_ctrl
       \/ /\ ref_clk_div <= U6_MAX
          /\ write("Lqspi", c.src, ref_clk_div, 1)
          /\ Return(c, [baud |-> 2])
    /\ single_step /\ UNCHANGED clocks

too_slow_unchecked(qspi_ref_clk) == FALSE
too_slow(qspi_ref_clk) == qspi_ref_clk < clocks["cpu_1x"]
calculate ==
  \E c \in Calls :
    LET ref_clk_div == ceil(ref_clk(c.src), c.target_ref)
        qspi_ref_clk == ref_clk(c.src) \div ref_clk_div IN
    /\ Begin("Qspi", c) /\ ~ c.loopback
    /\ \/ /\ ref_clk_div > U6_MAX \/ too_slow(qspi_ref_clk)
          /\ Fail(c) /\ UNCHANGED clk_ctrl
       \/ /\ ref_clk_div <= U6_MAX /\ ~ too_slow(qspi_ref_clk)
          /\ write("Lqspi", c.src, ref_clk_div, 1)
          /\ Return(c, [baud |-> BaudRateDivisor(ceil(qspi_ref_clk, c.target))])
    /\ single_step /\ UNCHANGED clocks

-----------------------------------------------------------------------------
(* MDC divisor and the interval of a TTC channel.                          *)
MAX_MDC_SPEED == 2500000
calculate_mdc_clk_div ==
  \E c \in Calls :
    LET div == ceil(clocks["cpu_1x"], MAX_MDC_SPEED)
        choices == {d \in {8, 16, 32, 48, 64, 96, 128, 224} : d > div} IN
    /\ Begin("Mdc", c)
    /\ IF choices = {} THEN Fail(c) ELSE Return(c, [div |-> least(choices)])
    /\ single_step /\ UNCHANGED <<clk_ctrl, clocks>>

calc_prescaler_reg_and_interval_ticks ==
  \E c \in Calls :
    LET tick_val(halvings) == (clocks["cpu_1x"] \div 2^halvings) \div c.freq
        halvings == least({h \in 0..16 : tick_val(h) <= U16_MAX}) IN
    /\ Begin("Ttc", c)
    /\ Return(c, [prescaler |-> halvings - 1, ticks |-> tick_val(halvings)])
    /\ single_step /\ UNCHANGED <<clk_ctrl, clocks>>

-----------------------------------------------------------------------------
(* The two searches over a pair of divisors: I2C for one target, Ethernet  *)
(* for the clock of every speed.  A step is one value of the outer loop,   *)
(* and a pair is taken only if it is strictly nearer than the best.        *)
frequency_for_calculation(speed) == IF speed = 100000 THEN 90000 ELSE 384600
rgmii_clk_rate == [mbps \in {10, 100, 1000} |->
                     CASE mbps = 10 -> 2500000 [] mbps = 100 -> 25000000 [] mbps = 1000 -> 125000000]
targets(c) == IF c.device = "I2c" THEN [s \in {c.speed} |-> frequency_for_calculation(s)]
                                  ELSE rgmii_clk_rate
outer_max(c) == IF c.device = "I2c" THEN 4 ELSE U6_MAX
inner_max(c) == IF c.device = "I2c" THEN 64 ELSE U6_MAX
rate_with(c, o, i) == IF c.device = "I2c" THEN clocks["cpu_1x"] \div (22 * o * i)
                                          ELSE (clocks["io_ref"] \div i) \div o

nearer(diff, than) == diff < than
inner_loop(c, target, from, o) ==
  LET after[i \in 0 .. inner_max(c)] ==
        IF i = 0 THEN from
        ELSE LET so_far == after[i - 1]
                 diff == abs(target - rate_with(c, o, i))
             IN IF nearer(diff, so_far.diff) THEN [diff |-> diff, outer |-> o, inner |-> i] ELSE so_far
  IN after[inner_max(c)]

not_attainable(c) ==
  c.device = "I2c" /\ (clocks["cpu_1x"] - 1) \div (22 * 64 * 4) >= frequency_for_calculation(c.speed)

begin_search ==
  \E c \in Calls :
    /\ \E device \in {"I2c", "Gem"} : Begin(device, c)
    /\ IF not_attainable(c) THEN Fail(c) /\ UNCHANGED <<current, outer, best>>
       ELSE /\ current' = c /\ outer' = 1
            /\ best' = [t \in DOMAIN targets(c) |-> [diff |-> u32_MAX, outer |-> 1, inner |-> 1]]
            /\ UNCHANGED made
    /\ UNCHANGED <<pll, ratio, clk_ctrl, clocks>>

search ==
  /\ current # none /\ outer <= outer_max(current)
  /\ outer' = outer + 1
  /\ best' = [t \in DOMAIN best |-> inner_loop(current, targets(current)[t], best[t], outer)]
  /\ UNCHANGED <<pll, ratio, clk_ctrl, clocks, current, made>>

(* The divisors of I2C go into its control register.  Those of Ethernet    *)
(* are kept, the ones for the configured speed in the clock register.      *)
end_search ==
  /\ current # none /\ outer > outer_max(current)
  /\ IF current.device = "I2c"
     THEN Return(current, [a |-> best[current.speed].outer - 1, b |-> best[current.speed].inner - 1])
          /\ UNCHANGED clk_ctrl
     ELSE Return(current, [t \in DOMAIN best |-> best[t].diff])
          /\ write("Gem", "Io", best[current.speed].inner, best[current.speed].outer)
  /\ current' = none /\ outer' = 0 /\ best' = unread
  /\ UNCHANGED <<pll, ratio, clocks>>

-----------------------------------------------------------------------------
RatesInit ==
  /\ \E b \in Boards : pll = b.pll /\ ratio = b.ratio /\ clk_ctrl = b.clk_ctrl
  /\ clocks = unread /\ current = none /\ outer = 0 /\ best = unread /\ made = {}

RatesNext ==
  \/ new_from_regs \/ spi_configure \/ sdio_configure \/ calculate_with_loopback \/ calculate
  \/ calculate_mdc_clk_div \/ calc_prescaler_reg_and_interval_ticks
  \/ begin_search \/ search \/ end_search

RatesSpec == RatesInit /\ [][RatesNext]_ratesVars

-----------------------------------------------------------------------------
(* The reference clock a driver configured is not changed by a later call. *)
Kept(m) == \A n \in made : n.at > m.at => n.call.device # m.call.device
ClosestTo(target, R(_, _), O, I, chosen) ==
  \A o \in O, i \in I : abs(target - R(o, i)) >= abs(target - chosen)

(* What the drivers make of their clocks, by the registers and not by what *)
(* the program knows.  I2C is nearest to its calculation frequency, and    *)
(* not above the limit of its mode if it divides by 12 or more; of the     *)
(* divisors below, some are.  SD cards get between 100 and 400 kHz while   *)
(* they are initialised, from reference clocks up to 102.4 MHz, and no     *)
(* more than the target later, unless the other controller changed the     *)
(* common reference clock.  QSPI is not above its target if it divides by  *)
(* 64 at most, as with the loopback clock, and above 64 may be; its        *)
(* reference clock is not below CPU 1x unless it is for the loopback       *)
(* clock, which is not checked against the limit that is documented for it *)
(* too (qspi/mod.rs:201).  SPI has a reference clock not below CPU 1x and  *)
(* the bit rate the driver reports.  RGMII clocks are nearest to the three *)
(* standard ones, MDC is within 2.5 MHz, and a TTC has the finest          *)
(* prescaler that fits.  A refused call asked for what its divisors or its *)
(* ratio to CPU 1x do not allow.                                           *)
RatesRight ==
  \A m \in made :
    LET c == m.call  r == m.result  d == c.device IN
    IF ~ m.ok
    THEN /\ d \in {"Spi", "Sdio", "Qspi"}
         /\ d = "Spi" => Cpu1x * (U6_MAX + 1) <= pll[clk_ctrl["Spi"].src]
         /\ d = "Qspi" /\ ~ c.loopback =>
              \/ c.target_ref < Cpu1x
              \/ ceil(pll[c.src], c.target_ref) > U6_MAX
              \/ pll[c.src] \div ceil(pll[c.src], c.target_ref) < Cpu1x
         /\ d = "Qspi" /\ c.loopback => ceil(pll[c.src], 2 * c.target) > U6_MAX
         /\ d = "Sdio" => ceil(pll["Io"], c.target_ref) > U6_MAX
    ELSE
    /\ d = "I2c" =>
         LET R(o, i) == Cpu1x \div (22 * o * i) IN
         /\ (r.a + 1) * (r.b + 1) >= 12 => R(r.a + 1, r.b + 1) <= c.speed
         /\ ClosestTo(targets(c)[c.speed], R, 1..4, 1..64, R(r.a + 1, r.b + 1))
    /\ d = "Gem" =>
         LET R(o, i) == pll["Io"] \div (o * i) IN
         /\ \A t \in DOMAIN r : \A o, i \in 1 .. U6_MAX : abs(rgmii_clk_rate[t] - R(o, i)) >= r[t]
         /\ abs(rgmii_clk_rate[c.speed] - Rate("Gem")) = r[c.speed]
    /\ d = "Sdio" /\ Kept(m) =>
         /\ c.target_ref <= 102400000 => Rate("Sdio") \div r.init \in 100000 .. INIT_CLOCK_HZ
         /\ Rate("Sdio") \div r.normal <= c.target
         /\ Rate("Sdio") \div r.normal > 25000000 => r.high_speed
    /\ d = "Qspi" =>
         /\ c.loopback \/ Rate("Lqspi") >= Cpu1x
         /\ ceil(Rate("Lqspi"), c.target) <= 64 => Rate("Lqspi") \div r.baud <= c.target
    /\ d = "Spi" => /\ Rate("Spi") >= Cpu1x /\ clocks["Spi"] = Rate("Spi")
                    /\ r.sclk = Rate("Spi") \div c.baud_div
    /\ d = "Mdc" => Cpu1x \div r.div <= MAX_MDC_SPEED
    /\ d = "Ttc" =>
         LET input == Cpu1x \div 2^(r.prescaler + 1) IN
         /\ r.ticks = input \div c.freq /\ r.ticks \in 0 .. U16_MAX
         /\ r.prescaler >= 0 => (2 * input) \div c.freq >= U16_MAX
=============================================================================
