---------------------------- MODULE DriverSetup ----------------------------
(* How a program sets up its drivers: tokens for pins and register blocks  *)
(* are consumed by the constructors, which route the pins, switch on the   *)
(* clock of the registers, pulse a reset that is shared with the twin of   *)
(* the peripheral, and configure it.  Types allow a pin only where it      *)
(* implements the trait of a signal; constructors check the rest.          *)
(* (firmware/zynq7000-hal/src: lib.rs, gpio/, spi, uart, i2c.rs, sd, qspi, *)
(* eth, ttc.rs)                                                            *)
EXTENDS Integers, FiniteSets, Functions

CONSTANTS
  Kinds,    \* of drivers the program uses
  GpioPins, \* pins it uses as plain inputs and outputs
  MaxCalls  \* constructor calls that succeed, the last may also be refused

VARIABLES
  free,       \* pins whose token the program has
  unused,     \* register blocks whose token it has
  mio,        \* MIO_PIN registers
  aper,       \* peripherals whose registers are clocked (APER_CLK_CTRL)
  drivers,    \* what it has constructed: peripheral, pin of each signal, ready for use
  refused,    \* constructor calls that returned an error, the program gives up then
  configured  \* peripherals whose registers hold the configuration of their driver

setupVars == <<free, unused, mio, aper, drivers, refused, configured>>

Pin == 0..53
Twins(k) == {<<k, 0>>, <<k, 1>>}
TtcChannels == {<<"Ttc", n, c>> : n \in 0..1, c \in 0..2}  \* what Ttc::new splits both into
Blocks ==
  UNION {Twins(k) : k \in {"Spi", "Uart", "I2c", "Sdio", "Gem"}}
    \cup {<<"Lqspi", 0>>, <<"Gpio", 0>>} \cup TtcChannels

-----------------------------------------------------------------------------
(* Multiplexer settings.                                                   *)
new_with_l0 == <<TRUE, FALSE, 0, 0>>
new_with_l1 == <<FALSE, TRUE, 0, 0>>
new_with_l3(l3) == <<FALSE, FALSE, 0, l3>>
new_for_gpio == new_with_l3(0)

SPI_MUX_CONF == new_with_l3(5)
UART_MUX_CONF == new_with_l3(7)
I2C_MUX_CONF == new_with_l3(2)
SD_MUX_CONF == new_with_l3(4)
QSPI_MUX_CONFIG == new_with_l0
MUX_CONF_PHY == new_with_l0
MUX_CONF_MDIO == new_with_l3(4)
TTC_MUX_CONF == new_with_l3(6)

-----------------------------------------------------------------------------
(* What the silicon routes: setting mux of a pin connects it to a signal.  *)
Laid(firsts, mux, k, n, signals) ==
  [firsts |-> firsts, mux |-> mux, block |-> <<k, n>>, signals |-> signals]
Every(step, first, last) == {p \in first..last : (p - first) % step = 0}
rgmii == <<"tx_clk", "tx_data0", "tx_data1", "tx_data2", "tx_data3", "tx_ctrl",
           "rx_clk", "rx_data0", "rx_data1", "rx_data2", "rx_data3", "rx_ctrl">>
Silicon ==
  {Laid({1}, new_with_l0, "Lqspi", 0, <<"cs", "io0", "io1", "io2", "io3", "clk">>),
   Laid({8}, new_with_l0, "Lqspi", 0, <<"feedback">>),
   Laid({16}, new_with_l0, "Gem", 0, rgmii), Laid({28}, new_with_l0, "Gem", 1, rgmii),
   Laid(Every(4, 10, 50), new_with_l3(2), "I2c", 0, <<"sck", "sda">>),
   Laid(Every(4, 12, 52), new_with_l3(2), "I2c", 1, <<"sck", "sda">>),
   Laid(Every(12, 16, 40), new_with_l3(4), "Sdio", 0, <<"clk", "cmd", "d0", "d1", "d2", "d3">>),
   Laid(Every(12, 10, 46), new_with_l3(4), "Sdio", 1, <<"d0", "cmd", "clk", "d1", "d2", "d3">>),
   Laid({52}, new_with_l3(4), "Gem", 0, <<"md_clk", "md_io">>),
   Laid({52}, new_with_l3(5), "Gem", 1, <<"md_clk", "md_io">>),
   Laid(Every(12, 16, 40), new_with_l3(5), "Spi", 0, <<"sck", "miso", "ss0", "ss1", "ss2", "mosi">>),
   Laid(Every(12, 10, 46), new_with_l3(5), "Spi", 1, <<"mosi", "miso", "sck", "ss0", "ss1", "ss2">>),
   Laid(Every(12, 16, 40), new_with_l3(6), "Ttc", 1, <<"wave_out">>),
   Laid(Every(12, 18, 42), new_with_l3(6), "Ttc", 0, <<"wave_out">>),
   Laid(Every(4, 10, 50), new_with_l3(7), "Uart", 0, <<"rx", "tx">>),
   Laid(Every(4, 8, 52), new_with_l3(7), "Uart", 1, <<"tx", "rx">>),
   Laid(Pin, new_for_gpio, "Gpio", 0, <<"io">>)}
Carries(p, mux, block, signal) ==
  \E l \in Silicon :
    /\ l.block = block /\ l.mux = mux
    /\ \E i \in DOMAIN l.signals : l.signals[i] = signal /\ p - (i - 1) \in l.firsts

(* What a debugger that runs scripts/ps7_init.tcl leaves behind.           *)
ps7_mio(p) ==
  [mux |-> CASE p \in 1..6 \cup {8} \cup 16..27 -> new_with_l0
             [] p \in 28..39 -> new_with_l1
             [] p \in 40..45 -> new_with_l3(4)
             [] p \in {48, 49} -> new_with_l3(7)
             [] OTHER -> new_for_gpio,
   pullup |-> p \in {0, 46} \cup 9..15,
   tri |-> p \in 22..27 \cup {29, 31, 36, 47, 49}]
ps7_clocks == {<<"Dma", 0>>, <<"Usb", 0>>, <<"Usb", 1>>, <<"Gem", 0>>, <<"Sdio", 0>>, <<"Smc", 0>>,
               <<"Lqspi", 0>>, <<"Gpio", 0>>} \cup Twins("Uart") \cup Twins("I2c")

-----------------------------------------------------------------------------
(* Pins that implement the trait of a signal.                              *)
Spi0Pins(base, group) ==
  [spi |-> 0, group |-> group, sck |-> base, miso |-> base + 1, ss0 |-> base + 2, ss1 |-> base + 3,
   ss2 |-> base + 4, mosi |-> base + 5]
Spi1Pins(base, group) ==
  [spi |-> 1, group |-> group, mosi |-> base, miso |-> base + 1, sck |-> base + 2, ss0 |-> base + 3,
   ss1 |-> base + 4, ss2 |-> base + 5]
SpiGroups == {Spi0Pins(16, 0), Spi0Pins(28, 1), Spi0Pins(40, 2),
              Spi1Pins(10, 0), Spi1Pins(22, 1), Spi1Pins(34, 2), Spi1Pins(46, 3)}

UartPins(n) ==
  IF n = 0 THEN {[tx |-> t, rx |-> t - 1] : t \in {11, 15, 19, 23, 27, 31, 35, 39, 43, 47, 51}}
           ELSE {[tx |-> t, rx |-> t + 1] : t \in {8, 12, 16, 20, 24, 28, 32, 36, 40, 44, 48, 52}}

i2c_pin_impls ==
  {[id |-> 0, sck |-> p, sda |-> p + 1] : p \in {10, 14, 18, 22, 26, 30, 34, 38, 42, 46, 50}}
    \cup {[id |-> 1, sck |-> p, sda |-> p + 1] : p \in {12, 16, 20, 24, 28, 32, 36, 40, 44, 48, 52}}

Sdio0Pins == [clk |-> {16, 28, 40}, cmd |-> {17, 29, 41}, d0 |-> {18, 30, 42},
              d1 |-> {19, 31, 43}, d2 |-> {20, 32, 44}, d3 |-> {21, 33, 45}]
Sdio1Pins == [clk |-> {12, 24, 36, 48}, cmd |-> {11, 23, 35, 47}, d0 |-> {10, 22, 34, 46},
              d1 |-> {13, 25, 37, 49}, d2 |-> {14, 26, 38, 50, 15}, d3 |-> {27, 39, 51}]

Qspi0Pins == [cs |-> 1, io0 |-> 2, io1 |-> 3, io2 |-> 4, io3 |-> 5, clk |-> 6]
FeedbackClockPin == [feedback |-> 8]

Eth0Pins == [tx_clk |-> 16, tx_ctrl |-> 21, tx_data0 |-> 17, tx_data1 |-> 18, tx_data2 |-> 19,
             tx_data3 |-> 20, rx_clk |-> 22, rx_ctrl |-> 27, rx_data0 |-> 23, rx_data1 |-> 24,
             rx_data2 |-> 25, rx_data3 |-> 26]
Eth1Pins == [tx_clk |-> 28, tx_ctrl |-> 33, tx_data0 |-> 29, tx_data1 |-> 30, tx_data2 |-> 31,
             tx_data3 |-> 32, rx_clk |-> 34, rx_ctrl |-> 39, rx_data0 |-> 35, rx_data1 |-> 36,
             rx_data2 |-> 37, rx_data3 |-> 38]
MdPins == [md_clk |-> 52, md_io |-> 53]

WaveOutPins == {18, 30, 42} \cup {16, 28, 40}

-----------------------------------------------------------------------------
(* lib.rs and the reset registers.                                         *)
aper_bit(select) == IF select = <<"Spi", 0>> THEN <<"Spi", 1>> ELSE select
enable_amba_peripheral_clock(select) == aper \cup {aper_bit(select)}

Field(id, domains) == {<<id, domain>> : domain \in domains}
reset(id) == Field(id, {"ref", "cpu1x"})
reset_eth(id) == Field(id, {"ref", "rx", "cpu1x"})
Lost(fields) == {p \in configured : \E f \in fields : f[1] = p}

(* The registers of a block can be written when it is clocked.             *)
initialize(id, fields) ==
  LET on == enable_amba_peripheral_clock(id) IN
  /\ aper' = on
  /\ configured' = (configured \ Lost(fields)) \cup ({id} \cap on)

-----------------------------------------------------------------------------
(* Pin configuration of a constructor.                                     *)
io_periph_pin(mux, pullup) == [mux |-> mux, pullup |-> pullup, tri |-> FALSE]
io_periph_pin_as_is(p, mux) == [mux |-> mux, pullup |-> mio[p].pullup, tri |-> FALSE]
configure(pins, confs) ==
  mio' = [p \in Pin |->
            IF p \in Range(pins) THEN confs[CHOOSE s \in DOMAIN pins : pins[s] = p] ELSE mio[p]]

(* Tokens of pins and register block go into the call and do not return.   *)
Consume(kind, blocks, pins) ==
  /\ kind \in Kinds
  /\ blocks \subseteq unused /\ unused' = unused \ blocks
  /\ Range(pins) \subseteq free /\ free' = free \ Range(pins)
Driver(id, pins, ready) == drivers \cup {[id |-> id, pins |-> pins, ready |-> ready]}
Ok(id, pins) == drivers' = Driver(id, pins, TRUE) /\ UNCHANGED refused
Err == refused' = refused + 1 /\ UNCHANGED <<mio, aper, drivers, configured>>
no_pins == [s \in {} |-> 0]
both(pins, more) ==
  [s \in DOMAIN pins \cup DOMAIN more |-> IF s \in DOMAIN pins THEN pins[s] ELSE more[s]]

-----------------------------------------------------------------------------
Pins_new == free' = Pin
GpioPins_new ==
  /\ <<"Gpio", 0>> \in unused
  /\ unused' = unused \ {<<"Gpio", 0>>}
  /\ Pins_new
  /\ aper' = enable_amba_peripheral_clock(<<"Gpio", 0>>)
  /\ UNCHANGED <<mio, drivers, refused, configured>>

gpio_conf(p, output) ==
  [mio[p] EXCEPT !.mux = new_for_gpio, !.tri = ~ output, !.pullup = output /\ @]

(* Output::new_for_mio and Input::new_for_mio, which refuses MIO 7 and 8.  *)
Gpio_new ==
  \E p \in free \cap GpioPins, output \in BOOLEAN :
    LET pins == [io |-> p] IN
    /\ Consume("Gpio", {}, pins)
    /\ \/ /\ output \/ p \notin {7, 8}
          /\ configure(pins, [s \in {"io"} |-> gpio_conf(p, output)])
          /\ Ok(<<"Gpio", 0>>, pins) /\ UNCHANGED <<aper, configured>>
       \/ ~ output /\ p \in {7, 8} /\ Err

-----------------------------------------------------------------------------
(* The pins passed to one of the four constructors come from one group, or *)
(* MISO from another.                                                      *)
SpiPicks ==
  {[s \in {"sck", "mosi", "miso"} \cup ss |-> g] : g \in SpiGroups, ss \in SUBSET {"ss0", "ss1", "ss2"}}
    \cup {[s \in {"sck", "mosi", "miso"} |-> IF s = "miso" THEN h ELSE g] : g, h \in SpiGroups}
spi_accepts_sck(n, picks) ==
  picks["sck"].spi = n /\ \A s \in DOMAIN picks : picks[s].group = picks["sck"].group
spi_accepts(n, picks) ==
  \A s \in DOMAIN picks : picks[s].group = picks["sck"].group /\ picks[s].spi = n

reset_spi_both(id) == UNION {Field(p, {"ref", "cpu1x"}) : p \in Twins(id[1])}
reset_spi(id) == reset(id)

Spi_new ==
  \E n \in 0..1, picks \in SpiPicks :
    LET id == <<"Spi", n>>  pins == [s \in DOMAIN picks |-> picks[s][s]] IN
    /\ Consume("Spi", {id}, pins)
    /\ \/ /\ spi_accepts(n, picks)
          /\ configure(pins, [s \in DOMAIN pins |-> io_periph_pin(SPI_MUX_CONF, FALSE)])
          /\ initialize(id, reset_spi(id)) /\ Ok(id, pins)
       \/ ~ spi_accepts(n, picks) /\ Err

-----------------------------------------------------------------------------
(* With MIO pins of UART u, or with EMIO.                                  *)
Uart_new_with_mio ==
  \E n, u \in 0..1 : \E pins \in UartPins(u) :
    LET id == <<"Uart", n>> IN
    /\ Consume("Uart", {id}, pins)
    /\ \/ /\ n = u
          /\ configure(pins, [s \in DOMAIN pins |-> io_periph_pin_as_is(pins[s], UART_MUX_CONF)])
          /\ initialize(id, reset(id)) /\ Ok(id, pins)
       \/ n # u /\ Err

Uart_new_with_emio ==
  \E id \in Twins("Uart") :
    /\ Consume("Uart", {id}, no_pins)
    /\ initialize(id, reset(id)) /\ Ok(id, no_pins)
    /\ UNCHANGED mio

-----------------------------------------------------------------------------
(* Only the pins are compared with each other.  The controller is not      *)
(* reset, its control register is written whole.                           *)
I2c_new_with_mio ==
  \E id \in Twins("I2c"), a \in i2c_pin_impls : \E b \in {a} \cup {i \in i2c_pin_impls : a.sck = 10} :
    LET pins == [sck |-> a.sck, sda |-> b.sda] IN
    /\ Consume("I2c", {id}, pins)
    /\ \/ /\ a.id = b.id
          /\ configure(pins, [s \in DOMAIN pins |-> io_periph_pin(I2C_MUX_CONF, TRUE)])
          /\ initialize(id, {}) /\ Ok(id, pins)
       \/ a.id # b.id /\ Err

I2c_new_with_emio ==
  \E id \in Twins("I2c") :
    /\ Consume("I2c", {id}, no_pins)
    /\ initialize(id, {}) /\ Ok(id, no_pins)
    /\ UNCHANGED mio

-----------------------------------------------------------------------------
(* SD: new_for_sdio_n routes the pins, initialize does the rest later.     *)
(* All pins come from one block of six, data 3 also from another.          *)
SdioWirings(T) ==
  LET near(s, r) == {p \in T[s] : p - r \in -2..5}
      choices == {c \in T["clk"] \X T["d2"] \X T["d3"] : c[2] \in near("d2", c[1])} IN
  {[s \in DOMAIN T |-> CASE s = "clk" -> c[1] [] s = "d2" -> c[2] [] s = "d3" -> c[3]
                         [] OTHER -> CHOOSE p \in near(s, c[1]) : TRUE] : c \in choices}

SdCardUninit_new ==
  \E n, u \in 0..1 : \E pins \in SdioWirings(IF u = 0 THEN Sdio0Pins ELSE Sdio1Pins) :
    LET id == <<"Sdio", n>> IN
    /\ Consume("Sdio", {id}, pins)
    /\ \/ /\ n = u
          /\ configure(pins, [s \in DOMAIN pins |-> io_periph_pin(SD_MUX_CONF, FALSE)])
          /\ drivers' = Driver(id, pins, FALSE) /\ UNCHANGED <<refused, aper, configured>>
       \/ n # u /\ Err

SdCardUninit_initialize ==
  \E d \in drivers :
    /\ ~ d.ready
    /\ drivers' = (drivers \ {d}) \cup {[d EXCEPT !.ready = TRUE]}
    /\ initialize(d.id, reset(d.id))
    /\ UNCHANGED <<free, unused, mio, refused>>

-----------------------------------------------------------------------------
qspi_conf(s) == io_periph_pin(QSPI_MUX_CONFIG, s = "cs")
Qspi_new ==
  \E feedback \in BOOLEAN :
    LET id == <<"Lqspi", 0>>
        pins == IF feedback THEN both(Qspi0Pins, FeedbackClockPin) ELSE Qspi0Pins IN
    /\ Consume("Lqspi", {id}, pins)
    /\ configure(pins, [s \in DOMAIN pins |-> qspi_conf(s)])
    /\ initialize(id, reset(id)) /\ Ok(id, pins)

-----------------------------------------------------------------------------
received == {"rx_clk", "rx_ctrl", "rx_data0", "rx_data1", "rx_data2", "rx_data3"}
eth_conf(s) ==
  IF s \in DOMAIN MdPins THEN io_periph_pin(MUX_CONF_MDIO, TRUE)
  ELSE [io_periph_pin(MUX_CONF_PHY, TRUE) EXCEPT !.tri = s \in received]
common_init(id) == initialize(id, reset_eth(id))

Ethernet_new_with_mio ==
  \E n \in 0..1, md \in BOOLEAN :
    LET id == <<"Gem", n>>
        rgmii_pins == IF n = 0 THEN Eth0Pins ELSE Eth1Pins
        pins == IF md THEN both(rgmii_pins, MdPins) ELSE rgmii_pins IN
    /\ Consume("Gem", {id}, pins)
    /\ common_init(id)
    /\ configure(pins, [s \in DOMAIN pins |-> eth_conf(s)])
    /\ Ok(id, pins)

Ethernet_new ==
  \E id \in Twins("Gem") :
    /\ Consume("Gem", {id}, no_pins)
    /\ common_init(id) /\ Ok(id, no_pins)
    /\ UNCHANGED mio

-----------------------------------------------------------------------------
(* Any channel takes any waveform pin.                                     *)
Pwm_new_with_cpu_clk_and_mio_waveout ==
  \E channel \in TtcChannels, p \in WaveOutPins :
    LET pins == [wave_out |-> p] IN
    /\ Consume("Ttc", {channel}, pins)
    /\ configure(pins, [s \in DOMAIN pins |-> io_periph_pin_as_is(p, TTC_MUX_CONF)])
    /\ configured' = configured \cup {channel}
    /\ Ok(channel, pins) /\ UNCHANGED aper

-----------------------------------------------------------------------------
SetupInit ==
  /\ free = {} /\ unused = Blocks
  /\ mio = [p \in Pin |-> ps7_mio(p)] /\ aper = ps7_clocks
  /\ drivers = {} /\ refused = 0 /\ configured = {}

SetupNext ==
  \/ GpioPins_new \/ SdCardUninit_initialize
  \/ /\ Cardinality(drivers) < MaxCalls /\ refused = 0
     /\ \/ Gpio_new \/ Spi_new \/ Uart_new_with_mio \/ Uart_new_with_emio
        \/ I2c_new_with_mio \/ I2c_new_with_emio \/ SdCardUninit_new \/ Qspi_new
        \/ Ethernet_new_with_mio \/ Ethernet_new \/ Pwm_new_with_cpu_clk_and_mio_waveout

SetupSpec == SetupInit /\ [][SetupNext]_setupVars

-----------------------------------------------------------------------------
(* Constructors that accept pins which do not carry the signals of their   *)
(* driver: I2C does not compare the pins with the controller, PWM neither  *)
(* with the TTC nor with the channel (only the first has a pin), MIO 15 is *)
(* taken for data 2, and the MDIO of Ethernet 1 gets the setting of        *)
(* Ethernet 0.                                                             *)
Unchecked(d, s) ==
  \/ d.id[1] = "I2c" /\ \E i \in i2c_pin_impls : i.id # d.id[2] /\ d.pins[s] \in {i.sck, i.sda}
  \/ d.id[1] = "Ttc" /\ (d.id[3] # 0 \/ (d.id[2] = 0) # (d.pins[s] \in {18, 30, 42}))
  \/ d.id = <<"Sdio", 1>> /\ d.pins[s] = 15
  \/ d.id = <<"Gem", 1>> /\ s \in DOMAIN MdPins

(* A pin that a constructor was given stays with its driver, connected to  *)
(* the signal it was given for and not tri-stated unless it is only read.  *)
PinsServeDrivers ==
  \A d \in drivers : \A s \in DOMAIN d.pins :
    LET p == d.pins[s] IN
    /\ p \notin free
    /\ Unchecked(d, s) \/ Carries(p, mio[p].mux, <<d.id[1], d.id[2]>>, s)
    /\ mio[p].tri => s \in received \cup {"io"}

(* A driver that is ready has its registers clocked and configured,        *)
(* whatever is constructed after it, but for SPI 0: its constructor opens  *)
(* the clock gate of SPI 1 (lib.rs:211).                                   *)
ReadyIsConfigured ==
  \A d \in drivers :
    d.ready /\ d.id # <<"Spi", 0>> /\ d.id[1] # "Gpio" =>
      d.id \in configured /\ (d.id \in aper \/ d.id[1] = "Ttc")
=============================================================================
