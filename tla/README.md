# zynq7000-rs in TLA+

Models of the firmware in `src/firmware` (bare-metal Rust for the Xilinx Zynq-7000: HAL, boot loader, executor support)
and of the host tools it depends on, model-checked with TLC and, for most parts, proved with TLAPS. A driver here is a
program that shares FIFOs, descriptors, cache lines, event bits and reset registers with hardware that goes on between
any two register accesses, with an interrupt handler on the same core, with tasks that may drop a future half way, and
with the other drivers. Those interleavings, the searches that choose a divisor, and the long sequences that bring up a
board are what the models are about; register layouts and message texts are not in them.

Paths below are relative to `src/firmware/zynq7000-hal/src/` unless they begin with another crate.

## 1. Inventory

Status, sources and what is left out of each component are in `PROJECT.json`; the state, the operations and the
correctness of each are:

| Component | State | Operations | Who interferes | Correct when |
|---|---|---|---|---|
| Ethernet TX ring (`eth/tx_descr.rs`, `eth/smoltcp.rs`) | descriptors, `tx_idx`, `busy_idx`, buffers | `transmit`, `check_and_handle_completed_transfer`, `consume` | DMA of the GEM, caches | a FIFO of capacity *Slots*; owned buffers stable; all accepted is sent; no completion reported twice |
| Ethernet RX ring (`eth/rx_descr.rs`, `eth/smoltcp.rs`) | descriptors, `current_idx`, buffers | `receive` (scan, clear), `consume` | DMA, caches, speculation | each frame delivered once and unharmed, every slot returned |
| Ethernet interrupt and wakers (`eth/mod.rs`, `eth/embassy_net.rs`) | status bits, wakers | `on_interrupt`, `register`, poll | GEM, executor | no event lost between its cause and the poll |
| Ethernet set-up, link, PHY (`eth/mod.rs`, `eth/ll.rs`, `eth/mdio.rs`, `zedboard-bsp/src/phy_marvell.rs`, `examples/zedboard/src/bin/ethernet.rs`) | MAC, clock, link state of driver and stack | construction, start, link task | PHY, partner | the setting that was read takes effect; stack learns of the link |
| Cache maintenance (`cache.rs`) | L1, L2, DDR copies of each line | clean, invalidate, clean-and-invalidate of ranges | eviction, speculation, DMA | DMA and CPU see the newest data afterwards, nothing newer is lost |
| SPI blocking (`spi/mod.rs`) | two FIFOs, threshold, `outstanding_rx` | `read`, `write`, `transfer`, `transfer_in_place`, `flush`, `transaction`, reset | controller | no overflow, each call reads its own answers, calls return |
| SPI asynchronous (`spi/asynch.rs`) | `TRANSFER_CONTEXTS`, `DONE`, waker, masks | future `new`/`poll`/`drop`, `on_interrupt_*` | controller, handler, drop | slices only touched while lent; ready only when stored; ends |
| UART TX asynchronous (`uart/tx_async.rs`) | `TX_CONTEXTS`, `TX_DONE`, event bits | future `new`/`poll`/`drop`, `on_interrupt_tx` | transmitter, handler (also for receive interrupts), drop | slice alive, no foreign bytes, done only when all is in the FIFO and, without old events, out of it; ends |
| UART RX and baud rates (`uart/rx.rs`, `uart/mod.rs`) | FIFO, event bits, divisors | `on_interrupt`, `read`, baud search, set-up | line, timeout | every byte once and in order, none stays behind; as near a rate as rounding allows |
| Time driver (`zynq7000-embassy/src/lib.rs`, `gtc.rs`) | queue, comparator, event flag, enable bits | `now`, `schedule_wake`, `set_alarm`, alarm interrupt | running counter | nobody woken early, everybody woken |
| Logger (`log.rs`, `examples/embassy/.../logger-non-blocking.rs`) | byte ring, queue of lengths | `log`, `read_next_frame` | tasks and interrupts that log | frames whole and in order |
| I2C (`i2c.rs`) | FIFO, hold bit, transfer size | read, write, write_read | slave, bus errors | every byte moved and acknowledged, bus released, calls end |
| SD (`sd/`) | card state, controller status | initialisation, single and multiple blocks, BlockDevice | card, lost commands | block *n* of the buffer is block *n* of the card; no other block touched |
| QSPI and flash (`qspi/mod.rs`, `zedboard-bsp/src/qspi_spansion.rs`), flasher (`zedboard-qspi-flasher`) | FIFOs, chip select, flash status, image | read, program, erase, mode switch, flashing | controller, flash, power | an image reported flashed is in the flash |
| GPIO, SLCR (`gpio/`, `slcr.rs`) | registers shared by pins, lock | configure, set, `modify` | interrupt handlers | a pin shows what was asked, until an interrupt comes into a change of a shared register |
| Driver set-up (all constructors, `lib.rs`, `gpio/mio.rs`, the PAC) | tokens, multiplexer, clock gates, resets | constructors | each other, what a loader left behind | pins carry their signals; a ready driver stays configured |
| Clock rates (`clocks/mod.rs` and the divisor searches) | clock registers, `Clocks` | SPI, SD, QSPI, I2C, RGMII, MDC, TTC | drivers that share a clock | within the limits the divisors can keep, as near to the target as the search looks |
| TTC, PWM, private timer (`ttc.rs`, `priv_tim.rs`) | counter registers, event flag | `set_frequency`, `set_duty_cycle`, delays | running counter, handlers | whole periods of one setting; delays last |
| PLLs, DDR, L2, PL (`clocks/pll.rs`, `ddr/`, `l2_cache.rs`, `pl.rs`) | registers | set-up of the boot loader, memory test | lock bits, broken memory | clocks only from locked PLLs; memory released when ready |
| GIC (`gic.rs`) and the handlers that use it | enable, target, sensitivity, priority | set, enable, acknowledge, end | devices that raise and withdraw | every event is served; only that interrupt's bits change |
| Start code and MMU (`zynq7000-rt`, `zynq7000-mmu`), `host/mmu-table-gen` | table, TLB, L1 | generation, update of a section | caches, TLB | the table is the generated one, and the documented one but for the OCM; changes take effect |
| Boot loader and boot image (`zedboard-fsbl`, `host/zynq7000-boot-image`) | headers, DDR, PL | parse, copy, upload, jump | DMA, bad images | the application is whole in DDR before the jump |
| PAC, ps7init extractor, other examples | none | | | |

How they interact. The constructors consume tokens and share the SLCR (`DriverSetup`); the drivers then rest on the
rates (`ClockRates`). `eth` uses `cache` around every hand-over; the smoltcp/embassy stack calls `receive` and
`transmit` and is woken by the interrupt; futures of SPI and UART share one static context per peripheral with the
handler; the logger feeds the UART; every task waits through the time driver; the boot loader uses QSPI, caches, PL and
parser in one sequence. Hard behaviours, each at its line, are the `hazards` of `PROJECT.json`.

## 2. Modules

| Module | Models | Correspondence |
|---|---|---|
| `EthTxRing` | TX ring, driver task, GEM | `word1` are the descriptors, `txIdx`/`busyIdx` the indices, `pc` how far `transmit()` or `consume()` is; `GemFetch`, `GemComplete`, `GemHalt` are the DMA; `EvictLine` the caches |
| `EthTxFifo` | what the TX ring promises | a bounded FIFO: `Accept` and `Transmit`; `EthTxRing` implements it |
| `EthRxRing` | RX ring, driver task, GEM, two cache lines per buffer | `scan_*` are the iterations of `scan_and_handle_next_received_frame`, `clear_slots` its clearing loop, `consume_*` the steps of the token |
| `EthInterrupt` | status bits, handler, wakers, task | the rings are counts here; `handler` says how far `on_interrupt` is with its `copy`, the task registers, looks, sleeps |
| `EthLink` | MAC, PHY, link task | one action per access to the PHY; `seen` is what the task read, `phy` what is true, `mac` the configuration |
| `CacheMaintenance` | the range functions | `loops(f)` lists the loops of function *f*: level, operation and operand; `step` is one line operation |
| `SpiBlocking` | blocking SPI | words are counted; `begin` is the entry of a call, `pump` one round of its loop on the status copied by `read_isr`, `flush` the spin loop |
| `SpiAsync` | asynchronous SPI | `fill`..`poll_*` the future, `drop` its Drop, `on_interrupt` the handler in its reading and pumping halves; an index past the read slice is `isr_panic`, after which only the controller runs |
| `UartTxAsync` | asynchronous UART TX | `isr` holds events, not levels: "empty" is set when the last byte leaves; blocking writes may have left any before the first future, and `left` remembers those the handler may take for its own |
| `UartRx` | receive handler and blocking read | `rx_copy` is the status the handler decides on; bytes arrive between any two of its steps |
| `UartConfig` | baud search and set-up | one value of `bdiv` a step |
| `TimeDriver` | time driver and counter | `read_upper`, `read_lower`, `read_again` are the accesses of `read_timer`; `set_alarm` is split at its conditions |
| `LogRing` | ring logger and reader task | `log` is one critical section; the reader is a loop of three steps |
| `I2c` | master, FIFO, slave | one action per access of the refill and drain loops; the slave refuses, pauses or takes the bus |
| `SdCard` | driver, controller, card | one action per command; `swallowed` marks data bits that were acknowledged with a response |
| `QspiFlash` | transfer guard, flash driver, flasher | `shifted` counts the words that left before the chip select rose; `mem` is the flash with erase and program |
| `Gpio` | a Flex pin and a pin of a handler | `steps` are the register accesses left of the call; `overtaken` are the pins with a change the interrupt came into |
| `DriverSetup` | tokens and constructors of all drivers | one action per constructor, `Silicon` is the multiplexer, `ps7_mio` what a loader left behind |
| `ClockRates` | divisor searches | one step per candidate where the code loops; clock registers are shared |
| `Pwm`, `PrivateTimer` | timers with their counters | one action per register access, `tick` between any two |
| `BringUp` | PLLs, DDR, L2, memory test | `bring_step` is the position in the boot loader, `pll_step` in the PLL sequence |
| `BootImage`, `Boot` | parser; loader from flash to jump | the image is an array of words built from a description, the parser reads it back |
| `Gic` | controller, handler, devices | lines are level or edge; `owed` are events not yet served |
| `MemoryMap` | table, generator, update | the table by its regions; TLB and L1 for the sections the program uses |
| `*Proofs` | proofs of the module they extend | |
| `MC*` | instances for TLC | |

`MCEthernet`, `MCSystem`, `MCEmbassy`, `MCUart` and `MCPeripherals` hold several modules each. A variable `subject`
is chosen initially and says which of them runs; the others keep their initial values. Such a module therefore
explores each of its parts completely and none of their products, which would only multiply independent behaviours. One
fairness condition can serve one action of every part, since only one part is ever enabled.

`MCSpiBlocking`, `MCSpiAsync` and `MCTimeDriver` give modes to the violation runs. A *mode* is a record of
circumstances chosen at the start of a behaviour, and the code is correct only under some of them:

- SPI blocking: `shifter`, whether the controller holds a word outside of both FIFOs. If it does, transfers longer
  than the FIFO are out of the guarantee (`Fits`): `write` of `FIFO_DEPTH + 1` words leaves a threshold that cannot
  be reached (`spi/mod.rs:945`). `manual`, a manual start, which is not issued again once the FIFO ran empty.
- SPI asynchronous: `prompt`, a full receive FIFO is served before the next word is shifted; `equal`, both slices of
  a transfer have one length. If they have not, the handler panics when the read slice ends within a batch it reads, and
  no future of that peripheral becomes ready again (`PanicsIfShort` says that no other transfer does).
- UART transmitter: `prompt`, software acts within a character time; `rx`, receive interrupts of the same UART call the
  handler; `drops`, futures are dropped. A write is done when the FIFO ran empty, unless an "empty" was there when its
  interrupts were enabled (`DoneWhenSent`); that it ends needs prompt, no rx and no old "filled" (`WriteEnds`).
- GPIO: the Flex pin is an MIO pin, an EMIO pin or MIO 7; the handler sets a push-pull or an open-drain pin of its own,
  or changes the multiplexer of one.
- UART receiver: read by interrupt or blocking, with or without the receive timeout.
- Time driver: `lucky`, no wrap of the lower half during a read; `early`, a wake-up before `init`; `rearms`, writing
  the comparator withdraws an old event (nothing in the code does, and the reference manual is not in the repository).
- Ethernet receive: `may` names the disturbances: frames of several slots, a stack that writes, speculative fetches.

## 3. Runs

| Run | Parts and instance | What it shows |
|---|---|---|
| `ethernet` | TX ring: 3 slots, 7 frames. RX ring: 3 slots, 4 frames. Interrupt: one slot each way, 2 arrivals, 1 frame to send, 1 failure. Link: 100 and 1000 Mbit/s, 2 changes | FIFO refinement, ownership, buffer stability, all accepted is sent; frames delivered once, whole, nearly in order, slots returned; no lost wake-up; the setting read is configured (but for that of the construction, run `eth_renegotiation`), link recovers |
| `system` | caches: 2 lines; 5 boot images of at most 4 partitions; 3 sets of PLL targets; 2 interrupt lines, 5 calls; a section that changes; 2 of all constructors; 4 boards with 2 rate calls each; delays to 3 ticks; PWM periods of 2 and 5 | newest value survives; the jump goes to a whole application; clocks stable; table as generated and (but for the OCM) documented; events served; pins and registers serve their drivers; rates within the limits the divisors keep; delays last; periods whole |
| `embassy` | SPI: FIFO 2, transfers up to 5. Time: 2 tasks, lower half of 4 values, scale 2, times to 3 | words accounted for, transfers complete or, with a short read slice, panic; never early, alarms ring |
| `uart` | TX: FIFO 4, writes up to 9, all 8 modes, any old events. RX: FIFO 3, 6 bytes. Logger: ring 4, queue 2, buffer 2, 4 messages of 1 to 3. Six ratios of clock and baud rate | slice alive, own bytes, done when emptied; bytes in order, none stays; messages whole; a rate within the rounding of the nearest |
| `peripherals` | SPI: FIFO 3, calls up to 7. Flash: page 8, sector 8, size 24, five image sizes. SD: 2 blocks, 2 errors. I2C: FIFO 2, reads up to 5, lengths to 6. GPIO: MIO, EMIO and MIO 7, three uses of the handler's pin | own answers and termination; image flashed whole; right blocks; bytes moved; pins as asked |
| `cache_invalidate_range` (violation) | 2 lines | `cache.rs:73` invalidates only the first line in L1 |
| `spi_reset_hang` (violation) | FIFO 2 | after `write` and `reset_and_reconfigure` the next call never returns |
| `spi_async_transfer` (violation) | FIFO 2, transfers up to 3, equal slices | `asynch.rs:120`: answers of every batch but the first are not stored |
| `gtc_read_hang` (violation) | 2 tasks | `gtc.rs:65`: a wrap makes `read_timer` spin for ever |
| `gic_pl` (violation) | 16 PL interrupts | `gic.rs:427`: the sensitivity of another interrupt is set |
| `sd_multi_block` (violation) | 3 blocks | `sd/mod.rs:1041`: blocks of a run lie 512 apart on an SDHC card |
| `eth_renegotiation` (violation) | 2 speeds, 1 change | `eth/mod.rs:618`: `current_speed` is never updated, so a link that renegotiates to the setting of construction, when the MAC has another, stays at the other |

Why the bounds are enough. Rings and FIFOs of 2 or 3 have an empty, a partly filled and a full state, with a first, a
middle and a last element; the frame and length bounds let every index wrap at least twice and every transfer need the
first fill, a full refill and a partial one (7 = 2 * 3 + 1 for SPI, 9 = 2 * 4 + 1 for UART, 5 = 2 * 2 + 1; an I2C read
of 6 is longer than one hardware transfer of 5). Two cache lines tell the first from the others. In the time driver the
counter passes the end of its lower half several times, and its bound `MaxCount` lies far enough beyond `MaxAt` for
the last alarm, rounded up, to come. In the logger a message can fit, fill or exceed what is left of the ring, and exceed
the reader's buffer. The images of the flasher end in a word, a page, a sector and off each; the boot images have a
bitstream between partitions of one application, unknown partitions, empty ones, and ones that reach into the metadata
(`STAGING`) while it is read. Two SD errors hit any two commands of the initialisation, so that a retry fails too. Two
constructors of all pairs of drivers, any pins, meet in `DriverSetup`; the shared state of three is that of pairs. The
rate calls cover every clock source, targets that cannot be reached, and the second user of a shared clock; frequencies and
divisors have their real values and widths. `MaxFrames`, `MaxReceived`, `MaxArrivals`, `MaxSend`, `MaxFailures`,
`MaxChanges`, `MaxLen`, `MaxAt`, `MaxCount`, `MaxBytes`, `MaxMsgs`, `MaxCalls`, `IrqCalls`, `MaxRaised`, `MaxRateCalls`,
`MaxDelays`, `MaxPwmCalls`, `MaxErrors` and `MaxFaults` are the only counters that are cut off; the rest are sizes the
code has, scaled down. `CHECK_DEADLOCK FALSE` stands where a behaviour really may stop: a boot loader has
jumped or panicked, calls have reached their bound, or a driver is left in a loop whose condition never comes.

Fairness. Weak fairness of software: the core runs, an executor polls a task that was woken, and a loop goes on; a call
that the program need not make gets none. Weak fairness of hardware: the clock of a controller runs, the GEM sends what
it owns, a PLL that can lock does, a flash ends its write, a card that was asked to start does. Strong fairness only
where something else may take turns for ever: `on_interrupt` of `TimeDriver`, since a pending interrupt is taken as soon as
a critical section ends however often tasks enter one; its `tick`, since the counter counts also during the reads that luck
holds it back for; and `link_state` and `get_address` of `EthLink`, the poll of the network stack, which can only
run while the main task sleeps on the same executor. What the properties exclude in their premises (a refused address, a
failed DMA, a lost word) is named there and occurs in the runs.

## 4. Proofs

All for every value of the constants that the `ASSUME`s allow: at least one slot, a FIFO of at least one (UART: four)
elements, any set of modes. What a run checks of a part inside an `MC*` module is proved of that part as the `MC*` module
instantiates it (`Irq!Spec => []NoLostWakeup`), for which the proof module extends it.

- `EthTxRingProofs`. `TypeCorrect`, `OwnershipCorrect` (the hardware owns one run of slots, from the one the GEM
  reads to the one the driver fills), `OwnedBuffersAreStable`, `RingImplementsFifo` and `ReportsAreNew`.
  `HardwareOwnsPending` is not inductive: `RingInv` adds that the wrap bit is on the last slot only (otherwise the GEM
  leaves the list), that the slot of a held token is free, that all buffers but the one being filled are coherent with
  DDR, that the pending slots hold consecutive frames and that the wire carries them in order. In the refinement
  `consume_prepare` is the FIFO's `Accept`, `GemFetch` its `Transmit`, and every other action a stutter. `ReportsAreNew`
  needs where `busy_idx` stands between the frames completed and accepted, also after a ring that filled up.
- `EthernetProofs`. *Interrupt* (`WakeupNotLost`): whatever a task that no longer looks could do is covered by a waker
  that was or will be called, by the copy the handler works on, or by a status bit with its enable (`WorkCovered`); a
  waker registered after the look is not enough, and the order of the code is what keeps the cover. *Link*
  (`LinkSettingCurrent`): what the task read of the PHY in two accesses is current, or the latched loss is still to be
  read; and the MAC is configured for what was read if that differs from the setting of the construction or the link
  never changed. That is all the code does: it compares with the setting of the construction for ever (run
  `eth_renegotiation`). *Receive ring* (`StackGetsFrames`): `RxInv` says for each slot who holds it and which frame is
  in it, which of its lines are in the cache or DDR, and where each frame stands in the order of arrival. That less
  than a ring of frames overtakes a frame follows by counting: those that do sit in different slots.
- `SystemProofs`. *Delays* (`DelaysAreNotShort`): one owner for a taken timer, and an event flag that is that of the
  chunk under way, whatever flag was left set before. *PWM* (`PeriodsAreWhole`): while the counter runs, its registers
  are those of one call and the level so far is what they ask for. *Bring-up* (`ClocksAreStable`, `BootFindsUsable`):
  how far each PLL is configured, and what main has done at each of its steps; a lock bit is that of the present
  configuration once the PLL was reset with it. *Driver set-up* (`ReadyStaysConfigured`, `PinsServe`): programs of any
  number of constructors in any order. `PinsInv` says that the pins a driver has are no longer to be had, so that no
  later constructor routes them, and a program that has not taken its pins has no driver with pins; one lemma per
  family of pins (`SpiRouted`, `SdioRouted`, ...) shows that its constructor sets on each pin the multiplexer value of
  the signal it was given for. *MMU table* (`SectionsAreRight`), for any sections a program accesses and changes,
  where the run takes one: what the generator has written so far and the table that is checked in both map their first
  *n* sections as `AttrsOf` says (`Mapped`), so they are equal, and of the documented kind in every megabyte but the
  last, the OCM (section 5); what the TLB remembers is of the present table but between a change and the maintenance
  that follows it (`Remembered`). *Interrupts* (`EventsAreKept`), the safety half of `Served`: an event that no
  handler has seen is on its line, latched, or the one acknowledged, and the registers say what was asked for; that
  supposes `PlIds \subseteq 0 .. 2`, the programmable-logic interrupts whose configuration field is their own (run
  `gic_pl` shows that the others are not).
- `EmbassyProofs`. *Time driver*: `WokenNotEarly` and `AlarmIsSet`, for any width of the counter's halves, scale and
  number of tasks. The value put together from two halves may be old, but is never ahead of the counter
  (`ReadNotAhead`); `set_alarm` is asked for the earliest time, and rounding adds at most two ticks. That a minimum of
  the queue exists is by well-founded induction. *Asynchronous SPI*: `TypeCorrect`, `WordsCounted`, `SlicesOutlived`,
  `ReadyWhenComplete`, `PanicsOnlyIfShort`. The invariant: interrupts are enabled only for an armed, unfinished
  transfer (`Masked`); words written and not read are in the FIFOs, or fewer after the controller dropped some
  (`Counts`), and such a transfer never finishes, so the next one begins with empty FIFOs; what is stored is a prefix
  of the read slice (`Prefix`), for a `transfer` because it comes in one batch (`WholeBatch`). After a panic the
  counts stay as they were, but the controller goes on.
- `UartProofs`. Transmitter: `TypeCorrect` (the unchecked FIFO writes never meet a full FIFO), `SlicesOutlived`,
  `NoForeignBytes`, `DoneWhenEmptied`. The invariant: interrupts are enabled only while the future is alive (`Masked`), and
  bytes in the FIFO plus bytes taken are the progress (`Counts`), with the first fill as a phase of its own; an
  empty-FIFO event that is not one of `left` says that the FIFO is empty until a refill (`EmptyIsEmpty`), in every mode. Receiver:
  `BytesStayInOrder`. An event in the copied status stands for as many bytes in the FIFO as are read unchecked
  (`EnoughBytes`); what was delivered, what the handler holds and what is in the FIFO, put together, is in order.
  Logger: `FramesStayIntact`, the safety half of `MessagesWritten`. As long as nothing was dropped, the ring holds the
  messages from some *m* on, each at an offset that is the sum of the lengths before it (`RingHolds`), and the queue
  their lengths (`QueueHolds`); *m* lags behind the queue by one while the reader holds a length (`ReaderAt`).
  Baud rate (`NearRateFound`, for every ratio of clock and rate): what the search has found is at least as near as all
  it has tried (`Found`; not smaller is transitive for errors as fractions, `NotSmallerChain`), and for each `bdiv` it
  tries the divisor that is off by the fewest ticks, which is at least as near as the one below the quotient, and as near
  as the one above up to the ratio of the two. It need not be the nearest (section 5).
- `PeripheralsProofs`. *Blocking SPI*, in every mode: `TypeCorrect`, `NothingOverflows`,
  `CallsReadTheirOwn`, `TriggersReachable`, `TransactionsComplete`. The invariant counts the words on their way
  (`written - read_idx = tx + rx`, at most the depth) and carries what the copied status still says when the driver
  acts on it, since the controller has moved words since (`InPump`). What concerns a controller that
  holds a word outside of its FIFOs is supposed in the properties (`Fits`: such a call is not longer than a FIFO), not in
  the modes. *I2C* (`CallsMoveWhole`): bytes sent, in the shifter and
  in the FIFO are those written, bytes read and in the FIFO those asked for and not outstanding; a controller that
  raised a bit is at rest (`Quiet`), so a call that failed leaves nothing for the next. All as long as no write has let
  the FIFO run empty, which loses the bus unnoticed (section 5). *SD card* (`BlocksAreRight`): a data bit of the status stands
  for the block the call is at, since every command clears the status and none is sent while the card has a block to
  move (`BitsAreOfThisBlock`); what was read or landed so far are the first blocks of the run (`MovedSoFar`). *Flasher*
  (`FlashHoldsImage`): what lies below the address the flasher is at is the image, since the address moves on only when
  what was read back is the image. It rests on `ReadsWhatIsHeld`: a read is a recursive function over chunks, each of
  them one over the words of a transfer, and returns what the flash holds. *Pins* (`PinsDoAsAsked`): a call is a plan of
  register accesses; what a register of the Flex pin is not yet, a step left of the plan makes it (`RegistersCome`,
  `LevelComes`, `MuxComes`), and every write comes after a read that saw the handler's bit as it still is
  (`WritesRight`), unless the interrupt came between them. For any kinds of pins and any use of the handler's; what the
  property leaves out, a change that an interrupt came into and a MIO 7 that was never configured, the code gets wrong
  (section 5).
- `BootProofs`. `LoaderJumpsToWhole`, for any number of image headers, partitions and words. First the layout of an
  image: where each word of boot header, header table, image headers, partition headers and data is (`MetadataLaidOut`),
  and that the parser reads there what was laid out (`HeaderRead`, `PartitionRead`). Then the loader's invariant `LoadInv`:
  the header that is checked is that of the flash, the metadata stay in the staging area as long as they are read (only
  the last partition may reach into them), and each partition the iterators have passed is where it belongs,
  the lowest of them being where the jump will go (`UpTo`). The assumptions on an image, `Layable` and room in DDR for
  the metadata and the partitions, are what the vendor's tool writes for a board; the run checks that its images satisfy
  them.
- `CacheMaintenanceProofs`. `TypeCorrect`, `NewestSurvives`, `FlushCorrect`, `FirstLineCorrect`, for any number of
  lines, any values and ranges of any length. The invariant `Achieved(f, p, c, v)` says what loop *p* of function *f*
  has achieved for a line it has passed, in a form no eviction and no speculative fetch can undo (`AchievedIsStable`).

The proof of `TransfersRight` (SD) corrected the model's claim: with five losses a failed re-initialization can
leave a started SDHC card that then misses CMD0 and three CMD8, passes for SD1, and is given byte addresses. The
property therefore supposes `KnowsCard`, and `InitializedRight` says how many losses that takes; two, as in the run, are
not enough. The proof itself holds for any number of losses.

Recursive functions. The library's induction theorems take an operator as a parameter, which the provers cannot
instantiate. What a recursive function returns is shown without them: a function that satisfies the equation
exists (a least number up to which there is none leads to a contradiction, `LeastExists`), so the CHOOSE behind the
definition satisfies it, and where it were not what is claimed there would be a least such argument.

Only model-checked: every liveness property (liveness under fairness and ENABLED are beyond the prover; of
`WriteCompletes`, `MessagesWritten` and `Served` the safety half is proved), `InitializedRight`, and of the invariants
`RatesRight`, which compares each of seven drivers' divisors with a search of its own, over the frequencies of real boards.
`SlicesAlive` of `SpiAsync` is proved (`SlicesOutlived`) without a run of its own. No module uses a RECURSIVE operator.

## 5. Where code and documentation disagree

With a run: the seven violation runs above. Met while modelling, without a run of their own:

Ethernet
- `eth/tx_descr.rs:191` describes `Complete` as no busy slot being left; with a full ring whose indices are equal the code
  (287) returns it with every slot busy. Completions of a ring that filled up are therefore skipped, never doubled.
- `eth/rx_descr.rs:323` promises to handle frames of several slots; slots of such a frame can leak, and a whole frame
  between two fragments can be given back unread. The models admit long frames, and the properties leave out those frames only.
- `eth/smoltcp.rs:55`: the slot is given back before its lines are cleaned, so what the stack wrote into the buffer may
  later overwrite a frame; stale lines after `cache.rs:73` would also explain the duplicated packets the comments mention.
- A transmit error wakes nobody who waits for a transmit slot. A link that is down and up again before the task looks is
  never reported to the stack, and the example does not look at the link while it waits for its address.
- `Ethernet::reset` loses the MAC address and the DMA configuration.
- `calculate_gem_1_ref_clock` reads the register of GEM 0 (`clocks/mod.rs:586`, documentation 576). The MDIO pins of
  Ethernet 1 get the multiplexer setting of Ethernet 0.

SPI, I2C, UART
- `spi/mod.rs:951`: `transfer` with an empty read slice sends nothing. `reconfigure` without a reset sets the threshold to
  1 while answers are outstanding. `ChipSelect::Slave2` is coded so that the decoder beside it reads slave 0
  (`spi/mod.rs:349`). `sclk()` is stale after the reference clock or the inner configuration changes.
- I2C: an arbitration loss in a read, and a read of no byte, never end; a write longer than the FIFO with a stop does
  not set hold, so it is cut off if the FIFO runs empty; hold stays set after an error; a refused address is reported
  as a refused byte; pins of the other controller are accepted. With divisors below 12 the rate nearest to the
  calculation frequency can exceed 400 kHz (a CPU_1X of 54 MHz gives 410).
- `uart/tx_async.rs:126` enables interrupts on top of old events, of a blocking write before `TxAsync::new` say, as in
  `logger-non-blocking.rs:66`: a short write is then reported done (50, "Transfer is done") at once, while its bytes are
  still to be sent; `DoneWhenSent` without its condition on `left` is violated. Line 76 clears events it has not seen.
- `spi/asynch.rs:123`: a read slice shorter than a batch panics the interrupt handler; the `else` there was to discard the rest.
- The baud search, for the "smallest error" (`uart/mod.rs:274`), leaves out `bdiv` 255 and takes for the others the
  divisor nearest to the quotient, which just below the middle of two is not that of the nearer rate; it falls back to
  `cd` 1, `bdiv` 0 with `Ok`. `calculate_viable_configs` compares a percentage with 0.005. `TxPin1`/`RxPin1` carry the
  index of UART 0.

Storage
- `zedboard-bsp/src/qspi_spansion.rs:563`: `program` counts the answer to its command word as data, so it may raise the
  chip select one word early. The writers of the configuration registers panic on a nested borrow; `new` does not wait
  for a write in progress; the last sector cannot be erased. After a power loss a valid header may precede a partial image.
- `sd/mod.rs:1139`: `BlockDevice::read` reads the first block again for each block. Responses to ACMD41 and ACMD6 are
  partly ignored, an error of CMD8 reports the status of CMD0. MIO 15 is taken for data 2 (`sd/pins.rs:94`).
- `configure_clock` of SD and `initialize` of QSPI leave the rates in `Clocks` as they were; both SD controllers divide one
  reference clock. `calculate_with_loopback` does not check the ratio its documentation names (`qspi/mod.rs:201`), and
  `calculate` runs faster than the target from 65 times below the reference clock on (slower than needed from 33 to 64).

System
- `cache.rs:134` says the cleaning function also invalidates; it only cleans.
- `zynq7000-embassy/src/lib.rs`: the sticky event flag is never cleared, so an alarm's interrupt repeats until its time;
  a wake-up scheduled before `init` loops for ever in its critical section.
- `log.rs:216`: an overflow of ring or queue is silent and shifts every later frame.
- `enable_amba_peripheral_clock(Spi0)` opens the clock gate of SPI 1 (`lib.rs:211`; disabling closes that one, 244), so
  SPI 0 is set up with its registers unclocked unless a loader opened the gate.
- GPIO: a new Flex pin on MIO 7 or 8 is configured as an output and records the mode of a floating input
  (`gpio/mod.rs:108`), so setting it does nothing; push-pull enables the driver before it sets the level; a handler that uses
  open drain loses its update when it comes into one of the code it interrupts (`gpio/ll.rs:195`), and one that uses the SLCR
  locks it under that code (`slcr.rs:57`), whose write is ignored.
- The OCM is documented as write-back (`zynq7000-rt/src/mmu.rs:17`) and mapped write-through (160); `update` of a section
  does not clean L2.
- DDR: the bank, column and row maps are never written (`ddr/ll.rs:280`); the impedance divisors always come out as
  63; the memory test goes through the caches; the rates of the memory are read before its PLL is set.
- TTC: a waveform pin is not compared with the TTC or the channel. The PAC's comment on the waveform polarity
  (`zynq7000/src/ttc.rs:48`) is the opposite of what the HAL assumes. The `cfg` attributes of the small package are on
  the wrong pins (MIO 28 to 31 instead of 16 to 19) and missing in `uart`, so that only the full package is modelled.
- Pin routes a loader left behind are not cleared when a peripheral is given other pins.

## 6. Not modelled, and why

- The layouts of the PAC (macros without control flow), the ps7init extractor (text to source, once), defmt and the
  simple examples: no state worth a model.
- Assembly of the start code: mode switches and stack pointers, visible to no other part.
- Values of generated registers (DDR timing, QSPI linear mode, DMA configuration): there is nothing in the repository to
  check them against.
- Clocks of CAN, trace, PCAP, SMC and the PL: no driver uses them.
- Blocking UART write, MDIO frames, GTC helpers, I2C reset: loops on one status bit.
- The parser's decoding of CSD, CID and image names: text.
- CPU 1: the start code keeps it in reset.

What could come next. Proofs: the divisor searches of `ClockRates`. Models: the logger
together with the asynchronous UART; the two rings with their interrupt instead of counts. A violation run gives way to a
note in section 5 once the code it describes is fixed.
