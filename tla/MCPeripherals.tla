--------------------------- MODULE MCPeripherals ---------------------------
(* Peripherals and what is connected to them: blocking SPI, the QSPI flash *)
(* with the flasher, an SD card, an I2C slave, and pins.  One of them runs *)
(* in a behaviour while the others stay as they are initially.             *)
EXTENDS SpiBlocking

CONSTANTS
  WORD, QSPI_FIFO_DEPTH, PAGE_SIZE, SECTOR_SIZE, RECOMMENDED_PROGRAM_PAGE_SIZE, FlashSize, Sizes,
  BLOCK_LEN, CardBlocks, MaxRun, MaxErrors,                    \* SD card
  I2C_FIFO_DEPTH, MAX_READ_SIZE, Lengths, MaxCalls, MaxFaults, \* I2C
  Kinds, HandlerModes                                          \* pins

VARIABLES
  subject,   \* what runs: "spi", "qspi", "sd", "i2c" or "gpio"
  mem, flash, qspi_tx, qspi_rx, shifted, step, current_addr, boot_bin_size, read_index,
  write_required,
  card, block, host, sd_step, sd_info, found, responded_to_cmd8, tries, sd_call, buffer, before,
  result, errors, swallowed,
  i2c_step, i2c_call, hold, fifo, size, isr, bus, i2c_shift, i2c_written, first_write_cycle, chunk,
  sent, read, outcome, ran_empty, faults,
  kind, handler_mode, bank, data_out, mio, slcr_locked, pin_mode, steps, copy, pin_call, level,
  overtaken

Flash == INSTANCE QspiFlash WITH FIFO_DEPTH <- QSPI_FIFO_DEPTH, tx <- qspi_tx, rx <- qspi_rx
Sd == INSTANCE SdCard WITH call <- sd_call
Bus == INSTANCE I2c WITH shift <- i2c_shift, written <- i2c_written
Pins == INSTANCE Gpio WITH mode <- pin_mode, call <- pin_call

ASSUME MCPeripheralsAssumption ==
  Flash!QspiFlashAssumption /\ Sd!SdCardAssumption /\ Bus!I2cAssumption

flashVars == <<mem, flash, qspi_tx, qspi_rx, shifted, step, current_addr, boot_bin_size,
               read_index, write_required>>
cardVars == <<card, block, host, sd_step, sd_info, found, responded_to_cmd8, tries, sd_call, buffer,
              before, result, errors, swallowed>>
busVars == <<i2c_step, i2c_call, hold, fifo, size, isr, bus, i2c_shift, i2c_written,
             first_write_cycle, chunk, sent, read, outcome, ran_empty, faults>>
pinVars == <<kind, handler_mode, bank, data_out, mio, slcr_locked, pin_mode, steps, copy, pin_call,
             level, overtaken>>
mcVars == <<subject, vars, flashVars, cardVars, busVars, pinVars>>

SpiDoes(A) == subject = "spi" /\ A /\ UNCHANGED <<subject, flashVars, cardVars, busVars, pinVars>>
FlashDoes(A) == subject = "qspi" /\ A /\ UNCHANGED <<subject, vars, cardVars, busVars, pinVars>>
CardDoes(A) == subject = "sd" /\ A /\ UNCHANGED <<subject, vars, flashVars, busVars, pinVars>>
BusDoes(A) == subject = "i2c" /\ A /\ UNCHANGED <<subject, vars, flashVars, cardVars, pinVars>>
PinsDo(A) == subject = "gpio" /\ A /\ UNCHANGED <<subject, vars, flashVars, cardVars, busVars>>

(* What a part that does not run starts from.                              *)
One(set) == CHOOSE x \in set : TRUE

MCInit ==
  /\ subject \in {"spi", "qspi", "sd", "i2c", "gpio"}
  /\ Init /\ Flash!QspiInit /\ Sd!SdInit /\ Bus!I2cInit /\ Pins!GpioInit
  /\ subject # "spi" => mode = One(Modes)
  /\ subject # "qspi" => boot_bin_size = One(Sizes) /\ ~ write_required /\ ~ flash.protected
  /\ subject # "sd" => card.type = One(Sd!CardType)
  /\ subject # "gpio" => /\ kind = One(Kinds) /\ handler_mode = One(HandlerModes)
                         /\ mio["flex"] = mio["handler"]

MCNext ==
  \/ SpiDoes(Next) \/ FlashDoes(Flash!QspiNext) \/ CardDoes(Sd!SdNext) \/ BusDoes(Bus!I2cNext)
  \/ PinsDo(Pins!GpioNext)

(* The fairness of the parts that have some.  Only one part runs, so one   *)
(* condition can stand for one of each.                                    *)
MCSpec ==
  /\ MCInit /\ [][MCNext]_mcVars
  /\ WF_mcVars(\/ SpiDoes(Driver) \/ FlashDoes(Flash!Flasher)
               \/ CardDoes(Sd!Driver) \/ BusDoes(Bus!Master))
  /\ WF_mcVars(\/ SpiDoes(Controller) \/ FlashDoes(Flash!Device)
               \/ CardDoes(Sd!Card) \/ BusDoes(Bus!Controller))

-----------------------------------------------------------------------------
(* Ways of using the SPI driver.                                           *)
DriverModes ==
  {[max_len |-> 7, shifter |-> 0, manual |-> FALSE, resets |-> FALSE],
   [max_len |-> 3, shifter |-> 1, manual |-> FALSE, resets |-> FALSE],
   [max_len |-> 5, shifter |-> 1, manual |-> TRUE, resets |-> FALSE],
   [max_len |-> 4, shifter |-> 0, manual |-> TRUE, resets |-> TRUE]}

-----------------------------------------------------------------------------
(* What the modules state, of the part that runs.                          *)

(* A boot image that is reported flashed is in the flash.                  *)
FlashedWhole == Flash!FlashedWhole
(* A transfer with an SD card that succeeds has moved the right blocks.    *)
TransfersRight == Sd!TransfersRight
(* Calls of the SD and I2C drivers end, the former after the card has been *)
(* set up, and the flasher succeeds with an image that fits, if nothing    *)
(* fails.                                                                  *)
DriversEnd ==
  /\ Sd!InitializedRight /\ (subject = "sd" => Sd!DriverEnds)
  /\ Bus!CallEnds
  /\ subject = "qspi" => Flash!FlasherSucceeds
(* A call of the I2C driver that succeeds has moved all its bytes.         *)
MovesWhole == Bus!MovesWhole
(* Pins show what they were asked for, until an interrupt comes into a     *)
(* change of a register that its handler changes as well.                  *)
PinsAsAsked == Pins!PinsAsAsked
=============================================================================
