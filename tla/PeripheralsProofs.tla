-------------------------- MODULE PeripheralsProofs --------------------------
(***************************************************************************)
(* Proofs about the drivers of peripherals.                                *)
(*                                                                         *)
(* The blocking SPI driver, in every mode: a count of the words on their   *)
(* way.  The driver adds one only when the copy of the status register it  *)
(* polled showed room.  If the controller holds no word outside of its     *)
(* FIFOs, no word is added that could push the receive FIFO over its       *)
(* depth; if it holds one, the words of the call must fit.                 *)
(*                                                                         *)
(* The I2C driver, for any lengths, calls and faults: what is on the way   *)
(* are the bytes of this call in order, because the controller is at rest  *)
(* when a call begins and once it has raised a status bit.                 *)
(*                                                                         *)
(* The SD card driver, for cards of any size, runs of any length and any   *)
(* number of losses: a status bit of data stands for the block the call is *)
(* at, because the driver clears the status with every command and sends   *)
(* none while the card has a block to move.                                *)
(*                                                                         *)
(* The flasher of the QSPI flash, for images and flashes of any size: what *)
(* a read returns, whose words and chunks are recursive functions of the   *)
(* model, and from it that what lies below the address the flasher is at   *)
(* is the image.  That a recursive function is what its equation says is   *)
(* shown with one that satisfies the equation, and that every one that     *)
(* does is equal to it by a least argument at which it is not.             *)
(*                                                                         *)
(* The pins of a GPIO bank, of any kind and with any use of the handler's: *)
(* what a register of the Flex pin is not yet, a step that is left of the  *)
(* call makes it, and every write comes after a read that saw the          *)
(* handler's bit as it still is, or the interrupt came between them.       *)
(***************************************************************************)
EXTENDS MCPeripherals, SequenceTheorems, WellFoundedInduction, TLAPS

-----------------------------------------------------------------------------
(* The blocking SPI driver.                                                *)

(* The words between the FIFOs and the counters of the call agree, except  *)
(* for those the controller has dropped.                                   *)
InCall ==
  pc \in {"fill", "poll", "pump"} =>
    /\ op \in Op
    /\ in_flight <= written - read_idx /\ written <= total /\ total <= mode.max_len
    /\ rx_trig = 1 /\ ~ outstanding_rx

InFill ==
  pc = "fill" =>
    /\ read_idx = 0 /\ written <= prefill /\ prefill <= total
    /\ op = "write" => prefill >= 1

(* A call that has to flush first has not begun to write.                  *)
InFlush ==
  pc = "flush" /\ op # "flush" =>
    /\ op \in Op
    /\ written = 0 /\ read_idx = 0 /\ prefill <= total /\ total <= mode.max_len
    /\ op = "write" => prefill >= 1

(* write() never reads the last word: one remains for flush.               *)
InWrite == pc \in {"poll", "pump"} /\ op = "write" => written - read_idx >= 1

(* What the copied status still says when the driver acts on it: the       *)
(* controller has only taken from one FIFO and added to the other.         *)
InPump ==
  pc = "pump" =>
    /\ status.rx_not_empty => rx >= 1
    /\ ~ status.tx_full => tx < FIFO_DEPTH
    /\ status.tx_full /\ status.rx_not_empty => written - read_idx >= 2
    /\ op = "write" => written < total

BetweenCalls ==
  pc \in {"between", "flush"} =>
    IF outstanding_rx THEN in_flight <= rx_trig ELSE in_flight = 0 /\ pc = "between"

Counts == TypeOK /\ rx_trig \in Nat \ {0} /\ InCall /\ InFill /\ InFlush /\ InWrite /\ InPump /\ BetweenCalls

(* Where the words on their way fit the receive FIFO none is dropped.      *)
NoneDropped ==
  /\ ~ rx_ovr /\ rx_trig <= FIFO_DEPTH /\ in_flight <= FIFO_DEPTH
  /\ pc \in {"fill", "poll", "pump"} => in_flight = written - read_idx
  /\ pc = "pump" /\ mode.shifter = 0 =>
       /\ status.tx_full => ~ status.rx_not_empty
       /\ ~ status.tx_full /\ ~ status.rx_not_empty => in_flight < FIFO_DEPTH
  /\ pc \in {"between", "flush"} /\ outstanding_rx => in_flight \in {0, rx_trig}

Inv == Counts /\ (Fits => NoneDropped)

LEMMA AtMostDepth ==
  ASSUME NEW n \in Nat
  PROVE  at_most_depth(n) \in 0 .. FIFO_DEPTH /\ at_most_depth(n) <= n
         /\ (n >= 1 => at_most_depth(n) >= 1)
  BY SpiAssumption DEF at_most_depth

LEMMA ModeFacts ==
  ASSUME mode \in Modes
  PROVE  /\ mode.shifter \in {0, 1} /\ mode.max_len \in 1 .. MaxLen /\ mode.manual \in BOOLEAN
         /\ FIFO_DEPTH \in Nat \ {0} /\ MaxLen \in Nat \ {0}
  BY SpiAssumption

LEMMA InvInit == Init => Inv
<1> SUFFICES ASSUME Init PROVE Inv
  OBVIOUS
<1>0. mode \in Modes /\ mode.shifter \in {0, 1} /\ mode.manual \in BOOLEAN
  BY ModeFacts DEF Init
<1>1. /\ running \in BOOLEAN /\ rx_ovr \in BOOLEAN
      /\ outstanding_rx \in BOOLEAN /\ cs \in BOOLEAN
      /\ status \in [rx_not_empty : BOOLEAN, tx_full : BOOLEAN]
      /\ ~ rx_ovr /\ ~ outstanding_rx
  BY DEF Init
<1>2. /\ tx = 0 /\ shift = 0 /\ rx = 0 /\ rx_trig = 1 /\ pc = "between" /\ op = "none"
      /\ total = 0 /\ prefill = 0 /\ written = 0 /\ read_idx = 0
  BY DEF Init
<1> QED
  BY <1>0, <1>1, <1>2, SpiAssumption
  DEF Inv, Counts, NoneDropped, TypeOK, InCall, InFill, InFlush, InWrite, InPump, BetweenCalls, in_flight

(* Every step preserves the counts, one step of the proof for each action. *)
LEMMA CountsStep == ASSUME Counts, [Next]_vars PROVE Counts'
<1>0. /\ mode' = mode /\ mode.shifter \in {0, 1} /\ mode.max_len \in 1 .. MaxLen /\ mode.manual \in BOOLEAN
      /\ FIFO_DEPTH \in Nat \ {0} /\ MaxLen \in Nat \ {0}
  <2>1. mode' = mode
    BY Zenon
    DEF Next, Call, Driver, Controller, begin, select_hw_cs, begin_flush, no_hw_cs,
        reset_and_reconfigure, flush, initial_fifo_fill, issue_manual_start, read_isr, pump,
        return, spi_load, spi_word, vars
  <2> QED BY <2>1, ModeFacts DEF Counts, TypeOK
<1> USE <1>0 DEF Counts, TypeOK, InCall, InFill, InFlush, InWrite, InPump, BetweenCalls, in_flight
<1>1. ASSUME NEW o \in Op, NEW len \in 1 .. mode.max_len, NEW write_len \in 0 .. len,
             begin(o, len, write_len)
      PROVE  Counts'
  <2>1. /\ write_len \in Nat /\ len \in Nat
        /\ prefill' \in 0 .. FIFO_DEPTH /\ prefill' <= len
        /\ o = "write" => prefill' >= 1
    BY <1>1, AtMostDepth DEF begin
  <2>2. CASE outstanding_rx
    BY <1>1, <2>1, <2>2 DEF begin, flush_needed, fifoVars, Op
  <2>3. CASE ~ outstanding_rx
    BY <1>1, <2>1, <2>3 DEF begin, flush_needed, fifoVars, Op
  <2> QED BY <2>2, <2>3
<1>2. CASE select_hw_cs
  BY <1>2 DEF select_hw_cs, fifoVars, callVars
<1>3. CASE begin_flush
  BY <1>3 DEF begin_flush, flush_needed, fifoVars
<1>4. CASE no_hw_cs
  BY <1>4 DEF no_hw_cs, flush_needed, fifoVars, callVars
<1>5. CASE reset_and_reconfigure
  <2>1. /\ running' \in BOOLEAN /\ rx_ovr' \in BOOLEAN
        /\ UNCHANGED outstanding_rx /\ UNCHANGED cs
    BY <1>5 DEF reset_and_reconfigure
  <2>2. /\ tx' = 0 /\ shift' = 0 /\ rx' = 0 /\ rx_trig' = 1 /\ pc = "between"
        /\ UNCHANGED <<pc, op, total, prefill, written, read_idx, status>>
    BY <1>5 DEF reset_and_reconfigure, callVars
  <2> QED
    BY <2>1, <2>2
<1>6. CASE flush
  <2>1. tx = 0 /\ shift = 0 /\ rx = rx_trig /\ outstanding_rx
    BY <1>6 DEF flush
  <2>2. tx' = 0 /\ shift' = 0 /\ rx' = 0 /\ rx_trig' = 1 /\ outstanding_rx' = FALSE
    BY <1>6, <2>1 DEF flush
  <2>3. /\ pc = "flush" /\ pc' # "pump" /\ pc' # "poll"
        /\ UNCHANGED <<rx_ovr, running, cs, total, prefill, written, read_idx, status>>
        /\ ~ outstanding_rx' /\ outstanding_rx' \in BOOLEAN
    BY <1>6 DEF flush
  <2>4. CASE op = "flush" /\ pc' = "between" /\ op' = "none"
    BY <2>2, <2>3, <2>4
  <2>5. CASE op # "flush" /\ pc' = "fill" /\ op' = op
    BY <2>2, <2>3, <2>5
  <2> QED BY <1>6, <2>4, <2>5 DEF flush
<1>7. CASE initial_fifo_fill
  BY <1>7 DEF initial_fifo_fill
<1>8. CASE issue_manual_start
  <2>1. op = "write" => written - read_idx >= 1
    BY <1>8 DEF issue_manual_start
  <2> QED
    BY <1>8, <2>1 DEF issue_manual_start, callVars
<1>9. CASE read_isr
  <2>1. /\ status'.rx_not_empty <=> rx >= rx_trig
        /\ status'.tx_full <=> tx = FIFO_DEPTH
        /\ status' \in [rx_not_empty : BOOLEAN, tx_full : BOOLEAN]
    <3>1. status' = [rx_not_empty |-> rx >= rx_trig, tx_full |-> tx = FIFO_DEPTH]
      BY <1>9 DEF read_isr
    <3> HIDE DEF Counts, TypeOK, InCall, InFill, InFlush, InWrite, InPump, BetweenCalls
    <3>2. (rx >= rx_trig) \in BOOLEAN /\ (tx = FIFO_DEPTH) \in BOOLEAN
      OBVIOUS
    <3> QED BY <3>1, <3>2, Zenon
  <2>2. op = "write" => written < total
    BY <1>9 DEF read_isr, finished
  <2>3. /\ UNCHANGED <<tx, shift, rx, rx_ovr, running, rx_trig, outstanding_rx, cs>>
        /\ UNCHANGED <<op, total, prefill, written, read_idx>>
        /\ pc = "poll" /\ pc' = "pump"
    BY <1>9 DEF read_isr, fifoVars, callVars
  <2>4. Counts
    OBVIOUS
  <2> HIDE DEF Counts
  <2> QED
    BY <2>1, <2>2, <2>3, <2>4 DEF Counts
<1>10. CASE pump
  <2>1. /\ reads \in {0, 1} /\ writes \in {0, 1}
        /\ reads = 1 => status.rx_not_empty /\ read_idx < total
        /\ writes = 1 => ~ status.tx_full /\ written < total
        /\ op = "write" /\ reads = 1 /\ writes = 0 => status.tx_full
    BY <1>10 DEF pump, reads, writes
  <2>2. /\ pc = "pump" /\ pc' = "poll" /\ rx' = rx - reads /\ read_idx' = read_idx + reads
        /\ tx' = tx + writes /\ written' = written + writes
        /\ UNCHANGED <<shift, rx_ovr, running, rx_trig, outstanding_rx, cs, op, total, prefill, status>>
    BY <1>10 DEF pump
  <2>3. PICK r \in {0, 1}, w \in {0, 1} : r = reads /\ w = writes
    BY <2>1
  <2> QED
    BY <2>1, <2>2, <2>3
<1>11. CASE return
  <2>1. CASE op = "write"
    BY <1>11, <2>1 DEF return, finished, fifoVars
  <2>2. CASE op # "write"
    BY <1>11, <2>2 DEF return, finished, fifoVars
  <2> QED BY <2>1, <2>2
<1>12. CASE spi_load
  BY <1>12 DEF spi_load, callVars
<1>13. CASE spi_word
  <2>1. /\ running' \in BOOLEAN /\ rx_ovr' \in BOOLEAN
        /\ UNCHANGED <<mode, rx_trig, outstanding_rx, cs, pc, op, total, prefill, written, read_idx, status>>
    <3>1. running' \in BOOLEAN
      BY <1>13, Zenon DEF spi_word
    <3>2. rx_ovr' \in BOOLEAN
      BY <1>13 DEF spi_word
    <3> QED BY <1>13, <3>1, <3>2 DEF spi_word, callVars
  <2>2. /\ tx' + shift' + 1 = tx + shift /\ tx' \in 0 .. tx /\ shift' \in 0 .. mode.shifter
        /\ rx' \in rx .. rx + 1 /\ rx' <= FIFO_DEPTH
    BY <1>13 DEF spi_word
  <2>3. TypeOK'
    BY <2>1, <2>2
  <2>4. /\ tx' + shift' + rx' <= tx + shift + rx /\ tx' + shift' + rx' \in Nat
        /\ tx + shift + rx > 0 /\ tx' <= tx /\ rx' >= rx
    <3>1. tx \in Nat /\ shift \in Nat /\ rx \in Nat /\ tx' \in Nat /\ shift' \in Nat /\ rx' \in Nat
      BY <2>2
    <3>2. rx' <= rx + 1 /\ rx <= rx' /\ tx' <= tx
      BY <2>2
    <3>3. tx' + shift' + 1 = tx + shift
      BY <2>2
    <3>4. ASSUME NEW a \in Nat, NEW b \in Nat, NEW c \in Nat, NEW d \in Nat, NEW e \in Nat, NEW f \in Nat,
                 d + e + 1 = a + b, f <= c + 1, c <= f
          PROVE  d + e + f <= a + b + c /\ d + e + f \in Nat /\ a + b + c > 0
      BY ONLY <3>4
    <3> QED BY <3>1, <3>2, <3>3, <3>4
  <2>5. InCall' /\ InFill' /\ InFlush' /\ InWrite'
    BY <2>1, <2>4
  <2>6. InPump'
    <3>1. tx' \in Nat /\ rx' \in Nat /\ tx \in Nat /\ rx \in Nat
      BY <2>2
    <3> QED BY <2>1, <2>4, <3>1
  <2>7. BetweenCalls'
    BY <2>1, <2>4
  <2> QED
    BY <2>1, <2>3, <2>5, <2>6, <2>7
<1>14. CASE UNCHANGED vars
  BY <1>14 DEF vars
<1> QED
  BY <1>1, <1>2, <1>3, <1>4, <1>5, <1>6, <1>7, <1>8, <1>9, <1>10, <1>11, <1>12, <1>13, <1>14
  DEF Next, Call, Driver, Controller

(* Where they fit, no step drops a word.                                   *)
LEMMA DropStep == ASSUME Counts, Fits, NoneDropped, [Next]_vars PROVE NoneDropped'
<1>0. /\ mode' = mode /\ mode.shifter \in {0, 1} /\ mode.max_len \in 1 .. MaxLen /\ mode.manual \in BOOLEAN
      /\ FIFO_DEPTH \in Nat \ {0} /\ MaxLen \in Nat \ {0}
      /\ mode.shifter = 1 => mode.max_len <= FIFO_DEPTH
  <2>1. mode' = mode
    BY Zenon
    DEF Next, Call, Driver, Controller, begin, select_hw_cs, begin_flush, no_hw_cs,
        reset_and_reconfigure, flush, initial_fifo_fill, issue_manual_start, read_isr, pump,
        return, spi_load, spi_word, vars
  <2> QED BY <2>1, ModeFacts DEF Counts, TypeOK, Fits
<1> USE <1>0 DEF NoneDropped, Counts, TypeOK, InCall, InFill, InWrite, InPump, BetweenCalls, in_flight
<1>1. ASSUME NEW o \in Op, NEW len \in 1 .. mode.max_len, NEW write_len \in 0 .. len,
             begin(o, len, write_len)
      PROVE  NoneDropped'
  <2>1. CASE outstanding_rx
    BY <1>1, <2>1 DEF begin, flush_needed, fifoVars
  <2>2. CASE ~ outstanding_rx
    BY <1>1, <2>2 DEF begin, flush_needed, fifoVars
  <2> QED BY <2>1, <2>2
<1>2. CASE select_hw_cs
  BY <1>2 DEF select_hw_cs, fifoVars, callVars
<1>3. CASE begin_flush
  BY <1>3 DEF begin_flush, flush_needed, fifoVars
<1>4. CASE no_hw_cs
  BY <1>4 DEF no_hw_cs, flush_needed, fifoVars, callVars
<1>5. CASE reset_and_reconfigure
  <2>1. /\ tx' = 0 /\ shift' = 0 /\ rx' = 0 /\ rx_trig' = 1 /\ pc = "between" /\ pc' = "between" /\ ~ rx_ovr'
    BY <1>5 DEF reset_and_reconfigure
  <2> QED BY <2>1
<1>6. CASE flush
  <2>1. tx = 0 /\ shift = 0 /\ rx = rx_trig
    BY <1>6 DEF flush
  <2>2. /\ tx' = 0 /\ shift' = 0 /\ rx' = 0 /\ rx_trig' = 1 /\ ~ outstanding_rx' /\ ~ rx_ovr'
        /\ pc' = "between" \/ (pc' = "fill" /\ op # "flush")
        /\ UNCHANGED <<written, read_idx>>
    <3>1. rx' = 0 /\ rx_trig' = 1 /\ ~ outstanding_rx' /\ ~ rx_ovr' /\ UNCHANGED <<tx, shift, written, read_idx>>
      BY <1>6, <2>1 DEF flush
    <3>2. pc' = "between" \/ (pc' = "fill" /\ op # "flush")
      BY <1>6, Zenon DEF flush
    <3> QED BY <2>1, <3>1, <3>2
  <2>3. pc' = "fill" => written = 0 /\ read_idx = 0
    BY <1>6, <2>2 DEF flush, InFlush
  <2> QED BY <2>2, <2>3
<1>7. CASE initial_fifo_fill
  BY <1>7 DEF initial_fifo_fill
<1>8. CASE issue_manual_start
  BY <1>8 DEF issue_manual_start, callVars
<1>9. CASE read_isr
  <2>1. /\ status'.rx_not_empty <=> rx >= rx_trig
        /\ status'.tx_full <=> tx = FIFO_DEPTH
    <3>1. status' = [rx_not_empty |-> rx >= rx_trig, tx_full |-> tx = FIFO_DEPTH]
      BY <1>9 DEF read_isr
    <3> QED BY ONLY <3>1, Zenon
  <2>3. /\ UNCHANGED <<tx, shift, rx, rx_ovr, rx_trig, outstanding_rx, written, read_idx>>
        /\ pc = "poll" /\ pc' = "pump"
    BY <1>9 DEF read_isr, fifoVars, callVars
  <2> QED BY <2>1, <2>3
<1>10. CASE pump
  <2>1. /\ reads \in {0, 1} /\ writes \in {0, 1}
        /\ reads = 1 <=> status.rx_not_empty /\ read_idx < total
        /\ writes = 1 <=> ~ status.tx_full /\ written < total
    BY <1>10 DEF pump, reads, writes
  <2>2. /\ pc = "pump" /\ pc' = "poll" /\ rx' = rx - reads /\ read_idx' = read_idx + reads
        /\ tx' = tx + writes /\ written' = written + writes
        /\ UNCHANGED <<shift, rx_ovr, rx_trig, outstanding_rx, total>>
    BY <1>10 DEF pump
  <2>3. PICK r \in {0, 1}, w \in {0, 1} : r = reads /\ w = writes
    BY <2>1
  <2>4. CASE mode.shifter = 0
    BY <2>1, <2>2, <2>3, <2>4
  <2>5. CASE mode.shifter = 1
    BY <2>1, <2>2, <2>3, <2>5
  <2> QED BY <2>4, <2>5
<1>11. CASE return
  <2>1. CASE op = "write"
    BY <1>11, <2>1 DEF return, finished, fifoVars
  <2>2. CASE op # "write"
    BY <1>11, <2>2 DEF return, finished, fifoVars
  <2> QED BY <2>1, <2>2
<1>12. CASE spi_load
  BY <1>12 DEF spi_load, callVars
<1>13. CASE spi_word
  BY <1>13 DEF spi_word, callVars
<1>14. CASE UNCHANGED vars
  BY <1>14 DEF vars
<1> QED
  BY <1>1, <1>2, <1>3, <1>4, <1>5, <1>6, <1>7, <1>8, <1>9, <1>10, <1>11, <1>12, <1>13, <1>14
  DEF Next, Call, Driver, Controller

(* The strengthened invariant of the driver and the controller.            *)
THEOREM CountsAgree == Spec => []Inv
<1>1. ASSUME Inv, [Next]_vars PROVE Inv'
  <2>1. Fits' => Fits
    <3>1. mode' = mode
      BY <1>1, Zenon
      DEF Next, Call, Driver, Controller, begin, select_hw_cs, begin_flush, no_hw_cs,
          reset_and_reconfigure, flush, initial_fifo_fill, issue_manual_start, read_isr, pump,
          return, spi_load, spi_word, vars
    <3> QED BY <3>1 DEF Fits
  <2> QED BY <1>1, <2>1, CountsStep, DropStep DEF Inv
<1> QED BY <1>1, InvInit, PTL DEF Spec

(* Every variable keeps its type, in every mode, even when words have been *)
(* dropped: neither FIFO ever holds more words than it has room for, which *)
(* nothing in the code checks before the first words of a call.            *)
THEOREM TypeCorrect == Spec => []TypeOK
<1>1. Inv => TypeOK
  BY DEF Inv, Counts
<1> QED BY <1>1, CountsAgree, PTL

(* However long the driver is held up between two polls of the status, the *)
(* receive FIFO does not overflow: for transfers of any length when the    *)
(* controller holds no word outside of its FIFOs, and for those that fit   *)
(* the FIFO when it holds one.                                             *)
THEOREM NothingOverflows == Spec => []NoOverflow
<1>1. Inv => NoOverflow
  BY DEF Inv, NoneDropped, NoOverflow
<1> QED BY <1>1, CountsAgree, PTL

(* In the same modes a call reads the answers to its own words, whatever   *)
(* an earlier write has left behind.                                       *)
THEOREM CallsReadTheirOwn == Spec => []WordsAccountedFor
<1>1. Inv => WordsAccountedFor
  BY DEF Inv, NoneDropped, WordsAccountedFor
<1> QED BY <1>1, CountsAgree, PTL

(* In the same modes the threshold write() leaves behind is one the FIFO   *)
(* can reach.                                                              *)
THEOREM TriggersReachable == Spec => []TriggerReachable
<1>1. Inv => TriggerReachable
  BY DEF Inv, NoneDropped, TriggerReachable
<1> QED BY <1>1, CountsAgree, PTL

(* A transaction releases the chip select when all its words are back.     *)
THEOREM TransactionsComplete == Spec => ReleasedWhenDone
<1>1. ASSUME Inv, [Next]_vars PROVE [Fits /\ cs /\ ~ cs' => in_flight = 0]_vars
  <2>1. CASE no_hw_cs
    BY <1>1, <2>1 DEF no_hw_cs, flush_needed, Inv, Counts, BetweenCalls
  <2>2. CASE UNCHANGED cs
    BY <2>2
  <2>3. no_hw_cs \/ UNCHANGED vars \/ cs' = cs \/ cs' = TRUE
    BY <1>1, Zenon
    DEF Next, Call, Driver, Controller, begin, select_hw_cs, begin_flush, reset_and_reconfigure,
        flush, initial_fifo_fill, issue_manual_start, read_isr, pump, return, spi_load,
        spi_word, vars
  <2>4. CASE UNCHANGED vars
    BY <2>4
  <2>5. CASE cs' = TRUE
    BY <2>5
  <2> QED BY <2>1, <2>2, <2>3, <2>4, <2>5
<1> QED BY <1>1, CountsAgree, PTL DEF Spec, ReleasedWhenDone

-----------------------------------------------------------------------------
(* The I2C master.                                                         *)

USE MCPeripheralsAssumption

Quiet == {"idle", "held", "refused"}
Sending == i2c_step \in {"fill", "busy", "write_complete"}
FirstFill == i2c_step = "fill" /\ first_write_cycle

I2cTypeOK ==
  /\ i2c_call \in [op : {"none", "write", "read", "write_read"}, w : Nat, r : Nat, count : Nat]
  /\ i2c_step \in {"idle", "write_setup", "fill", "busy", "write_complete", "read_setup",
                   "receive", "drain", "release", "read_complete"}
  /\ hold \in BOOLEAN /\ first_write_cycle \in BOOLEAN
  /\ fifo \in Seq(Nat \ {0}) /\ Len(fifo) <= I2C_FIFO_DEPTH
  /\ size \in Nat /\ i2c_shift \in Nat /\ i2c_written \in Nat
  /\ sent \in Seq(Nat) /\ read \in Seq(Nat)
  /\ bus \in Quiet \cup {"address", "tx", "rx"}
  /\ Sending => i2c_written <= i2c_call.w

(* The controller is at rest between two transfers and once it has raised  *)
(* a bit, and goes on after neither.                                       *)
BusAtRest ==
  /\ isr # {} => bus \in Quiet
  /\ "complete" \in isr => isr = {"complete"}
  /\ bus # "tx" => i2c_shift = 0
  /\ i2c_step \in {"idle", "write_setup", "read_setup"} \/ FirstFill =>
       bus \in Quiet /\ fifo = <<>>
  /\ FirstFill => isr = {}
  /\ bus = "rx" => Bus!receiving
  /\ bus = "tx" => Sending
  /\ bus = "held" /\ ~ Bus!receiving => fifo = <<>>
  /\ i2c_step = "fill" /\ ~ first_write_cycle => i2c_written # i2c_call.w
  /\ i2c_step = "busy" \/ (i2c_step = "fill" /\ ~ first_write_cycle) =>
       (bus = "held" => i2c_written = i2c_call.w)

(* The bytes of a write up to the FIFO, and those of a read.               *)
Out == sent \o (IF i2c_shift = 0 THEN fifo ELSE <<i2c_shift>> \o fifo)
SendsAll ==
  /\ Sending /\ isr \subseteq {"complete"} => Out = Bus!Numbers(i2c_written)
  /\ i2c_step = "write_complete" => i2c_written = i2c_call.w /\ fifo = <<>>
  /\ i2c_step = "write_setup" => sent = <<>>
  /\ Bus!receiving \/ i2c_step = "read_setup" => sent = Bus!Numbers(i2c_call.w)
GetsAll ==
  /\ Bus!receiving => size <= i2c_call.r /\ read \o fifo = Bus!Numbers(i2c_call.r - size)
  /\ i2c_step = "read_complete" => Len(read) = i2c_call.r
  /\ Sending \/ i2c_step \in {"write_setup", "read_setup"} => read = <<>>
  /\ i2c_call.op = "write" => i2c_call.r = 0

(* A call is over when it has an outcome.                                  *)
I2cAll ==
  /\ I2cTypeOK /\ BusAtRest /\ SendsAll /\ GetsAll
  /\ outcome # "none" => i2c_step = "idle"
  /\ MovesWhole

(* Once the FIFO has run empty in a write, nothing is said.                *)
I2cInv == ~ ran_empty => I2cAll

LEMMA JoinFacts ==
  ASSUME NEW p \in Seq(Nat), NEW q \in Seq(Nat), NEW r \in Seq(Nat)
  PROVE  /\ (p \o q) \o r = p \o (q \o r) /\ p \o q \in Seq(Nat)
         /\ Len(p \o q) = Len(p) + Len(q)
         /\ p \o <<>> = p /\ <<>> \o p = p
BY ConcatAssociative, ConcatProperties, ConcatEmptySeq

LEMMA FirstFacts ==
  ASSUME NEW f \in Seq(Nat), f # <<>>
  PROVE  /\ Head(f) \in Nat /\ Tail(f) \in Seq(Nat) /\ <<Head(f)>> \in Seq(Nat)
         /\ Len(Tail(f)) = Len(f) - 1 /\ Len(f) \in Nat \ {0}
         /\ <<Head(f)>> \o Tail(f) = f
<1>1. /\ Head(f) \in Nat /\ Tail(f) \in Seq(Nat) /\ Len(Tail(f)) = Len(f) - 1
      /\ Len(f) \in Nat \ {0} /\ Head(f) = f[1]
      /\ \A i \in 1 .. Len(f) - 1 : Tail(f)[i] = f[i + 1]
  BY HeadTailProperties, EmptySeq
<1> DEFINE h == <<Head(f)>>
           t == Tail(f)
<1>2. h \in Seq(Nat) /\ Len(h) = 1 /\ h[1] = f[1]
  BY <1>1
<1>3. h \o t = f
  <2> HIDE DEF h, t
  <2>1. t \in Seq(Nat) /\ Len(t) = Len(f) - 1 /\ \A i \in 1 .. Len(f) - 1 : t[i] = f[i + 1]
    BY <1>1 DEF t
  <2>2. /\ h \o t \in Seq(Nat) /\ Len(h \o t) = Len(h) + Len(t)
        /\ \A i \in 1 .. Len(h) + Len(t) :
              (h \o t)[i] = IF i <= Len(h) THEN h[i] ELSE t[i - Len(h)]
    <3>1. h \in Seq(Nat) /\ t \in Seq(Nat)
      BY <1>2, <2>1
    <3> QED
      BY <3>1, ConcatProperties
  <2>3. Len(h \o t) = Len(f)
    BY <1>1, <1>2, <2>1, <2>2
  <2>4. ASSUME NEW i \in 1 .. Len(f) PROVE (h \o t)[i] = f[i]
    <3>1. CASE i = 1
      BY <1>1, <1>2, <2>1, <2>2, <3>1
    <3>2. CASE i # 1
      <4>1. i - 1 \in 1 .. Len(f) - 1 /\ (i - 1) + 1 = i /\ ~ (i <= 1)
            /\ i \in 1 .. Len(h) + Len(t)
        BY <1>1, <1>2, <2>1, <3>2
      <4> QED
        BY <1>2, <2>1, <2>2, <4>1
    <3> QED
      BY <3>1, <3>2
  <2> QED
    BY <2>2, <2>3, <2>4, SeqEqual
<1> QED
  BY <1>1, <1>2, <1>3

LEMMA AppendFacts ==
  ASSUME NEW p \in Seq(Nat), NEW n \in Nat
  PROVE  /\ Append(p, n) = p \o <<n>> /\ <<n>> \in Seq(Nat)
         /\ Append(p, n) \in Seq(Nat) /\ Len(Append(p, n)) = Len(p) + 1
BY AppendProperties

(* Moving the first byte of one sequence behind another.                   *)
LEMMA MoveFirst ==
  ASSUME NEW p \in Seq(Nat), NEW f \in Seq(Nat), f # <<>>
  PROVE  Append(p, Head(f)) \o Tail(f) = p \o f
<1>1. /\ Head(f) \in Nat /\ Tail(f) \in Seq(Nat) /\ <<Head(f)>> \in Seq(Nat)
      /\ <<Head(f)>> \o Tail(f) = f
  BY FirstFacts
<1>2. Append(p, Head(f)) = p \o <<Head(f)>>
  BY <1>1, AppendFacts
<1>3. (p \o <<Head(f)>>) \o Tail(f) = p \o (<<Head(f)>> \o Tail(f))
  BY <1>1, JoinFacts
<1> QED
  BY <1>1, <1>2, <1>3

LEMMA MoveByte ==
  ASSUME NEW p \in Seq(Nat), NEW f \in Seq(Nat), NEW n \in Nat
  PROVE  /\ Append(p, n) \o f = p \o (<<n>> \o f)
         /\ p \o Append(f, n) = Append(p \o f, n)
<1>1. Append(p, n) = p \o <<n>> /\ <<n>> \in Seq(Nat) /\ Append(f, n) = f \o <<n>>
  BY AppendFacts
<1>2. /\ (p \o <<n>>) \o f = p \o (<<n>> \o f)
      /\ p \o (f \o <<n>>) = (p \o f) \o <<n>> /\ p \o f \in Seq(Nat)
  BY <1>1, JoinFacts
<1>3. Append(p \o f, n) = (p \o f) \o <<n>>
  BY <1>2, AppendFacts
<1> QED
  BY <1>1, <1>2, <1>3

LEMMA NumbersFacts ==
  /\ Bus!Numbers(0) = <<>>
  /\ \A n \in Nat : /\ Bus!Numbers(n) \in Seq(Nat) /\ Len(Bus!Numbers(n)) = n
                    /\ \A i \in 1 .. n : Bus!Numbers(n)[i] = i
BY DEF Bus!Numbers

(* The next numbers after the first.                                       *)
LEMMA NextNumbers ==
  ASSUME NEW n \in Nat, NEW k \in Nat
  PROVE  /\ [i \in 1 .. k |-> n + i] \in Seq(Nat \ {0}) /\ Len([i \in 1 .. k |-> n + i]) = k
         /\ Bus!Numbers(n) \o [i \in 1 .. k |-> n + i] = Bus!Numbers(n + k)
<1> DEFINE f == [i \in 1 .. k |-> n + i]
           p == Bus!Numbers(n)
           q == Bus!Numbers(n + k)
<1>1. f \in Seq(Nat) /\ f \in Seq(Nat \ {0}) /\ Len(f) = k /\ \A i \in 1 .. k : f[i] = n + i
  <2>1. \A i \in 1 .. k : n + i \in Nat \ {0} /\ n + i \in Nat
    OBVIOUS
  <2> QED
    BY <2>1
<1>2. /\ p \in Seq(Nat) /\ Len(p) = n /\ \A i \in 1 .. n : p[i] = i
      /\ q \in Seq(Nat) /\ Len(q) = n + k /\ \A i \in 1 .. n + k : q[i] = i
  BY NumbersFacts
<1> HIDE DEF f, p, q
<1>3. /\ p \o f \in Seq(Nat) /\ Len(p \o f) = n + k
      /\ \A i \in 1 .. n + k : (p \o f)[i] = IF i <= n THEN p[i] ELSE f[i - n]
  <2>1. p \in Seq(Nat) /\ f \in Seq(Nat) /\ Len(p) + Len(f) = n + k /\ Len(p) = n
    BY <1>1, <1>2
  <2>2. /\ p \o f \in Seq(Nat) /\ Len(p \o f) = Len(p) + Len(f)
        /\ \A i \in 1 .. Len(p) + Len(f) :
              (p \o f)[i] = IF i <= Len(p) THEN p[i] ELSE f[i - Len(p)]
    BY <2>1, ConcatProperties
  <2> QED
    BY <2>1, <2>2
<1>4. ASSUME NEW i \in 1 .. n + k PROVE (p \o f)[i] = q[i]
  <2>1. CASE i <= n
    <3>1. i \in 1 .. n
      BY <2>1
    <3> QED
      BY <1>2, <1>3, <2>1, <3>1
  <2>2. CASE ~ (i <= n)
    <3>1. i - n \in 1 .. k /\ n + (i - n) = i
      BY <2>2
    <3> QED
      BY <1>1, <1>2, <1>3, <2>2, <3>1
  <2> QED
    BY <2>1, <2>2
<1>5. p \o f = q
  BY <1>2, <1>3, <1>4, SeqEqual
<1> QED
  BY <1>1, <1>5 DEF f, p, q

LEMMA NextNumber ==
  ASSUME NEW n \in Nat
  PROVE  Append(Bus!Numbers(n), n + 1) = Bus!Numbers(n + 1)
<1> DEFINE p == Bus!Numbers(n)
           q == Bus!Numbers(n + 1)
<1>1. /\ p \in Seq(Nat) /\ Len(p) = n /\ \A i \in 1 .. n : p[i] = i
      /\ q \in Seq(Nat) /\ Len(q) = n + 1 /\ \A i \in 1 .. n + 1 : q[i] = i
  BY NumbersFacts
<1> HIDE DEF p, q
<1>2. /\ Append(p, n + 1) \in Seq(Nat) /\ Len(Append(p, n + 1)) = n + 1
      /\ \A i \in 1 .. n + 1 : Append(p, n + 1)[i] = IF i = n + 1 THEN n + 1 ELSE p[i]
  BY <1>1, AppendProperties
<1>3. Append(p, n + 1) = q
  BY <1>1, <1>2, SeqEqual
<1> QED
  BY <1>3 DEF p, q

(* The sequences of the model are sequences of numbers.                    *)
LEMMA FifoFacts ==
  ASSUME I2cTypeOK
  PROVE  /\ fifo \in Seq(Nat) /\ sent \in Seq(Nat) /\ read \in Seq(Nat)
         /\ Len(fifo) \in Nat /\ Len(read) \in Nat
         /\ fifo # <<>> => /\ Head(fifo) \in Nat \ {0} /\ Tail(fifo) \in Seq(Nat \ {0})
                           /\ Len(Tail(fifo)) = Len(fifo) - 1
<1>1. fifo \in Seq(Nat \ {0}) /\ Nat \ {0} \subseteq Nat
  BY DEF I2cTypeOK
<1>2. fifo \in Seq(Nat)
  BY <1>1, SeqMonotonic
<1>3. fifo # <<>> => /\ Head(fifo) \in Nat \ {0} /\ Tail(fifo) \in Seq(Nat \ {0})
                     /\ Len(Tail(fifo)) = Len(fifo) - 1
  BY <1>1, HeadTailProperties
<1>4. sent \in Seq(Nat) /\ read \in Seq(Nat)
  BY DEF I2cTypeOK
<1> QED
  BY <1>2, <1>3, <1>4, LenProperties

LEMMA I2cInitHolds == Bus!I2cInit => I2cInv
<1> SUFFICES ASSUME Bus!I2cInit PROVE I2cInv
  OBVIOUS
<1> USE DEF Bus!I2cInit
<1>1. I2cTypeOK
  <2>1. <<>> \in Seq(Nat) /\ <<>> \in Seq(Nat \ {0}) /\ Len(<<>>) = 0 /\ I2C_FIFO_DEPTH \in Nat
    BY EmptySeq DEF Bus!I2cAssumption
  <2>2. fifo \in Seq(Nat \ {0}) /\ Len(fifo) <= I2C_FIFO_DEPTH /\ sent \in Seq(Nat)
        /\ read \in Seq(Nat)
    BY <2>1
  <2>3. i2c_call \in [op : {"none", "write", "read", "write_read"}, w : Nat, r : Nat, count : Nat]
    OBVIOUS
  <2> QED
    BY <2>2, <2>3 DEF I2cTypeOK, Quiet, Sending
<1>2. BusAtRest /\ SendsAll /\ GetsAll /\ MovesWhole
  BY DEF BusAtRest, SendsAll, GetsAll, MovesWhole, Bus!MovesWhole, Quiet, Sending,
         Bus!receiving,
     FirstFill
<1> QED
  BY <1>1, <1>2 DEF I2cInv, I2cAll

(* The bytes that are written next.                                        *)
LEMMA ChunkFacts ==
  ASSUME I2cTypeOK, Bus!fill
  PROVE  /\ chunk' \in Nat /\ Len(fifo) + chunk' <= I2C_FIFO_DEPTH
         /\ i2c_written + chunk' <= i2c_call.w /\ i2c_written + chunk' \in Nat
         /\ [i \in 1 .. chunk' |-> i2c_written + i] \in Seq(Nat \ {0})
         /\ Len([i \in 1 .. chunk' |-> i2c_written + i]) = chunk'
         /\ Bus!Numbers(i2c_written) \o [i \in 1 .. chunk' |-> i2c_written + i]
              = Bus!Numbers(i2c_written + chunk')
<1>1. /\ i2c_call.w \in Nat /\ i2c_written \in Nat
      /\ Len(fifo) \in Nat /\ Len(fifo) <= I2C_FIFO_DEPTH
      /\ i2c_written <= i2c_call.w /\ I2C_FIFO_DEPTH \in Nat
  BY FifoFacts DEF I2cTypeOK, Bus!I2cAssumption, Sending, Bus!fill
<1>2. chunk' = Bus!Shorter(I2C_FIFO_DEPTH - Len(fifo), i2c_call.w - i2c_written)
  BY DEF Bus!fill
<1>3. /\ chunk' \in Nat /\ Len(fifo) + chunk' <= I2C_FIFO_DEPTH
      /\ i2c_written + chunk' <= i2c_call.w /\ i2c_written + chunk' \in Nat
  BY <1>1, <1>2 DEF Bus!Shorter
<1> QED
  BY <1>1, <1>3, NextNumbers


(* What a call that fails leaves.                                          *)
Fails ==
  /\ isr # {}
  /\ fifo' = <<>> /\ size' = 0 /\ i2c_step' = "idle" /\ outcome' # "ok"
  /\ UNCHANGED <<i2c_call, hold, isr, bus, i2c_shift, i2c_written, first_write_cycle, sent, read,
                 ran_empty>>

LEMMA ErrorsFail ==
  /\ \A len : Bus!tx_errors # {} /\ Bus!handle_tx_errors(len) => Fails
  /\ Bus!rx_errors # {} /\ Bus!handle_rx_errors => Fails
<1>1. ASSUME NEW len, Bus!tx_errors # {}, Bus!handle_tx_errors(len) PROVE Fails
  BY <1>1 DEF Bus!tx_errors, Bus!handle_tx_errors, Bus!clean_up_and_fail, Fails
<1>2. ASSUME Bus!rx_errors # {}, Bus!handle_rx_errors PROVE Fails
  BY <1>2 DEF Bus!rx_errors, Bus!handle_rx_errors, Bus!clean_up_and_fail, Fails
<1> QED
  BY <1>1, <1>2

LEMMA I2cFails == ASSUME I2cAll, Fails PROVE I2cAll'
<1> USE DEF I2cAll, Fails
<1>1. I2cTypeOK'
  BY EmptySeq DEF I2cTypeOK, Sending, Quiet, Bus!I2cAssumption
<1>2. BusAtRest' /\ SendsAll' /\ GetsAll' /\ MovesWhole'
  BY DEF BusAtRest, SendsAll, GetsAll, MovesWhole, Bus!MovesWhole, Quiet, Sending,
         Bus!receiving,
     FirstFill
<1> QED
  BY <1>1, <1>2

LEMMA I2cCall == ASSUME I2cAll, Bus!call PROVE I2cAll'
<1> USE DEF I2cAll
<1>1. PICK c \in Bus!Calls :
         /\ i2c_call' = [op |-> c.op, w |-> c.w, r |-> c.r, count |-> i2c_call.count + 1]
         /\ i2c_step' = IF c.op = "read" THEN "read_setup" ELSE "write_setup"
  BY DEF Bus!call
<1>2. /\ c.op \in {"write", "read", "write_read"} /\ c.w \in Nat /\ c.r \in Nat
      /\ c.op = "write" => c.r = 0
      /\ c.op = "read" => c.w = 0
  <2>1. Lengths \subseteq Nat
    BY DEF Bus!I2cAssumption
  <2>2. CASE c \in [op : {"write"}, w : Lengths, r : {0}]
    <3>1. c.op = "write" /\ c.w \in Lengths /\ c.r = 0
      BY <2>2
    <3>2. c.w \in Nat /\ c.r \in Nat
      BY <2>1, <3>1, 0 \in Nat, Zenon
    <3> QED
      BY <3>1, <3>2
  <2>3. CASE c \in [op : {"read"}, w : {0}, r : Lengths]
    <3>1. c.op = "read" /\ c.w = 0 /\ c.r \in Lengths
      BY <2>3
    <3>2. c.w \in Nat /\ c.r \in Nat
      BY <2>1, <3>1, 0 \in Nat, Zenon
    <3> QED
      BY <3>1, <3>2
  <2>4. CASE c \in [op : {"write_read"}, w : Lengths, r : Lengths]
    <3>1. c.op = "write_read" /\ c.w \in Lengths /\ c.r \in Lengths
      BY <2>4
    <3> QED
      BY <2>1, <3>1
  <2> QED
    BY <2>2, <2>3, <2>4 DEF Bus!Calls
<1>3. i2c_call' \in [op : {"none", "write", "read", "write_read"}, w : Nat, r : Nat, count : Nat]
      /\ i2c_call'.op = c.op /\ i2c_call'.w = c.w /\ i2c_call'.r = c.r
  BY <1>1, <1>2 DEF I2cTypeOK
<1>4. /\ i2c_step' \in {"read_setup", "write_setup"}
      /\ i2c_step' = "read_setup" => c.op = "read"
      /\ sent' = <<>> /\ read' = <<>> /\ outcome' = "none" /\ i2c_step = "idle"
      /\ UNCHANGED <<hold, fifo, size, isr, bus, i2c_shift, i2c_written, first_write_cycle>>
  BY <1>1 DEF Bus!call
<1>5. I2cTypeOK'
  BY <1>3, <1>4, EmptySeq DEF I2cTypeOK, Sending
<1>6. BusAtRest'
  BY <1>4 DEF BusAtRest, Quiet, Sending, Bus!receiving, FirstFill
<1>7. SendsAll' /\ GetsAll' /\ MovesWhole'
  BY <1>2, <1>3, <1>4, NumbersFacts DEF SendsAll, GetsAll, MovesWhole, Bus!MovesWhole, Sending,
     Bus!receiving
<1> QED
  BY <1>4, <1>5, <1>6, <1>7

LEMMA I2cWriteSetup == ASSUME I2cAll, Bus!write_setup PROVE I2cAll'
<1> USE DEF I2cAll, Bus!write_setup
<1>1. I2cTypeOK'
  <2>1. <<>> \in Seq(Nat \ {0}) /\ Len(<<>>) = 0
    BY EmptySeq
  <2>2. hold' \in BOOLEAN
    BY DEF I2cTypeOK
  <2> QED
    BY <2>1, <2>2 DEF I2cTypeOK, Sending, Bus!I2cAssumption
<1>2. BusAtRest'
  BY DEF BusAtRest, Quiet, Sending, Bus!receiving, FirstFill
<1>3. SendsAll'
  <2>1. Out' = sent' \o <<>> /\ sent' = <<>>
    BY DEF Out, BusAtRest, SendsAll, Quiet
  <2>2. Out' = <<>>
    BY <2>1
  <2> QED
    BY <2>2, NumbersFacts DEF SendsAll, Sending, Bus!receiving
<1>4. GetsAll' /\ MovesWhole'
  BY DEF GetsAll, MovesWhole, Bus!MovesWhole, Sending, Bus!receiving
<1> QED
  BY <1>1, <1>2, <1>3, <1>4

LEMMA I2cFill == ASSUME I2cAll, Bus!fill PROVE I2cAll'
<1> USE DEF I2cAll
<1> DEFINE f == [i \in 1 .. chunk' |-> i2c_written + i]
<1>1. /\ chunk' \in Nat /\ Len(fifo) + chunk' <= I2C_FIFO_DEPTH
      /\ i2c_written + chunk' <= i2c_call.w /\ i2c_written + chunk' \in Nat
      /\ f \in Seq(Nat \ {0}) /\ Len(f) = chunk'
      /\ Bus!Numbers(i2c_written) \o f = Bus!Numbers(i2c_written + chunk')
  BY ChunkFacts
<1>2. /\ fifo' = fifo \o f /\ i2c_written' = i2c_written + chunk'
      /\ bus' = IF first_write_cycle THEN "address" ELSE bus
      /\ i2c_step = "fill" /\ i2c_step' = "busy"
      /\ UNCHANGED <<i2c_call, hold, size, isr, i2c_shift, first_write_cycle, sent, read, outcome,
                     ran_empty>>
  BY DEF Bus!fill
<1>3. fifo \in Seq(Nat \ {0}) /\ fifo \in Seq(Nat) /\ f \in Seq(Nat) /\ Len(fifo) \in Nat
  <2>1. f \in Seq(Nat \ {0}) /\ Nat \ {0} \subseteq Nat
    BY <1>1
  <2>2. f \in Seq(Nat)
    BY <2>1, SeqMonotonic
  <2> QED
    BY <2>2, FifoFacts DEF I2cTypeOK
<1> HIDE DEF f
<1>4. I2cTypeOK'
  <2>1. fifo' \in Seq(Nat \ {0}) /\ Len(fifo') = Len(fifo) + chunk'
    <3>1. f \in Seq(Nat \ {0}) /\ fifo \in Seq(Nat \ {0})
      BY <1>1, <1>3
    <3> QED
      BY <1>1, <1>2, <3>1, ConcatProperties
  <2>2. Len(fifo') <= I2C_FIFO_DEPTH
    BY <1>1, <2>1
  <2>3. i2c_written' \in Nat /\ i2c_written' <= i2c_call.w
    BY <1>1, <1>2, Zenon
  <2>4. bus' \in Quiet \cup {"address", "tx", "rx"} /\ hold' \in BOOLEAN
        /\ first_write_cycle' \in BOOLEAN
    BY <1>2 DEF I2cTypeOK
  <2> QED
    BY <1>2, <2>1, <2>2, <2>3, <2>4 DEF I2cTypeOK
<1>5. BusAtRest'
  BY <1>2 DEF BusAtRest, Quiet, Sending, Bus!receiving, FirstFill
<1>6. SendsAll'
  <2>1. Out' = Out \o f
    <3>1. sent \in Seq(Nat) /\ i2c_shift \in Nat /\ <<i2c_shift>> \in Seq(Nat)
      BY DEF I2cTypeOK
    <3>2. CASE i2c_shift = 0
      <4>1. Out' = sent \o (fifo \o f) /\ Out = sent \o fifo
        BY <1>2, <3>2 DEF Out
      <4>2. fifo \in Seq(Nat) /\ f \in Seq(Nat)
        BY <1>3
      <4>3. (sent \o fifo) \o f = sent \o (fifo \o f)
        BY <3>1, <4>2, ConcatAssociative
      <4> QED
        BY <4>1, <4>3
    <3>3. CASE i2c_shift # 0
      <4> DEFINE u == <<i2c_shift>> \o fifo
      <4>1. Out' = sent \o (<<i2c_shift>> \o (fifo \o f)) /\ Out = sent \o u
        BY <1>2, <3>3 DEF Out
      <4>2. <<i2c_shift>> \o (fifo \o f) = u \o f /\ u \in Seq(Nat)
        BY <1>3, <3>1, JoinFacts
      <4> HIDE DEF u
      <4>3. sent \in Seq(Nat) /\ u \in Seq(Nat) /\ f \in Seq(Nat)
        BY <1>3, <3>1, <4>2
      <4>4. (sent \o u) \o f = sent \o (u \o f)
        BY <4>3, ConcatAssociative
      <4> QED
        BY <4>1, <4>2, <4>4
    <3> QED
      BY <3>2, <3>3
  <2> QED
    BY <1>1, <1>2, <2>1 DEF SendsAll, Sending, Bus!receiving
<1>7. GetsAll' /\ MovesWhole'
  BY <1>2 DEF GetsAll, MovesWhole, Bus!MovesWhole, Sending, Bus!receiving
<1> QED
  BY <1>2, <1>4, <1>5, <1>6, <1>7

LEMMA I2cBusy == ASSUME I2cAll, Bus!wait_while_busy PROVE I2cAll'
<1>1. CASE Bus!tx_busy /\ Bus!tx_errors # {} /\ Bus!handle_tx_errors(chunk)
  BY <1>1, ErrorsFail, I2cFails
<1>2. CASE ~ (Bus!tx_busy /\ Bus!tx_errors # {} /\ Bus!handle_tx_errors(chunk))
  <2>1. /\ i2c_step = "busy" /\ fifo = <<>> /\ first_write_cycle' = FALSE
        /\ i2c_step' = IF i2c_written = i2c_call.w THEN "write_complete" ELSE "fill"
        /\ UNCHANGED <<i2c_call, hold, fifo, size, isr, bus, i2c_shift, i2c_written, sent, read,
                       outcome, ran_empty>>
    BY <1>2 DEF Bus!wait_while_busy, Bus!tx_busy
  <2> USE DEF I2cAll
  <2>2. I2cTypeOK'
    BY <2>1 DEF I2cTypeOK, Sending
  <2>3. BusAtRest'
    BY <2>1 DEF BusAtRest, Quiet, Sending, Bus!receiving, FirstFill
  <2>4. SendsAll' /\ GetsAll' /\ MovesWhole'
    BY <2>1 DEF SendsAll, GetsAll, MovesWhole, Bus!MovesWhole, Sending, Bus!receiving, Out
  <2> QED
    BY <2>1, <2>2, <2>3, <2>4
<1> QED
  BY <1>1, <1>2

LEMMA I2cWritten == ASSUME I2cAll, Bus!write_complete PROVE I2cAll'
<1>1. CASE ~ Bus!completed /\ Bus!tx_errors # {} /\ Bus!handle_tx_errors(i2c_call.w)
  BY <1>1, ErrorsFail, I2cFails
<1>2. CASE Bus!completed
  <2>1. /\ i2c_step = "write_complete" /\ isr = {"complete"}
        /\ hold' = (hold /\ ~ Bus!generate_stop)
        /\ IF Bus!generate_stop THEN i2c_step' = "idle" /\ outcome' = "ok"
           ELSE i2c_step' = "read_setup" /\ UNCHANGED outcome
        /\ UNCHANGED <<i2c_call, fifo, size, isr, bus, i2c_shift, i2c_written, first_write_cycle,
                       sent, read, ran_empty>>
    BY <1>2 DEF Bus!write_complete, Bus!completed, I2cAll, BusAtRest
  <2> USE DEF I2cAll
  <2>2. sent = Bus!Numbers(i2c_call.w)
    <3>1. Out = Bus!Numbers(i2c_written) /\ i2c_written = i2c_call.w /\ fifo = <<>>
      BY <2>1 DEF SendsAll, Sending
    <3>2. i2c_shift = 0
      BY <2>1 DEF BusAtRest, Quiet
    <3>3. Out = sent \o <<>>
      BY <3>1, <3>2 DEF Out
    <3>4. sent \o <<>> = sent
      BY FifoFacts, ConcatEmptySeq
    <3> QED
      BY <3>1, <3>3, <3>4
  <2>3. I2cTypeOK'
    <3>1. hold' \in BOOLEAN
      BY <2>1
    <3> QED
      BY <2>1, <3>1 DEF I2cTypeOK, Sending
  <2>4. BusAtRest'
    BY <2>1 DEF BusAtRest, SendsAll, Quiet, Sending, Bus!receiving, FirstFill
  <2>5. SendsAll' /\ GetsAll' /\ (outcome # "none" => i2c_step = "idle")'
    BY <2>1, <2>2 DEF SendsAll, GetsAll, Sending, Bus!receiving
  <2>6. MovesWhole'
    BY <2>1, <2>2, NumbersFacts DEF MovesWhole, Bus!MovesWhole, GetsAll, Sending,
       Bus!generate_stop
  <2> QED
    BY <2>1, <2>3, <2>4, <2>5, <2>6
<1> QED
  BY <1>1, <1>2 DEF Bus!write_complete

LEMMA I2cReadSetup == ASSUME I2cAll, Bus!read_setup PROVE I2cAll'
<1> USE DEF I2cAll
<1>1. i2c_call.r \in Nat /\ read = <<>> /\ sent = Bus!Numbers(i2c_call.w) /\ outcome = "none"
  BY DEF I2cTypeOK, GetsAll, SendsAll, Bus!read_setup
<1>2. /\ i2c_step = "read_setup" /\ fifo' = <<>>
      /\ hold' = (hold \/ i2c_call.r > I2C_FIFO_DEPTH)
      /\ UNCHANGED <<i2c_call, i2c_shift, i2c_written, first_write_cycle, sent, read, ran_empty>>
      /\ \/ i2c_step' = "idle" /\ outcome' = "too_large" /\ size' = 0 /\ UNCHANGED <<isr, bus>>
         \/ /\ isr' = {} /\ size' = i2c_call.r /\ bus' = "address"
            /\ i2c_step' = "receive" /\ UNCHANGED outcome
  BY DEF Bus!read_setup
<1>3. I2cTypeOK'
  <2>1. hold' \in BOOLEAN
    BY <1>2
  <2>2. fifo' \in Seq(Nat \ {0}) /\ Len(fifo') <= I2C_FIFO_DEPTH
    BY <1>2, EmptySeq DEF Bus!I2cAssumption
  <2> QED
    BY <1>1, <1>2, <2>1, <2>2 DEF I2cTypeOK, Sending, Quiet
<1>4. BusAtRest'
  BY <1>2 DEF BusAtRest, Quiet, Sending, Bus!receiving, FirstFill
<1>5. SendsAll'
  BY <1>1, <1>2 DEF SendsAll, Sending, Bus!receiving
<1>6. GetsAll' /\ MovesWhole'
  <2>1. read' \o fifo' = <<>> /\ i2c_call.r - i2c_call.r = 0
    BY <1>1, <1>2
  <2> QED
    BY <1>1, <1>2, <2>1, NumbersFacts DEF GetsAll, MovesWhole, Bus!MovesWhole, Sending,
       Bus!receiving
<1> QED
  BY <1>1, <1>2, <1>3, <1>4, <1>5, <1>6

LEMMA I2cReceive == ASSUME I2cAll, Bus!receive PROVE I2cAll'
<1>1. CASE Bus!rx_errors # {} /\ Bus!handle_rx_errors
  BY <1>1, ErrorsFail, I2cFails
<1>2. CASE ~ (Bus!rx_errors # {} /\ Bus!handle_rx_errors)
  <2>1. /\ i2c_step = "receive" /\ i2c_step' = "drain"
        /\ UNCHANGED <<i2c_call, hold, fifo, size, isr, bus, i2c_shift, i2c_written,
                       first_write_cycle, sent, read, outcome, ran_empty>>
    BY <1>2 DEF Bus!receive
  <2> QED
    BY <2>1 DEF I2cAll, I2cTypeOK, BusAtRest, Quiet, Sending, Bus!receiving, FirstFill,
                SendsAll,
       GetsAll, MovesWhole, Bus!MovesWhole, Out
<1> QED
  BY <1>1, <1>2

LEMMA I2cDrain == ASSUME I2cAll, Bus!drain PROVE I2cAll'
<1> USE DEF I2cAll
<1>1. /\ i2c_step = "drain" /\ i2c_step' \in {"drain", "release"}
      /\ UNCHANGED <<i2c_call, hold, size, isr, bus, i2c_shift, i2c_written, first_write_cycle,
                     sent, outcome, ran_empty>>
  BY DEF Bus!drain
<1>2. read' \in Seq(Nat) /\ fifo' \in Seq(Nat \ {0}) /\ Len(fifo') <= I2C_FIFO_DEPTH
      /\ read' \o fifo' = read \o fifo
  <2>1. CASE fifo # <<>>
    <3>1. read' = Append(read, Head(fifo)) /\ fifo' = Tail(fifo)
      BY <2>1 DEF Bus!drain
    <3>2. /\ Head(fifo) \in Nat /\ fifo' \in Seq(Nat \ {0}) /\ Len(fifo') = Len(fifo) - 1
          /\ Len(fifo) \in Nat /\ fifo \in Seq(Nat) /\ read \in Seq(Nat)
      BY <2>1, <3>1, FifoFacts
    <3>3. read' \in Seq(Nat)
      BY <3>1, <3>2, AppendFacts
    <3>4. read' \o fifo' = read \o fifo
      BY <2>1, <3>1, <3>2, MoveFirst
    <3>5. Len(fifo') <= I2C_FIFO_DEPTH
      BY <3>2 DEF I2cTypeOK, Bus!I2cAssumption
    <3> QED
      BY <3>2, <3>3, <3>4, <3>5
  <2>2. CASE fifo = <<>>
    BY <2>2 DEF Bus!drain, I2cTypeOK
  <2> QED
    BY <2>1, <2>2
<1>3. I2cTypeOK'
  BY <1>1, <1>2 DEF I2cTypeOK, Sending
<1>4. BusAtRest' /\ SendsAll'
  BY <1>1 DEF BusAtRest, SendsAll, Quiet, Sending, Bus!receiving, FirstFill
<1>5. GetsAll' /\ MovesWhole'
  BY <1>1, <1>2 DEF GetsAll, MovesWhole, Bus!MovesWhole, Sending, Bus!receiving
<1> QED
  BY <1>1, <1>3, <1>4, <1>5

LEMMA I2cRelease == ASSUME I2cAll, Bus!release PROVE I2cAll'
<1> USE DEF I2cAll
<1>1. /\ i2c_step = "release"
      /\ hold' = (hold /\ size > I2C_FIFO_DEPTH)
      /\ i2c_step' = IF Len(read) = i2c_call.r THEN "read_complete" ELSE "receive"
      /\ UNCHANGED <<i2c_call, fifo, size, isr, bus, i2c_shift, i2c_written, first_write_cycle,
                     sent, read, outcome, ran_empty>>
  BY DEF Bus!release
<1>2. I2cTypeOK'
  <2>1. hold' \in BOOLEAN
    BY <1>1
  <2> QED
    BY <1>1, <2>1 DEF I2cTypeOK, Sending
<1>3. BusAtRest' /\ SendsAll'
  BY <1>1 DEF BusAtRest, SendsAll, Quiet, Sending, Bus!receiving, FirstFill
<1>4. GetsAll' /\ MovesWhole'
  BY <1>1 DEF GetsAll, MovesWhole, Bus!MovesWhole, Sending, Bus!receiving
<1> QED
  BY <1>1, <1>2, <1>3, <1>4

LEMMA I2cRead == ASSUME I2cAll, Bus!read_complete PROVE I2cAll'
<1>1. CASE "complete" \notin isr /\ Bus!rx_errors # {} /\ Bus!handle_rx_errors
  BY <1>1, ErrorsFail, I2cFails
<1>2. CASE ~ ("complete" \notin isr /\ Bus!rx_errors # {} /\ Bus!handle_rx_errors)
  <2>1. /\ i2c_step = "read_complete" /\ "complete" \in isr
        /\ hold' = FALSE /\ fifo' = <<>> /\ size' = 0 /\ i2c_step' = "idle" /\ outcome' = "ok"
        /\ UNCHANGED <<i2c_call, isr, bus, i2c_shift, i2c_written, first_write_cycle, sent, read,
                       ran_empty>>
    BY <1>2 DEF Bus!read_complete
  <2> USE DEF I2cAll
  <2>2. I2cTypeOK'
    <3>1. fifo' \in Seq(Nat \ {0}) /\ Len(fifo') <= I2C_FIFO_DEPTH
      BY <2>1, EmptySeq DEF Bus!I2cAssumption
    <3> QED
      BY <2>1, <3>1 DEF I2cTypeOK, Sending
  <2>3. BusAtRest' /\ SendsAll' /\ GetsAll'
    BY <2>1 DEF BusAtRest, SendsAll, GetsAll, Quiet, Sending, Bus!receiving, FirstFill
  <2>4. read = Bus!Numbers(i2c_call.r)
    <3>1. /\ Len(read) = i2c_call.r /\ size <= i2c_call.r /\ i2c_call.r \in Nat /\ size \in Nat
          /\ read \o fifo = Bus!Numbers(i2c_call.r - size)
      BY <2>1 DEF GetsAll, Bus!receiving, I2cTypeOK
    <3>2. read \in Seq(Nat) /\ fifo \in Seq(Nat) /\ Len(fifo) \in Nat
      BY FifoFacts
    <3>3. Len(read \o fifo) = Len(read) + Len(fifo)
      BY <3>2, JoinFacts
    <3>4. Len(Bus!Numbers(i2c_call.r - size)) = i2c_call.r - size
      BY <3>1, NumbersFacts
    <3>5. Len(fifo) = 0 /\ size = 0
      BY <3>1, <3>2, <3>3, <3>4
    <3>6. fifo = <<>> /\ i2c_call.r - size = i2c_call.r
      BY <3>1, <3>2, <3>5, EmptySeq
    <3>7. read \o <<>> = read
      BY <3>2, JoinFacts
    <3> QED
      BY <3>1, <3>6, <3>7
  <2>5. MovesWhole'
    BY <2>1, <2>4 DEF MovesWhole, Bus!MovesWhole, SendsAll, Bus!receiving
  <2> QED
    BY <2>1, <2>2, <2>3, <2>5
<1> QED
  BY <1>1, <1>2

(* The controller and the slave.                                           *)
LEMMA I2cAddress == ASSUME I2cAll, Bus!address_taken \/ Bus!go_on PROVE I2cAll'
<1> USE DEF I2cAll
<1>1. /\ UNCHANGED <<i2c_step, i2c_call, i2c_written, first_write_cycle, read, outcome, hold,
                     fifo, size, isr, i2c_shift, sent, ran_empty>>
      /\ \/ bus = "address" /\ bus' = IF Bus!receiving THEN "rx" ELSE "tx"
         \/ bus \in {"held", "refused"} /\ bus' = "idle"
         \/ bus = "held" /\ fifo # <<>> /\ ~ Bus!receiving /\ bus' = "tx"
  BY DEF Bus!address_taken, Bus!go_on, Bus!driver_vars
<1>2. ~ (bus = "held" /\ fifo # <<>> /\ ~ Bus!receiving)
  BY DEF BusAtRest
<1>3. I2cTypeOK'
  BY <1>1 DEF I2cTypeOK, Sending, Quiet
<1>4. BusAtRest'
  <2>1. bus = "address" /\ ~ Bus!receiving => Sending
    BY DEF BusAtRest, Quiet, Sending, Bus!receiving, I2cTypeOK
  <2> QED
    BY <1>1, <1>2, <2>1 DEF BusAtRest, Quiet, Sending, Bus!receiving, FirstFill
<1>5. SendsAll' /\ GetsAll' /\ MovesWhole'
  BY <1>1 DEF SendsAll, GetsAll, MovesWhole, Bus!MovesWhole, Sending, Bus!receiving, Out
<1> QED
  BY <1>1, <1>3, <1>4, <1>5

LEMMA I2cShiftOut == ASSUME I2cAll, Bus!shift_out PROVE I2cAll'
<1> USE DEF I2cAll
<1>1. /\ bus = "tx" /\ Sending
      /\ UNCHANGED <<i2c_step, i2c_call, i2c_written, first_write_cycle, read, outcome, hold,
                     size, isr, bus, ran_empty>>
  BY DEF Bus!shift_out, Bus!driver_vars, BusAtRest
<1>2. sent \in Seq(Nat) /\ fifo \in Seq(Nat) /\ i2c_shift \in Nat
  BY FifoFacts DEF I2cTypeOK
<1>3. I2cTypeOK' /\ Out' = Out
  <2>1. CASE i2c_shift = 0 /\ fifo # <<>> /\ i2c_shift' = Head(fifo) /\ fifo' = Tail(fifo)
             /\ UNCHANGED sent
    <3>1. /\ Head(fifo) \in Nat \ {0} /\ Tail(fifo) \in Seq(Nat \ {0})
          /\ Len(Tail(fifo)) = Len(fifo) - 1 /\ Len(fifo) \in Nat
      BY <2>1, FifoFacts
    <3>2. <<Head(fifo)>> \o Tail(fifo) = fifo
      BY <1>2, <2>1, FirstFacts
    <3>3. Out' = Out
      BY <2>1, <3>1, <3>2 DEF Out
    <3>4. Len(fifo') <= I2C_FIFO_DEPTH
      BY <2>1, <3>1 DEF I2cTypeOK, Bus!I2cAssumption
    <3> QED
      BY <1>1, <2>1, <3>1, <3>3, <3>4 DEF I2cTypeOK, Sending
  <2>2. CASE i2c_shift # 0 /\ sent' = Append(sent, i2c_shift) /\ i2c_shift' = 0 /\ UNCHANGED fifo
    <3>1. sent' \o fifo = sent \o (<<i2c_shift>> \o fifo) /\ sent' \in Seq(Nat)
      BY <1>2, <2>2, MoveByte, AppendFacts
    <3>2. Out' = Out
      BY <2>2, <3>1 DEF Out
    <3> QED
      BY <1>1, <2>2, <3>1, <3>2 DEF I2cTypeOK, Sending
  <2> QED
    BY <2>1, <2>2 DEF Bus!shift_out
<1>4. fifo = <<>> => fifo' = <<>>
  BY DEF Bus!shift_out
<1>5. BusAtRest'
  BY <1>1 DEF BusAtRest, Quiet, Sending, Bus!receiving, FirstFill
<1>6. SendsAll'
  BY <1>1, <1>3, <1>4 DEF SendsAll, Sending, Bus!receiving
<1>7. GetsAll' /\ MovesWhole'
  BY <1>1 DEF GetsAll, MovesWhole, Bus!MovesWhole, Sending, Bus!receiving
<1> QED
  BY <1>1, <1>3, <1>5, <1>6, <1>7

LEMMA I2cShiftIn == ASSUME I2cAll, Bus!shift_in PROVE I2cAll'
<1> USE DEF I2cAll
<1>1. /\ bus = "rx" /\ Bus!receiving /\ isr = {} /\ size > 0 /\ i2c_step # "idle"
      /\ size \in Nat /\ i2c_call.r \in Nat /\ size <= i2c_call.r
      /\ read \o fifo = Bus!Numbers(i2c_call.r - size)
      /\ UNCHANGED <<i2c_step, i2c_call, i2c_written, first_write_cycle, read, outcome, hold,
                     i2c_shift, sent, ran_empty>>
  BY DEF Bus!shift_in, Bus!driver_vars, BusAtRest, GetsAll, Quiet, I2cTypeOK, Bus!receiving
<1>2. CASE /\ Len(fifo) < I2C_FIFO_DEPTH
           /\ fifo' = Append(fifo, i2c_call.r - size + 1) /\ size' = size - 1
           /\ UNCHANGED <<isr, bus>>
  <2>1. /\ i2c_call.r - size \in Nat /\ i2c_call.r - size + 1 \in Nat \ {0}
        /\ i2c_call.r - (size - 1) = i2c_call.r - size + 1 /\ size - 1 \in Nat
        /\ size - 1 <= i2c_call.r
    BY <1>1
  <2>2. read \in Seq(Nat) /\ fifo \in Seq(Nat) /\ fifo \in Seq(Nat \ {0}) /\ Len(fifo) \in Nat
    BY FifoFacts DEF I2cTypeOK
  <2>3. read \o fifo' = Append(read \o fifo, i2c_call.r - size + 1)
    BY <1>2, <2>1, <2>2, MoveByte
  <2>4. read \o fifo' = Bus!Numbers(i2c_call.r - (size - 1))
    BY <1>1, <2>1, <2>3, NextNumber
  <2>5. fifo' \in Seq(Nat \ {0}) /\ Len(fifo') = Len(fifo) + 1
    BY <1>2, <2>1, <2>2, AppendProperties
  <2>6. I2cTypeOK'
    <3>1. Len(fifo') <= I2C_FIFO_DEPTH
      BY <1>2, <2>2, <2>5 DEF Bus!I2cAssumption
    <3> QED
      BY <1>1, <1>2, <2>1, <2>5, <3>1 DEF I2cTypeOK, Sending
  <2>7. BusAtRest' /\ SendsAll'
    BY <1>1, <1>2 DEF BusAtRest, SendsAll, Quiet, Sending, Bus!receiving, FirstFill
  <2>8. GetsAll'
    BY <1>1, <1>2, <2>1, <2>4 DEF GetsAll, Sending, Bus!receiving
  <2>9. MovesWhole'
    BY <1>1 DEF MovesWhole, Bus!MovesWhole
  <2> QED
    BY <1>1, <2>6, <2>7, <2>8, <2>9
<1>3. CASE isr' = isr \cup {"rx_overflow"} /\ bus' = "idle" /\ UNCHANGED <<fifo, size>>
  BY <1>1, <1>3 DEF I2cTypeOK, BusAtRest, SendsAll, GetsAll, Quiet, Sending, Bus!receiving,
     FirstFill, MovesWhole, Bus!MovesWhole
<1> QED
  BY <1>2, <1>3 DEF Bus!shift_in, Bus!raise_bit

LEMMA I2cComplete ==
  ASSUME I2cAll, Bus!nothing_to_send \/ Bus!all_received, ~ ran_empty' PROVE I2cAll'
<1> USE DEF I2cAll
<1>1. /\ UNCHANGED <<i2c_step, i2c_call, i2c_written, first_write_cycle, read, outcome, hold,
                     fifo, size, i2c_shift, sent>>
      /\ isr' = isr \cup {"complete"} /\ bus' \in {"held", "idle"}
      /\ \/ bus = "tx" /\ i2c_shift = 0 /\ fifo = <<>> /\ ~ (i2c_written < i2c_call.w)
         \/ bus = "rx"
  BY DEF Bus!nothing_to_send, Bus!all_received, Bus!driver_vars, Bus!raise_bit
<1>2. isr = {} /\ (bus = "tx" => Sending) /\ (bus = "rx" => Bus!receiving) /\ i2c_shift = 0
  BY <1>1 DEF BusAtRest, Quiet
<1>3. i2c_written \in Nat /\ i2c_call.w \in Nat /\ (Sending => i2c_written <= i2c_call.w)
  BY DEF I2cTypeOK
<1>4. bus = "tx" => i2c_written = i2c_call.w
  BY <1>1, <1>2, <1>3
<1>5. I2cTypeOK'
  BY <1>1 DEF I2cTypeOK, Sending, Quiet
<1>6. BusAtRest'
  BY <1>1, <1>2, <1>4 DEF BusAtRest, Quiet, Sending, Bus!receiving, FirstFill
<1>7. SendsAll' /\ GetsAll' /\ MovesWhole'
  BY <1>1, <1>2 DEF SendsAll, GetsAll, MovesWhole, Bus!MovesWhole, Sending, Bus!receiving, Out
<1> QED
  BY <1>1, <1>5, <1>6, <1>7

LEMMA I2cFault == ASSUME I2cAll, Bus!fault PROVE I2cAll'
<1> USE DEF I2cAll
<1>1. /\ UNCHANGED <<i2c_step, i2c_call, i2c_written, first_write_cycle, read, outcome, hold,
                     fifo, size, sent, ran_empty>>
      /\ \E bit \in {"nack", "timeout", "arbitration_lost"} : isr' = isr \cup {bit}
      /\ bus' \in {"idle", "refused"} /\ bus \in {"address", "tx", "rx"} /\ i2c_shift' = 0
  BY DEF Bus!fault, Bus!driver_vars, Bus!raise_bit
<1>2. isr = {} /\ ~ (isr' \subseteq {"complete"}) /\ "complete" \notin isr'
  BY <1>1 DEF BusAtRest, Quiet
<1>3. I2cTypeOK'
  BY <1>1 DEF I2cTypeOK, Sending, Quiet
<1>4. BusAtRest'
  BY <1>1, <1>2 DEF BusAtRest, Quiet, Sending, Bus!receiving, FirstFill
<1>5. SendsAll' /\ GetsAll' /\ MovesWhole'
  BY <1>1, <1>2 DEF SendsAll, GetsAll, MovesWhole, Bus!MovesWhole, Sending, Bus!receiving
<1> QED
  BY <1>1, <1>3, <1>4, <1>5

LEMMA I2cStep == I2cInv /\ [Bus!I2cNext]_(Bus!i2cVars) => I2cInv'
<1> SUFFICES ASSUME I2cInv, [Bus!I2cNext]_(Bus!i2cVars), ~ ran_empty' PROVE I2cAll'
  BY DEF I2cInv
<1>1. CASE UNCHANGED Bus!i2cVars
  <2>1. UNCHANGED <<i2c_step, i2c_call, hold, fifo, size, isr, bus, i2c_shift, i2c_written,
                    first_write_cycle, sent, read, outcome, ran_empty>>
    BY <1>1 DEF Bus!i2cVars, Bus!driver_vars
  <2>2. I2cAll
    BY <2>1 DEF I2cInv
  <2>3. I2cTypeOK' /\ BusAtRest'
    BY <2>1, <2>2 DEF I2cAll, I2cTypeOK, BusAtRest, Quiet, Sending, Bus!receiving, FirstFill
  <2>4. SendsAll' /\ GetsAll' /\ MovesWhole'
    BY <2>1, <2>2 DEF I2cAll, SendsAll, GetsAll, MovesWhole, Bus!MovesWhole, Sending,
       Bus!receiving, Out
  <2> QED
    BY <2>1, <2>2, <2>3, <2>4 DEF I2cAll
<1>2. CASE Bus!I2cNext
  <2>1. ~ ran_empty
    <3>1. \/ ran_empty' = ran_empty \/ ran_empty' = (ran_empty \/ i2c_written < i2c_call.w)
      BY <1>2 DEF Bus!I2cNext, Bus!Master, Bus!Controller, Bus!call, Bus!write_setup, Bus!fill,
         Bus!wait_while_busy, Bus!write_complete, Bus!read_setup, Bus!receive, Bus!drain,
         Bus!release, Bus!read_complete, Bus!address_taken, Bus!shift_out, Bus!nothing_to_send,
         Bus!go_on, Bus!shift_in, Bus!all_received, Bus!fault, Bus!handle_tx_errors,
         Bus!handle_rx_errors
    <3> QED
      BY <3>1
  <2>2. I2cAll
    BY <2>1 DEF I2cInv
  <2> QED
    BY <1>2, <2>2, I2cCall, I2cWriteSetup, I2cFill, I2cBusy, I2cWritten, I2cReadSetup,
       I2cReceive,
       I2cDrain, I2cRelease, I2cRead, I2cAddress, I2cShiftOut, I2cShiftIn, I2cComplete, I2cFault
    DEF Bus!I2cNext, Bus!Master, Bus!Controller
<1> QED
  BY <1>1, <1>2

THEOREM I2cInvariant == Bus!I2cSpec => []I2cInv
BY I2cInitHolds, I2cStep, PTL DEF Bus!I2cSpec

(* A call of the I2C driver that succeeds has sent and got all the bytes   *)
(* that it was asked for, in order, and released the bus, whatever slaves  *)
(* refuse and other masters win in this call and those before, as long as  *)
(* no write has let the FIFO run empty.                                    *)
THEOREM CallsMoveWhole == Bus!I2cSpec => []MovesWhole
<1>1. I2cInv => MovesWhole
  BY DEF I2cInv, I2cAll, MovesWhole, Bus!MovesWhole
<1> QED
  BY <1>1, I2cInvariant, PTL

-----------------------------------------------------------------------------
(* The SD card driver.                                                     *)

USE DEF Sd!SdCardAssumption

Blocks == 0 .. CardBlocks - 1
Cards ==
  [type : Sd!CardType, width : {1, 4}, app : BOOLEAN, started : BOOLEAN, up : BOOLEAN, addr : Nat,
   state : {"idle", "ready", "ident", "stby", "tran", "data", "rcv", "sent", "taken", "prg"}]
Bits == {"ok", "crc", "timeout", "read_ready", "write_ready", "data_error", "complete"}
Hosts ==
  [width : {1, 4}, status : SUBSET Bits, response : {"none", "ok", "crc", "timeout"},
   expects : BOOLEAN]
Calls == [op : Sd!Ops \cup {"none"}, start : Nat, n : Nat, done : Nat, addr : Nat]

Identifying ==
  {"initialize", "cmd0", "cmd8", "acmd41_cmd55", "acmd41", "wait_cmd55", "wait_acmd41", "cmd2",
   "cmd3", "cmd9", "cmd7", "cmd13", "acmd6_cmd55", "acmd6", "failed"}
Transferring == {"verify", "command", "poll_command", "transfer", "completion", "programming"}

SdTypeOK ==
  /\ card \in Cards /\ host \in Hosts /\ sd_call \in Calls
  /\ block \in [Blocks -> Nat] /\ before \in [Blocks -> Nat] /\ buffer \in Seq(Nat)
  /\ sd_step \in Identifying \cup Transferring \cup {"initialized"}
  /\ errors \in Nat

(* What the bits of the status stand for, and where the card can be with   *)
(* the block of a call.                                                    *)
BitsAreOfThisBlock ==
  /\ host.response # "none" =>
       sd_step = "poll_command" /\ host.status = {} /\ host.expects = FALSE
  /\ host.expects = TRUE =>
       sd_step \in {"poll_command", "transfer"} /\ host.status \subseteq {"ok"}
  /\ "read_ready" \in host.status =>
       sd_step \in {"poll_command", "transfer"} /\ card.state = "data"
  /\ "write_ready" \in host.status =>
       sd_step \in {"poll_command", "transfer"} /\ card.state = "rcv"
  /\ card.state \in {"sent", "taken"} => sd_step = "completion" /\ host.status = {}
  /\ sd_step = "command" => card.state = "tran"
  /\ sd_step \in {"poll_command", "transfer", "completion"} =>
       /\ card.state \in {"data", "sent"} => Sd!Reading(sd_call.op)
       /\ card.state \in {"rcv", "taken"} => ~ Sd!Reading(sd_call.op)
       /\ card.state \in {"data", "sent", "rcv", "taken"} =>
            card.addr = Sd!OnCard(sd_call.addr) /\ card.addr \in Blocks
  /\ sd_step = "programming" => ~ Sd!Reading(sd_call.op)

CallInRange ==
  /\ sd_step \in Identifying => sd_call.op = "none"
  /\ sd_step \in Transferring =>
       /\ sd_call.op \in Sd!Ops /\ sd_call.done < sd_call.n
       /\ sd_call.start + sd_call.n <= CardBlocks
       /\ sd_call.op = "read_single_block" => sd_call.n = 1

(* The calls TransfersRight is about.                                      *)
Promised ==
  /\ Sd!KnowsCard
  /\ sd_call.n = 1 \/ sd_call.op = "write" \/ (sd_call.op # "read" /\ card.type # "SdhcSdxc")

(* How many blocks the call has read or written.                           *)
Got == IF sd_step = "completion" THEN sd_call.done + 1 ELSE sd_call.done
Landed ==
  IF sd_step = "programming" \/ (sd_step = "completion" /\ "complete" \in host.status)
  THEN sd_call.done + 1 ELSE sd_call.done

ReadSoFar == block = before /\ buffer = [k \in 1 .. Got |-> before[sd_call.start + k - 1]]
WrittenSoFar ==
  block = [b \in Blocks |-> IF b \in sd_call.start .. sd_call.start + Landed - 1
                            THEN Sd!data(b - sd_call.start) ELSE before[b]]

MovedSoFar ==
  sd_step \in Transferring /\ Promised =>
    /\ sd_call.addr = Sd!BlockAddr(sd_call.start + sd_call.done)
    /\ Sd!Reading(sd_call.op) => ReadSoFar
    /\ ~ Sd!Reading(sd_call.op) => WrittenSoFar

SdInv == SdTypeOK /\ BitsAreOfThisBlock /\ CallInRange /\ MovedSoFar /\ TransfersRight

LEMMA BlockOfAddress == ASSUME NEW b \in Nat, NEW L \in Nat \ {0} PROVE (b * L) \div L = b
<1> DEFINE q == (b * L) \div L
<1>1. b * L \in Nat
  OBVIOUS
<1>2. q \in Int /\ L * q <= b * L /\ b * L < L * q + L
  BY <1>1
<1>3. L * q = q * L
  BY <1>2
<1> HIDE DEF q
<1>4. q <= b
  <2> SUFFICES ASSUME b + 1 <= q PROVE FALSE
    BY <1>2
  <2>1. (b + 1) * L <= q * L
    BY <1>2
  <2> QED
    BY <1>2, <1>3, <2>1
<1>5. b <= q
  <2> SUFFICES ASSUME q + 1 <= b PROVE FALSE
    BY <1>2
  <2>1. (q + 1) * L <= b * L
    BY <1>2
  <2> QED
    BY <1>2, <1>3, <2>1
<1> QED
  BY <1>2, <1>4, <1>5 DEF q

LEMMA SdInitHolds == Sd!SdInit => SdInv
<1> SUFFICES ASSUME Sd!SdInit PROVE SdInv
  OBVIOUS
<1>1. sd_step = "initialize" /\ sd_call.op = "none" /\ host.response = "none"
      /\ host.expects = FALSE /\ host.status = {} /\ card.state = "idle"
  BY DEF Sd!SdInit, Sd!NoCall
<1>2. SdTypeOK
  <2>1. card \in Cards
    BY DEF Sd!SdInit, Cards
  <2>2. host \in Hosts
    BY DEF Sd!SdInit, Hosts, Bits
  <2>3. sd_call \in Calls
    BY DEF Sd!SdInit, Calls, Sd!NoCall
  <2>4. block \in [Blocks -> Nat] /\ before \in [Blocks -> Nat] /\ buffer \in Seq(Nat)
    BY DEF Sd!SdInit, Blocks
  <2> QED
    BY <1>1, <2>1, <2>2, <2>3, <2>4 DEF SdTypeOK, Sd!SdInit, Identifying
<1>3. BitsAreOfThisBlock /\ CallInRange /\ MovedSoFar
  BY <1>1 DEF BitsAreOfThisBlock, CallInRange, MovedSoFar, Identifying, Transferring
<1>4. TransfersRight
  BY <1>1 DEF TransfersRight, Sd!TransfersRight, Sd!Right, Sd!Finished
<1> QED
  BY <1>2, <1>3, <1>4 DEF SdInv

(* Commands: what comes back is of some status, and the card goes on as    *)
(* the command has it or stays.                                            *)
LEMMA WhatComesBack ==
  ASSUME NEW legal \in BOOLEAN, NEW next \in Cards, NEW r \in Sd!sent(legal, next),
         card \in Cards, errors \in Nat, Sd!Send(r)
  PROVE  /\ card' = r.card /\ r.card \in {card, next} /\ errors' \in Nat
         /\ r.status \in {"ok", "crc", "timeout"}
         /\ r.status = "ok" => legal /\ r.card = next
         /\ ~ legal => r.card = card
BY DEF Sd!sent, Sd!Send

(* The steps of the identification move no data and leave no bit of data.  *)
Identifies ==
  /\ sd_step' \in Identifying \cup {"initialized"}
  /\ card' \in Cards /\ card'.state \notin {"sent", "taken"}
  /\ host' \in Hosts /\ host'.response = "none" /\ host'.expects = FALSE
  /\ "read_ready" \notin host'.status /\ "write_ready" \notin host'.status
  /\ errors' \in Nat /\ UNCHANGED <<block, sd_call, before, buffer>>

LEMMA AtRestIdentifying ==
  ASSUME SdInv, sd_step \in Identifying
  PROVE  /\ card \in Cards /\ host \in Hosts /\ errors \in Nat
         /\ card.state \notin {"sent", "taken"}
         /\ host.response = "none" /\ host.expects = FALSE
         /\ "read_ready" \notin host.status /\ "write_ready" \notin host.status
<1>1. card \in Cards /\ host \in Hosts /\ errors \in Nat
  BY DEF SdInv, SdTypeOK
<1>2. sd_step \notin {"poll_command", "transfer", "completion"}
  BY DEF Identifying
<1>3. host.expects \in BOOLEAN
  BY <1>1 DEF Hosts
<1>4. host.expects = FALSE
  BY <1>2, <1>3 DEF SdInv, BitsAreOfThisBlock
<1> QED
  BY <1>1, <1>2, <1>4 DEF SdInv, BitsAreOfThisBlock

LEMMA Identification ==
  ASSUME SdInv, Sd!initialize_card PROVE sd_step \in Identifying /\ Identifies
<1>1. sd_step \in Identifying
  BY DEF Sd!initialize_card, Identifying, Sd!initialize, Sd!go_idle, Sd!send_if_cond, Sd!app_cmd,
         Sd!command, Sd!acmd41, Sd!wait_for_amd41_card_ready, Sd!all_send_cid,
         Sd!send_relative_addr, Sd!send_csd, Sd!select_card, Sd!check_transfer_state,
         Sd!set_bus_width
<1> SUFFICES Identifies
  BY <1>1
<1>2. /\ card \in Cards /\ host \in Hosts /\ errors \in Nat
      /\ card.state \notin {"sent", "taken"}
      /\ host.response = "none" /\ host.expects = FALSE
      /\ "read_ready" \notin host.status /\ "write_ready" \notin host.status
  BY <1>1, AtRestIdentifying
<1>3. {"cmd0", "cmd8", "acmd41_cmd55", "acmd41", "wait_cmd55", "wait_acmd41", "cmd2", "cmd3",
       "cmd9", "cmd7", "cmd13", "acmd6_cmd55", "acmd6", "failed"} \subseteq Identifying
  BY DEF Identifying
<1>4. ASSUME NEW s \in {"ready", "ident", "stby", "tran"}
      PROVE  [card EXCEPT !.state = s] \in Cards /\ [card EXCEPT !.state = s].state = s
  BY <1>2 DEF Cards
<1>5. [card EXCEPT !.app = TRUE] \in Cards /\ [card EXCEPT !.app = TRUE].state = card.state
  BY <1>2 DEF Cards
<1>6. ASSUME NEW legal \in BOOLEAN, NEW to \in Identifying, NEW next \in Cards,
             next.state \notin {"sent", "taken"}, Sd!command(sd_step, legal, next, to)
      PROVE  Identifies
  <2>1. PICK r \in Sd!sent(legal, next) : Sd!Send(r) /\ Sd!fail_or(r, to)
    BY <1>6 DEF Sd!command
  <2>2. card' = r.card /\ r.card \in {card, next} /\ errors' \in Nat
    BY <1>2, <2>1, WhatComesBack
  <2>3. sd_step' \in Identifying
    BY <1>3, <2>1 DEF Sd!fail_or
  <2> QED
    BY <1>2, <1>6, <2>2, <2>3 DEF Identifies, Sd!command, Sd!call_vars
<1>7. ASSUME NEW starts, starts \in BOOLEAN
      PROVE  LET next == [card EXCEPT !.app = FALSE, !.started = @ \/ starts,
                                      !.state = IF card.up THEN "ready" ELSE @]
             IN  next \in Cards /\ next.state \in {card.state, "ready"}
  BY <1>2, <1>7 DEF Cards
<1>8. CASE Sd!initialize
  <2>1. host' \in Hosts /\ host'.response = "none" /\ host'.expects = FALSE /\ host'.status = {}
    BY <1>2, <1>8 DEF Sd!initialize, Hosts
  <2>2. sd_step' \in Identifying /\ card' = card /\ errors' = errors
        /\ UNCHANGED <<block, sd_call, before, buffer>>
    BY <1>3, <1>8 DEF Sd!initialize, Sd!call_vars
  <2> QED
    BY <1>2, <2>1, <2>2 DEF Identifies
<1>9. CASE Sd!go_idle
  <2>1. Sd!powered_down \in Cards /\ Sd!powered_down.state = "idle"
    BY <1>2 DEF Sd!powered_down, Cards
  <2>2. card' \in Cards /\ card'.state \notin {"sent", "taken"} /\ errors' \in Nat
    BY <1>2, <1>9, <2>1 DEF Sd!go_idle
  <2> QED
    BY <1>2, <1>3, <1>9, <2>2 DEF Sd!go_idle, Identifies, Sd!call_vars
<1>10. CASE Sd!send_if_cond
  <2>1. PICK r \in Sd!sent(card.type # "SD1" /\ card.state = "idle", card) :
           Sd!Send(r) /\ sd_step' \in {sd_step, "acmd41_cmd55", "failed"}
    BY <1>10 DEF Sd!send_if_cond
  <2>2. (card.type # "SD1" /\ card.state = "idle") \in BOOLEAN
    OBVIOUS
  <2>3. card' = card /\ errors' \in Nat
    BY <1>2, <2>1 DEF Sd!sent, Sd!Send
  <2> QED
    BY <1>1, <1>2, <1>3, <1>10, <2>1, <2>3 DEF Sd!send_if_cond, Identifies, Sd!call_vars
<1>11. ASSUME NEW from, NEW to \in Identifying, Sd!app_cmd(from, to) PROVE Identifies
  BY <1>2, <1>5, <1>6, <1>11 DEF Sd!app_cmd, Sd!command
<1>12. CASE Sd!acmd41
  <2> DEFINE starts == responded_to_cmd8 \/ card.type # "SdhcSdxc"
             next == [card EXCEPT !.app = FALSE, !.started = @ \/ starts,
                                  !.state = IF card.up THEN "ready" ELSE @]
  <2>1. next \in Cards /\ next.state \in {card.state, "ready"}
    <3>1. starts \in BOOLEAN
      OBVIOUS
    <3> QED
      BY <1>7, <3>1
  <2>2. errors' \in Nat /\ card' \in {card, next}
    <3> HIDE DEF starts
    <3> QED
      BY <1>2, <1>12 DEF Sd!acmd41, Sd!send_op_cond, Sd!sent, Sd!Send, Sd!asked, starts
  <2> HIDE DEF next
  <2>3. sd_step' \in Identifying
    BY <1>3, <1>12 DEF Sd!acmd41
  <2> QED
    BY <1>2, <1>12, <2>1, <2>2, <2>3 DEF Sd!acmd41, Sd!send_op_cond, Identifies, Sd!call_vars
<1>13. CASE Sd!wait_for_amd41_card_ready
  <2> DEFINE next == [card EXCEPT !.app = FALSE, !.started = @ \/ FALSE,
                                  !.state = IF card.up THEN "ready" ELSE @]
  <2>1. next \in Cards /\ next.state \in {card.state, "ready"}
    BY <1>7
  <2>2. errors' \in Nat /\ card' \in {card, next}
    BY <1>2, <1>13 DEF Sd!wait_for_amd41_card_ready, Sd!send_op_cond, Sd!sent, Sd!Send, Sd!asked
  <2> HIDE DEF next
  <2>3. sd_step' \in Identifying
    BY <1>3, <1>13 DEF Sd!wait_for_amd41_card_ready
  <2> QED
    BY <1>2, <1>13, <2>1, <2>2, <2>3
    DEF Sd!wait_for_amd41_card_ready, Sd!send_op_cond, Identifies, Sd!call_vars
<1>14. CASE Sd!all_send_cid
  BY <1>3, <1>4, <1>6, <1>14 DEF Sd!all_send_cid, Sd!command
<1>15. CASE Sd!send_relative_addr
  <2> DEFINE next == [card EXCEPT !.state = "stby"]
  <2>1. PICK r \in Sd!sent(card.state = "ident", next) :
           Sd!Send(r) /\ sd_step' \in {"failed", "cmd9"}
    BY <1>15 DEF Sd!send_relative_addr, Sd!fail_or
  <2>2. next \in Cards /\ next.state = "stby"
    BY <1>4
  <2> HIDE DEF next
  <2>3. card' \in {card, next} /\ errors' \in Nat
    BY <1>2, <2>1 DEF Sd!sent, Sd!Send
  <2> QED
    BY <1>2, <1>3, <1>15, <2>1, <2>2, <2>3 DEF Sd!send_relative_addr, Identifies, Sd!call_vars
<1>16. CASE Sd!send_csd
  BY <1>2, <1>3, <1>6, <1>16 DEF Sd!send_csd, Sd!command
<1>17. CASE Sd!select_card
  BY <1>3, <1>4, <1>6, <1>17 DEF Sd!select_card, Sd!command
<1>18. CASE Sd!check_transfer_state
  <2>1. card' = card /\ errors' \in Nat /\ sd_step' \in {"acmd6_cmd55", "failed"}
    BY <1>2, <1>18 DEF Sd!check_transfer_state, Sd!command, Sd!sent, Sd!Send, Sd!fail_or
  <2> QED
    BY <1>2, <1>3, <1>18, <2>1
    DEF Sd!check_transfer_state, Sd!command, Identifies, Sd!call_vars
<1>19. CASE Sd!set_bus_width
  <2> DEFINE next == [card EXCEPT !.app = FALSE, !.width = 4]
  <2>1. PICK r \in Sd!sent(card.app /\ card.state = "tran", next) : Sd!Send(r)
    BY <1>19 DEF Sd!set_bus_width
  <2>2. next \in Cards /\ next.state = card.state
    BY <1>2 DEF Cards
  <2> HIDE DEF next
  <2>3. card' \in {card, next} /\ errors' \in Nat
    BY <1>2, <2>1 DEF Sd!sent, Sd!Send
  <2>4. host' \in Hosts /\ host'.status = host.status /\ host'.response = "none"
        /\ host'.expects = FALSE
    BY <1>2, <1>19 DEF Sd!set_bus_width, Hosts
  <2>5. sd_step' = "initialized" /\ UNCHANGED <<block, sd_call, before, buffer>>
    BY <1>19 DEF Sd!set_bus_width
  <2> QED
    BY <1>2, <2>2, <2>3, <2>4, <2>5 DEF Identifies
<1> QED
  BY <1>3, <1>8, <1>9, <1>10, <1>11, <1>12, <1>13, <1>14, <1>15, <1>16, <1>17, <1>18, <1>19
  DEF Sd!initialize_card

LEMMA IdentifyStep == ASSUME SdInv, sd_step \in Identifying, Identifies PROVE SdInv'
<1>1. sd_step' \notin Transferring /\ sd_step \in Identifying
      /\ sd_step' \notin {"poll_command", "transfer", "completion", "command", "programming"}
  BY DEF Identifies, Identifying, Transferring
<1>2. sd_call' = sd_call /\ sd_call.op = "none"
  BY DEF SdInv, CallInRange, Identifies
<1>3. SdTypeOK'
  BY DEF SdInv, SdTypeOK, Identifies, Blocks
<1>4. BitsAreOfThisBlock'
  BY <1>1 DEF Identifies, BitsAreOfThisBlock
<1>5. CallInRange' /\ MovedSoFar'
  BY <1>1, <1>2 DEF CallInRange, MovedSoFar
<1>6. TransfersRight'
  BY <1>2 DEF TransfersRight, Sd!TransfersRight, Sd!Right, Sd!Finished
<1> QED
  BY <1>3, <1>4, <1>5, <1>6 DEF SdInv

(* What a property of the data depends on.                                 *)
SameCall == UNCHANGED <<block, sd_info, sd_call, before, buffer>> /\ card'.type = card.type

LEMMA NotFinished == ASSUME sd_step' # "initialized" PROVE TransfersRight'
BY DEF TransfersRight, Sd!TransfersRight, Sd!Right, Sd!Finished

LEMMA StillRight ==
  ASSUME TransfersRight, SameCall, UNCHANGED <<sd_step, result>>
  PROVE  TransfersRight'
BY DEF SameCall, TransfersRight, Sd!TransfersRight, Sd!Right, Sd!Finished, Sd!KnowsCard, Sd!Read,
       Sd!Written, Sd!Run, Sd!Reading, Sd!data

LEMMA StillMoved ==
  ASSUME MovedSoFar, SameCall,
         sd_step \in Transferring => Got' = Got /\ (Sd!Reading(sd_call.op) \/ Landed' = Landed),
         sd_step' \in Transferring => sd_step \in Transferring
  PROVE  MovedSoFar'
<1> SUFFICES ASSUME sd_step' \in Transferring, Promised'
             PROVE  /\ sd_call'.addr = Sd!BlockAddr(sd_call.start + sd_call.done)'
                    /\ Sd!Reading(sd_call.op)' => ReadSoFar'
                    /\ ~ Sd!Reading(sd_call.op)' => WrittenSoFar'
  BY DEF MovedSoFar
<1>1. sd_step \in Transferring /\ Promised
  BY DEF SameCall, Promised, Sd!KnowsCard
<1>2. /\ sd_call.addr = Sd!BlockAddr(sd_call.start + sd_call.done)
      /\ Sd!Reading(sd_call.op) => ReadSoFar
      /\ ~ Sd!Reading(sd_call.op) => WrittenSoFar
  BY <1>1 DEF MovedSoFar
<1>3. /\ UNCHANGED <<block, sd_info, sd_call, before, buffer>> /\ Got' = Got
      /\ ~ Sd!Reading(sd_call.op) => Landed' = Landed
  BY <1>1 DEF SameCall
<1>4. sd_call'.addr = Sd!BlockAddr(sd_call.start + sd_call.done)'
  BY <1>2, <1>3 DEF Sd!BlockAddr
<1>5. Sd!Reading(sd_call.op)' => ReadSoFar'
  BY <1>2, <1>3 DEF Sd!Reading, ReadSoFar
<1>6. ~ Sd!Reading(sd_call.op)' => WrittenSoFar'
  BY <1>2, <1>3 DEF Sd!Reading, WrittenSoFar, Sd!data
<1> QED
  BY <1>4, <1>5, <1>6

(* A call that fails has written no block but those of its run.            *)
LEMMA FailsRight ==
  ASSUME SdInv, sd_step \in Transferring, SameCall, Sd!fail
  PROVE  sd_step' = "initialized" /\ CallInRange' /\ MovedSoFar' /\ TransfersRight'
<1>1. sd_step' = "initialized" /\ result' = "error"
  BY DEF Sd!fail
<1>2. CallInRange' /\ MovedSoFar'
  BY <1>1 DEF CallInRange, MovedSoFar, Identifying, Transferring
<1>3. TransfersRight'
  <2> SUFFICES ASSUME Promised, NEW b \in Blocks,
                      b \notin sd_call.start .. sd_call.start + sd_call.n - 1
               PROVE  block[b] = before[b]
    <3>1. DOMAIN block = Blocks
      BY DEF SdInv, SdTypeOK
    <3>2. TransfersRight' <=> (Promised' => Sd!Right')
      BY DEF TransfersRight, Sd!TransfersRight, Promised
    <3>3. Promised' => Promised
      BY DEF Promised, SameCall, Sd!KnowsCard
    <3>4. Sd!Right' <=> (sd_call.op # "none" =>
             \A c \in Blocks : c \notin sd_call.start .. sd_call.start + sd_call.n - 1 =>
                block[c] = before[c])
      BY <1>1, <3>1 DEF Sd!Right, Sd!Finished, SameCall, Sd!Run
    <3> QED
      BY <3>2, <3>3, <3>4
  <2>1. MovedSoFar /\ sd_call \in Calls /\ sd_call.done < sd_call.n
    BY DEF SdInv, CallInRange, SdTypeOK
  <2>2. CASE Sd!Reading(sd_call.op)
    BY <2>1, <2>2 DEF MovedSoFar, ReadSoFar
  <2>3. CASE ~ Sd!Reading(sd_call.op)
    <3>1. block[b] = IF b \in sd_call.start .. sd_call.start + Landed - 1
                     THEN Sd!data(b - sd_call.start) ELSE before[b]
      BY <2>1, <2>3 DEF MovedSoFar, WrittenSoFar
    <3>2. /\ sd_call.start \in Nat /\ sd_call.n \in Nat /\ Landed \in Nat /\ Landed <= sd_call.n
          /\ b \in Int
      BY <2>1 DEF Calls, Landed, Blocks
    <3>3. b \notin sd_call.start .. sd_call.start + Landed - 1
      BY <3>2
    <3> QED
      BY <3>1, <3>3
  <2> QED
    BY <2>2, <2>3
<1> QED
  BY <1>1, <1>2, <1>3

(* The addresses of a run follow each other.                               *)
LEMMA AddressesFollow ==
  ASSUME NEW b \in Nat
  PROVE  /\ Sd!BlockAddr(b) \in Nat
         /\ Sd!BlockAddr(b) + Sd!BlockAddr(1) = Sd!BlockAddr(b + 1)
         /\ Sd!KnowsCard => Sd!OnCard(Sd!BlockAddr(b)) = b
<1>1. b * BLOCK_LEN \in Nat /\ (b + 1) * BLOCK_LEN = b * BLOCK_LEN + 1 * BLOCK_LEN
  OBVIOUS
<1>2. (b * BLOCK_LEN) \div BLOCK_LEN = b
  BY BlockOfAddress
<1>3. CASE sd_info.card_type = "SdhcSdxc"
  BY <1>3 DEF Sd!BlockAddr, Sd!OnCard, Sd!KnowsCard
<1>4. CASE sd_info.card_type # "SdhcSdxc"
  BY <1>1, <1>2, <1>4 DEF Sd!BlockAddr, Sd!OnCard, Sd!KnowsCard
<1> QED
  BY <1>3, <1>4

(* A block is done: the next one follows, or the call has succeeded.       *)
LEMMA BlockDone ==
  ASSUME SdInv, UNCHANGED <<block, sd_info, before, buffer>>, card'.type = card.type,
         Sd!next_block,
         (sd_step = "completion" /\ Sd!Reading(sd_call.op)) \/ sd_step = "programming"
  PROVE  /\ sd_step' \in {"verify", "initialized"} /\ sd_call' \in Calls
         /\ CallInRange' /\ MovedSoFar' /\ TransfersRight'
<1> DEFINE start == sd_call.start
           n == sd_call.n
           done == sd_call.done
<1>1. /\ sd_call \in Calls /\ sd_call.op \in Sd!Ops /\ start \in Nat /\ n \in Nat /\ done \in Nat
      /\ done < n /\ start + n <= CardBlocks /\ sd_call.addr \in Nat
      /\ sd_call.op = "read_single_block" => n = 1
  BY DEF SdInv, SdTypeOK, CallInRange, Calls, Transferring
<1>2. /\ sd_call' \in Calls /\ sd_call'.op = sd_call.op /\ sd_call'.start = start
      /\ sd_call'.n = n /\ sd_call'.done = done + 1
      /\ sd_call'.addr = sd_call.addr + Sd!increment(sd_call.op)
  <2>1. Sd!increment(sd_call.op) \in Nat
    <3>1. Sd!BlockAddr(1) \in Nat
      BY AddressesFollow
    <3> QED
      BY <3>1 DEF Sd!increment
  <2> DEFINE i == Sd!increment(sd_call.op)
  <2>2. sd_call' = [sd_call EXCEPT !.done = @ + 1, !.addr = @ + i]
    BY DEF Sd!next_block
  <2> HIDE DEF i
  <2>3. i \in Nat /\ sd_call \in Calls
    BY <1>1, <2>1 DEF i
  <2>4. /\ sd_call'.op = sd_call.op /\ sd_call'.start = sd_call.start
        /\ sd_call'.n = sd_call.n /\ sd_call'.done = sd_call.done + 1
        /\ sd_call'.addr = sd_call.addr + i
    BY <2>2, <2>3 DEF Calls
  <2>5. sd_call.done + 1 \in Nat /\ sd_call.addr + i \in Nat
    BY <1>1, <2>3
  <2>6. sd_call' \in Calls
    BY <2>2, <2>3, <2>5 DEF Calls
  <2> QED
    BY <2>4, <2>6 DEF i
<1>3. /\ done + 1 = n => sd_step' = "initialized" /\ result' = "ok"
      /\ done + 1 # n => sd_step' = "verify"
  BY DEF Sd!next_block
<1>4. CallInRange'
  BY <1>1, <1>2, <1>3 DEF CallInRange, Identifying, Transferring
<1>5. UNCHANGED <<block, sd_info, before, buffer>> /\ card'.type = card.type
  OBVIOUS
<1>6. Promised' => Promised
  BY <1>2, <1>5 DEF Promised, Sd!KnowsCard
<1>7. ASSUME Promised
      PROVE  /\ sd_call.addr = Sd!BlockAddr(start + done)
             /\ Sd!Reading(sd_call.op) =>
                  block = before /\ buffer = [k \in 1 .. done + 1 |-> before[start + k - 1]]
             /\ ~ Sd!Reading(sd_call.op) =>
                  block = [b \in Blocks |-> IF b \in start .. start + (done + 1) - 1
                                            THEN Sd!data(b - start) ELSE before[b]]
  <2>1. sd_step \in Transferring /\ ("completion" # "programming")
    BY DEF Transferring
  <2>2. ~ Sd!Reading(sd_call.op) => sd_step = "programming"
    OBVIOUS
  <2>3. Sd!Reading(sd_call.op) => sd_step = "completion"
    BY DEF SdInv, BitsAreOfThisBlock
  <2> QED
    BY <1>7, <2>1, <2>2, <2>3 DEF SdInv, MovedSoFar, ReadSoFar, WrittenSoFar, Got, Landed
<1>8. MovedSoFar'
  <2> SUFFICES ASSUME sd_step' \in Transferring, Promised'
               PROVE  /\ sd_call'.addr = Sd!BlockAddr(sd_call.start + sd_call.done)'
                      /\ Sd!Reading(sd_call.op)' => ReadSoFar'
                      /\ ~ Sd!Reading(sd_call.op)' => WrittenSoFar'
    BY DEF MovedSoFar
  <2>1. Promised /\ sd_step' = "verify" /\ done + 1 # n
    BY <1>3, <1>6 DEF Transferring
  <2>2. Got' = done + 1 /\ Landed' = done + 1
    BY <1>2, <2>1 DEF Got, Landed
  <2>3. sd_call'.addr = Sd!BlockAddr(sd_call.start + sd_call.done)'
    <3>1. Sd!BlockAddr(sd_call.start + sd_call.done)' = Sd!BlockAddr(start + (done + 1))
      BY <1>2, <1>5 DEF Sd!BlockAddr
    <3>2. start + done \in Nat /\ (start + done) + 1 = start + (done + 1) /\ n # 1
      BY <1>1, <2>1
    <3>3. Sd!increment(sd_call.op) = Sd!BlockAddr(1)
      <4>1. CASE sd_call.op = "write"
        BY <4>1 DEF Sd!increment
      <4>2. CASE sd_call.op # "write"
        <5>1. sd_call.op \notin {"read", "write"} /\ sd_info.card_type # "SdhcSdxc"
          BY <2>1, <3>2, <4>2 DEF Promised, Sd!KnowsCard
        <5> QED
          BY <5>1 DEF Sd!increment, Sd!BlockAddr
      <4> QED
        BY <4>1, <4>2
    <3>4. Sd!BlockAddr(start + done) + Sd!BlockAddr(1) = Sd!BlockAddr((start + done) + 1)
      BY <3>2, AddressesFollow
    <3> QED
      BY <1>2, <1>7, <2>1, <3>1, <3>2, <3>3, <3>4
  <2>4. Sd!Reading(sd_call.op)' => ReadSoFar'
    BY <1>2, <1>5, <1>7, <2>1, <2>2 DEF ReadSoFar, Sd!Reading
  <2>5. ~ Sd!Reading(sd_call.op)' => WrittenSoFar'
    BY <1>2, <1>5, <1>7, <2>1, <2>2 DEF WrittenSoFar, Sd!Reading, Sd!data
  <2> QED
    BY <2>3, <2>4, <2>5
<1>9. TransfersRight'
  <2> SUFFICES ASSUME sd_step' = "initialized", Promised' PROVE Sd!Right'
    <3>1. sd_step' # "initialized" => TransfersRight'
      BY NotFinished
    <3> QED
      BY <3>1 DEF TransfersRight, Sd!TransfersRight, Promised
  <2>1. Promised /\ result' = "ok" /\ done + 1 = n
    BY <1>3, <1>6
  <2>2. DOMAIN block = Blocks
    BY DEF SdInv, SdTypeOK
  <2>3. Sd!Right' <=> (IF Sd!Reading(sd_call.op) THEN buffer = Sd!Read /\ block = before
                       ELSE block = Sd!Written)
    BY <1>1, <1>2, <1>5, <2>1
    DEF Sd!Right, Sd!Finished, Sd!Read, Sd!Written, Sd!Run, Sd!Reading, Sd!data, Sd!Ops
  <2>4. Sd!Reading(sd_call.op) => buffer = Sd!Read /\ block = before
    BY <1>7, <2>1 DEF Sd!Read
  <2>5. ~ Sd!Reading(sd_call.op) => block = Sd!Written
    BY <1>7, <2>1, <2>2 DEF Sd!Written, Sd!Run
  <2> QED
    BY <2>3, <2>4, <2>5
<1> QED
  BY <1>2, <1>3, <1>4, <1>8, <1>9

(* The calls.                                                              *)
LEMMA SdBegin == ASSUME SdInv, Sd!begin PROVE SdInv'
<1>1. PICK o \in Sd!Ops, start \in 0 .. CardBlocks - 1, n \in 1 .. MaxRun :
        /\ o = "read_single_block" => n = 1
        /\ start + n <= CardBlocks
        /\ sd_call' = [op |-> o, start |-> start, n |-> n, done |-> 0,
                       addr |-> Sd!BlockAddr(start)]
  BY DEF Sd!begin
<1>2. /\ buffer' = <<>> /\ before' = block /\ sd_step' = "verify"
      /\ UNCHANGED <<card, block, host, sd_info, errors>>
  BY DEF Sd!begin, Sd!infos
<1>3. start \in Nat /\ n \in Nat \ {0} /\ Sd!BlockAddr(start) \in Nat
  BY AddressesFollow
<1>4. /\ sd_call' \in Calls /\ sd_call'.op = o /\ sd_call'.start = start /\ sd_call'.n = n
      /\ sd_call'.done = 0 /\ sd_call'.addr = Sd!BlockAddr(start)
  BY <1>1, <1>3 DEF Calls
<1>5. sd_step \in {"initialized", "failed"}
  BY DEF Sd!begin, Sd!ready
<1>6. SdTypeOK'
  <2>1. buffer' \in Seq(Nat)
    BY <1>2
  <2> QED
    BY <1>2, <1>4, <2>1 DEF SdInv, SdTypeOK, Transferring, Blocks
<1>7. BitsAreOfThisBlock'
  BY <1>2, <1>5 DEF SdInv, BitsAreOfThisBlock
<1>8. CallInRange'
  BY <1>1, <1>2, <1>3, <1>4 DEF CallInRange, Identifying
<1>9. MovedSoFar'
  <2>1. Got' = 0 /\ Landed' = 0
    BY <1>2, <1>4 DEF Got, Landed
  <2>2. sd_call'.addr = Sd!BlockAddr(sd_call.start + sd_call.done)'
    BY <1>2, <1>3, <1>4 DEF Sd!BlockAddr
  <2>3. ReadSoFar'
    BY <1>2, <2>1 DEF ReadSoFar
  <2>4. WrittenSoFar'
    BY <1>2, <1>3, <1>4, <2>1 DEF WrittenSoFar, SdInv, SdTypeOK
  <2> QED
    BY <2>2, <2>3, <2>4 DEF MovedSoFar
<1>10. TransfersRight'
  BY <1>2, NotFinished
<1> QED
  BY <1>6, <1>7, <1>8, <1>9, <1>10 DEF SdInv

LEMMA SdReinitialize == ASSUME SdInv, Sd!reinitialize PROVE SdInv'
<1>1. /\ sd_step' = "initialize" /\ sd_call' = Sd!NoCall /\ buffer' = <<>> /\ before' = block
      /\ UNCHANGED <<card, block, host, errors>>
  BY DEF Sd!reinitialize
<1>2. sd_step \in {"initialized", "failed"}
  BY DEF Sd!reinitialize, Sd!ready
<1>3. sd_call' \in Calls /\ sd_call'.op = "none"
  BY <1>1 DEF Sd!NoCall, Calls
<1>4. SdTypeOK'
  <2>1. buffer' \in Seq(Nat)
    BY <1>1
  <2> QED
    BY <1>1, <1>3, <2>1 DEF SdInv, SdTypeOK, Identifying, Blocks
<1>5. BitsAreOfThisBlock'
  BY <1>1, <1>2 DEF SdInv, BitsAreOfThisBlock
<1>6. CallInRange' /\ MovedSoFar'
  BY <1>1, <1>3 DEF CallInRange, MovedSoFar, Transferring
<1>7. TransfersRight'
  BY <1>1, NotFinished
<1> QED
  BY <1>4, <1>5, <1>6, <1>7 DEF SdInv

(* A call that fails in a command keeps the rest.                          *)
LEMMA SdFails ==
  ASSUME SdInv, sd_step \in Transferring, SameCall, Sd!fail, errors' \in Nat, card' = card,
         host' \in Hosts, host'.response = "none", host'.expects = FALSE,
         "read_ready" \notin host'.status, "write_ready" \notin host'.status,
         card.state \notin {"sent", "taken"}
  PROVE  SdInv'
<1>1. sd_step' = "initialized" /\ CallInRange' /\ MovedSoFar' /\ TransfersRight'
  BY FailsRight
<1>2. SdTypeOK'
  BY <1>1 DEF SdInv, SdTypeOK, SameCall, Blocks
<1>3. BitsAreOfThisBlock'
  BY <1>1 DEF BitsAreOfThisBlock
<1> QED
  BY <1>1, <1>2, <1>3 DEF SdInv

(* Away from the response and the transfer, no such bit is set.            *)
LEMMA NoBits ==
  ASSUME SdInv, sd_step \notin {"poll_command", "transfer"}
  PROVE  /\ host \in Hosts /\ host.response = "none" /\ host.expects = FALSE
         /\ "read_ready" \notin host.status /\ "write_ready" \notin host.status
<1>1. host \in Hosts /\ host.expects \in BOOLEAN
  BY DEF SdInv, SdTypeOK, Hosts
<1> QED
  BY <1>1 DEF SdInv, BitsAreOfThisBlock

LEMMA SdVerify == ASSUME SdInv, Sd!verify_sd_card_transfer_state PROVE SdInv'
<1>1. /\ sd_step = "verify" /\ card' = card /\ errors' \in Nat /\ SameCall /\ host' = host
      /\ Sd!fail \/ (card.state = "tran" /\ sd_step' = "command")
  BY DEF Sd!verify_sd_card_transfer_state, Sd!read_status, Sd!sent, Sd!Send, SameCall, Sd!infos,
         SdInv, SdTypeOK
<1>2. sd_step \in Transferring
  BY <1>1 DEF Transferring
<1>3. card.state \notin {"sent", "taken"}
  BY <1>1 DEF SdInv, BitsAreOfThisBlock
<1>4. CASE Sd!fail
  BY <1>1, <1>2, <1>3, <1>4, NoBits, SdFails
<1>5. CASE card.state = "tran" /\ sd_step' = "command"
  <2>1. SdTypeOK'
    BY <1>1, <1>5 DEF SdInv, SdTypeOK, SameCall, Blocks, Transferring
  <2>2. BitsAreOfThisBlock'
    BY <1>1, <1>5 DEF SdInv, BitsAreOfThisBlock
  <2>3. CallInRange'
    BY <1>1, <1>2, <1>5 DEF SdInv, CallInRange, SameCall, Identifying
  <2>4. MovedSoFar'
    <3>1. Got' = Got /\ Landed' = Landed
      BY <1>1, <1>5 DEF Got, Landed, SameCall
    <3> QED
      BY <1>1, <1>2, <3>1, StillMoved DEF SdInv
  <2>5. TransfersRight'
    BY <1>5, NotFinished
  <2> QED
    BY <2>1, <2>2, <2>3, <2>4, <2>5 DEF SdInv
<1> QED
  BY <1>1, <1>4, <1>5

LEMMA SdCommand == ASSUME SdInv, Sd!write_command PROVE SdInv'
<1> DEFINE addr == Sd!OnCard(sd_call.addr)
           state == IF Sd!Reading(sd_call.op) THEN "data" ELSE "rcv"
           told == [card EXCEPT !.addr = addr, !.state = state]
<1>1. /\ sd_step = "command" /\ sd_step' = "poll_command"
      /\ UNCHANGED <<block, sd_info, sd_call, before, buffer, result>>
  BY DEF Sd!write_command, Sd!infos, Sd!call_vars
<1>2. card.state = "tran" /\ card \in Cards /\ errors \in Nat /\ DOMAIN block = Blocks
      /\ host \in Hosts /\ sd_call \in Calls
  BY <1>1 DEF SdInv, SdTypeOK, BitsAreOfThisBlock
<1>3. PICK r \in Sd!sent(card.state = "tran",
                         IF addr \in DOMAIN block THEN told ELSE card) :
        /\ Sd!Send(r)
        /\ host' = [host EXCEPT !.status = {}, !.response = r.status, !.expects = FALSE]
  BY DEF Sd!write_command
<1>4. r.status \in {"ok", "crc", "timeout"} /\ errors' \in Nat
  BY <1>2, <1>3 DEF Sd!sent, Sd!Send
<1>5. card' = card \/ (addr \in Blocks /\ card' = told)
  <2> HIDE DEF told, addr
  <2> QED
    BY <1>2, <1>3 DEF Sd!sent, Sd!Send
<1>6. ASSUME addr \in Blocks
      PROVE  /\ told \in Cards /\ told.addr = addr /\ told.state = state /\ told.type = card.type
  <2>1. addr \in Nat
    BY <1>6 DEF Blocks
  <2>2. state \in {"data", "rcv"}
    OBVIOUS
  <2> HIDE DEF addr, state
  <2> QED
    BY <1>2, <2>1, <2>2 DEF Cards
<1> HIDE DEF told
<1>7. host' \in Hosts /\ host'.status = {} /\ host'.expects = FALSE
  BY <1>2, <1>3, <1>4 DEF Hosts
<1>8. card' \in Cards /\ card'.type = card.type
  BY <1>2, <1>5, <1>6
<1>9. SdTypeOK'
  BY <1>1, <1>4, <1>7, <1>8 DEF SdInv, SdTypeOK, Blocks, Transferring
<1>10. BitsAreOfThisBlock'
  <2>1. /\ card'.state \in {"data", "sent"} => Sd!Reading(sd_call.op)
        /\ card'.state \in {"rcv", "taken"} => ~ Sd!Reading(sd_call.op)
        /\ card'.state \in {"data", "sent", "rcv", "taken"} =>
             card'.addr = addr /\ card'.addr \in Blocks
        /\ card'.state \notin {"sent", "taken"}
    BY <1>2, <1>5, <1>6
  <2>2. Sd!OnCard(sd_call.addr)' = addr /\ Sd!Reading(sd_call.op)' = Sd!Reading(sd_call.op)
        /\ Blocks' = Blocks
    BY <1>1, <1>8 DEF Sd!OnCard, Sd!Reading, Blocks
  <2> HIDE DEF addr, state
  <2> QED
    BY <1>1, <1>7, <2>1, <2>2 DEF BitsAreOfThisBlock
<1>11. CallInRange'
  BY <1>1 DEF SdInv, CallInRange, Identifying, Transferring
<1>12. MovedSoFar'
  <2>1. Got' = Got /\ Landed' = Landed
    BY <1>1 DEF Got, Landed
  <2>2. SameCall /\ sd_step \in Transferring
    BY <1>1, <1>8 DEF SameCall, Transferring
  <2> QED
    BY <2>1, <2>2, StillMoved DEF SdInv
<1>13. TransfersRight'
  BY <1>1, NotFinished
<1> QED
  BY <1>9, <1>10, <1>11, <1>12, <1>13 DEF SdInv

LEMMA SdResponse == ASSUME SdInv, Sd!poll_command PROVE SdInv'
<1>1. /\ sd_step = "poll_command" /\ host.status # {}
      /\ host' = [host EXCEPT !.status = {}]
      /\ UNCHANGED <<card, block, sd_info, sd_call, before, buffer, errors>>
      /\ \/ Sd!fail /\ ("crc" \in host.status \/ "timeout" \in host.status)
         \/ sd_step' = "transfer" /\ UNCHANGED result
  BY DEF Sd!poll_command, Sd!infos, Sd!answered
<1>2. sd_step \in Transferring /\ SameCall /\ host \in Hosts /\ errors \in Nat
  BY <1>1 DEF Transferring, SameCall, SdInv, SdTypeOK
<1>3. /\ host' \in Hosts /\ host'.status = {} /\ host'.response = "none"
      /\ host'.expects = host.expects /\ host.expects \in BOOLEAN
  <2>1. host.response = "none"
    BY <1>1 DEF SdInv, BitsAreOfThisBlock
  <2> QED
    BY <1>1, <1>2, <2>1 DEF Hosts
<1>4. CASE Sd!fail /\ ("crc" \in host.status \/ "timeout" \in host.status)
  <2>1. host'.expects = FALSE /\ card.state \notin {"sent", "taken"}
    BY <1>1, <1>3, <1>4 DEF SdInv, BitsAreOfThisBlock
  <2> QED
    BY <1>1, <1>2, <1>3, <1>4, <2>1, SdFails
<1>5. CASE sd_step' = "transfer" /\ UNCHANGED result
  <2>1. SdTypeOK'
    BY <1>1, <1>3, <1>5 DEF SdInv, SdTypeOK, Blocks, Transferring
  <2>2. BitsAreOfThisBlock'
    BY <1>1, <1>3, <1>5 DEF SdInv, BitsAreOfThisBlock, Sd!OnCard, Blocks
  <2>3. CallInRange'
    BY <1>1, <1>2, <1>5 DEF SdInv, CallInRange, Identifying
  <2>4. MovedSoFar'
    <3>1. Got' = Got /\ Landed' = Landed
      BY <1>1, <1>5 DEF Got, Landed
    <3> QED
      BY <1>2, <3>1, StillMoved DEF SdInv
  <2>5. TransfersRight'
    BY <1>5, NotFinished
  <2> QED
    BY <2>1, <2>2, <2>3, <2>4, <2>5 DEF SdInv
<1> QED
  BY <1>1, <1>4, <1>5

LEMMA SdDataError == ASSUME SdInv, Sd!data_error PROVE SdInv'
<1>1. /\ sd_step \in {"transfer", "completion"} /\ "data_error" \in host.status /\ Sd!fail
      /\ host' = [host EXCEPT !.status = {}]
      /\ UNCHANGED <<card, block, sd_info, sd_call, before, buffer, errors>>
  BY DEF Sd!data_error, Sd!infos
<1>2. sd_step \in Transferring /\ SameCall /\ host \in Hosts /\ errors \in Nat
  BY <1>1 DEF Transferring, SameCall, SdInv, SdTypeOK
<1>3. host.response = "none" /\ host.expects = FALSE /\ card.state \notin {"sent", "taken"}
  BY <1>1, <1>2 DEF SdInv, BitsAreOfThisBlock, Hosts
<1>4. /\ host' \in Hosts /\ host'.status = {} /\ host'.response = "none"
      /\ host'.expects = FALSE
  BY <1>1, <1>2, <1>3 DEF Hosts
<1> QED
  BY <1>1, <1>2, <1>3, <1>4, SdFails

LEMMA SdReadData == ASSUME SdInv, Sd!read_data PROVE SdInv'
<1>1. /\ sd_step = "transfer" /\ "read_ready" \in host.status /\ sd_step' = "completion"
      /\ host' = [host EXCEPT !.status = {}]
      /\ buffer' = Append(buffer, block[card.addr])
      /\ card' = [card EXCEPT !.state = "sent"]
      /\ UNCHANGED <<block, sd_info, sd_call, before, errors>>
  BY DEF Sd!read_data, Sd!infos
<1>2. /\ host \in Hosts /\ errors \in Nat /\ card \in Cards /\ sd_call \in Calls
      /\ buffer \in Seq(Nat) /\ block \in [Blocks -> Nat] /\ before \in [Blocks -> Nat]
      /\ sd_step \in Transferring
  BY <1>1 DEF SdInv, SdTypeOK, Transferring
<1>3. /\ card.state = "data" /\ Sd!Reading(sd_call.op)
      /\ card.addr = Sd!OnCard(sd_call.addr) /\ card.addr \in Blocks
      /\ host.expects # TRUE /\ host.response = "none"
  BY <1>1 DEF SdInv, BitsAreOfThisBlock
<1>4. /\ host' \in Hosts /\ host'.status = {} /\ host'.response = "none"
      /\ host'.expects = FALSE
  BY <1>1, <1>2, <1>3 DEF Hosts
<1>5. /\ card' \in Cards /\ card'.state = "sent" /\ card'.addr = card.addr
      /\ card'.type = card.type
  BY <1>1, <1>2 DEF Cards
<1>6. SdTypeOK'
  <2>1. block[card.addr] \in Nat
    BY <1>2, <1>3
  <2>2. buffer' \in Seq(Nat)
    BY <1>1, <1>2, <2>1
  <2> QED
    BY <1>1, <1>2, <1>4, <1>5, <2>2 DEF SdTypeOK, Blocks, Transferring
<1>7. BitsAreOfThisBlock'
  <2>1. /\ Sd!OnCard(sd_call.addr)' = card'.addr /\ Sd!Reading(sd_call.op)'
        /\ card'.addr \in Blocks'
    BY <1>1, <1>3, <1>5 DEF Sd!OnCard, Sd!Reading, Blocks
  <2> QED
    BY <1>1, <1>4, <1>5, <2>1 DEF BitsAreOfThisBlock
<1>8. CallInRange'
  BY <1>1, <1>2 DEF SdInv, CallInRange, Identifying
<1>9. MovedSoFar'
  <2> SUFFICES ASSUME Promised'
               PROVE  /\ sd_call'.addr = Sd!BlockAddr(sd_call.start + sd_call.done)'
                      /\ Sd!Reading(sd_call.op)' /\ ReadSoFar'
    BY DEF MovedSoFar
  <2>1. Promised
    BY <1>1, <1>5 DEF Promised, Sd!KnowsCard
  <2>2. /\ sd_call.addr = Sd!BlockAddr(sd_call.start + sd_call.done)
        /\ block = before
        /\ buffer = [k \in 1 .. sd_call.done |-> before[sd_call.start + k - 1]]
    BY <1>1, <1>2, <1>3, <2>1 DEF SdInv, MovedSoFar, ReadSoFar, Got
  <2>3. sd_call.start \in Nat /\ sd_call.done \in Nat
    BY <1>2 DEF Calls
  <2>4. card.addr = sd_call.start + sd_call.done
    <3>1. sd_call.start + sd_call.done \in Nat /\ Sd!KnowsCard
      BY <2>1, <2>3 DEF Promised
    <3> QED
      BY <1>3, <2>2, <3>1, AddressesFollow
  <2>5. buffer' = [k \in 1 .. sd_call.done + 1 |-> before[sd_call.start + k - 1]]
    <3>1. Len(buffer) = sd_call.done
      BY <1>2, <2>2, <2>3, LenProperties
    <3>2. sd_call.start + (sd_call.done + 1) - 1 = card.addr
      BY <2>3, <2>4
    <3> QED
      BY <1>1, <1>2, <2>2, <2>3, <3>1, <3>2
  <2>6. Got' = sd_call.done + 1
    BY <1>1 DEF Got
  <2>7. ReadSoFar'
    BY <1>1, <2>2, <2>5, <2>6 DEF ReadSoFar
  <2> QED
    BY <1>1, <1>3, <2>2, <2>7 DEF Sd!BlockAddr, Sd!Reading
<1>10. TransfersRight'
  BY <1>1, NotFinished
<1> QED
  BY <1>6, <1>7, <1>8, <1>9, <1>10 DEF SdInv

LEMMA SdWriteData == ASSUME SdInv, Sd!write_data PROVE SdInv'
<1>1. /\ sd_step = "transfer" /\ "write_ready" \in host.status /\ sd_step' = "completion"
      /\ host' = [host EXCEPT !.status = {}]
      /\ card' = [card EXCEPT !.state = "taken"]
      /\ UNCHANGED <<block, sd_info, sd_call, before, buffer, errors>>
  BY DEF Sd!write_data, Sd!infos, Sd!call_vars
<1>2. /\ host \in Hosts /\ card \in Cards /\ sd_step \in Transferring
  BY <1>1 DEF SdInv, SdTypeOK, Transferring
<1>3. /\ card.state = "rcv" /\ ~ Sd!Reading(sd_call.op)
      /\ card.addr = Sd!OnCard(sd_call.addr) /\ card.addr \in Blocks
      /\ host.expects # TRUE /\ host.response = "none"
  BY <1>1 DEF SdInv, BitsAreOfThisBlock
<1>4. /\ host' \in Hosts /\ host'.status = {} /\ host'.response = "none"
      /\ host'.expects = FALSE
  BY <1>1, <1>2, <1>3 DEF Hosts
<1>5. /\ card' \in Cards /\ card'.state = "taken" /\ card'.addr = card.addr
      /\ card'.type = card.type
  BY <1>1, <1>2 DEF Cards
<1>6. SdTypeOK'
  BY <1>1, <1>4, <1>5 DEF SdInv, SdTypeOK, Blocks, Transferring
<1>7. BitsAreOfThisBlock'
  <2>1. /\ Sd!OnCard(sd_call.addr)' = card'.addr /\ ~ Sd!Reading(sd_call.op)'
        /\ card'.addr \in Blocks'
    BY <1>1, <1>3, <1>5 DEF Sd!OnCard, Sd!Reading, Blocks
  <2> QED
    BY <1>1, <1>4, <1>5, <2>1 DEF BitsAreOfThisBlock
<1>8. CallInRange'
  BY <1>1, <1>2 DEF SdInv, CallInRange, Identifying
<1>9. MovedSoFar'
  <2> SUFFICES ASSUME Promised'
               PROVE  /\ sd_call'.addr = Sd!BlockAddr(sd_call.start + sd_call.done)'
                      /\ ~ Sd!Reading(sd_call.op)' /\ WrittenSoFar'
    BY DEF MovedSoFar
  <2>1. Promised /\ Landed' = Landed
    BY <1>1, <1>4, <1>5 DEF Promised, Sd!KnowsCard, Landed
  <2>2. sd_call.addr = Sd!BlockAddr(sd_call.start + sd_call.done) /\ WrittenSoFar
    BY <1>2, <1>3, <2>1 DEF SdInv, MovedSoFar
  <2>3. WrittenSoFar'
    BY <1>1, <2>1, <2>2 DEF WrittenSoFar, Sd!data
  <2> QED
    BY <1>1, <1>3, <2>2, <2>3 DEF Sd!BlockAddr, Sd!Reading
<1>10. TransfersRight'
  BY <1>1, NotFinished
<1> QED
  BY <1>6, <1>7, <1>8, <1>9, <1>10 DEF SdInv

LEMMA SdReadComplete == ASSUME SdInv, Sd!read_complete PROVE SdInv'
<1>1. /\ sd_step = "completion" /\ Sd!Reading(sd_call.op) /\ "complete" \in host.status
      /\ host' = [host EXCEPT !.status = {}] /\ Sd!next_block
      /\ UNCHANGED <<card, block, sd_info, before, buffer, errors>>
  BY DEF Sd!read_complete, Sd!infos
<1>2. /\ sd_step' \in {"verify", "initialized"} /\ sd_call' \in Calls
      /\ CallInRange' /\ MovedSoFar' /\ TransfersRight'
  BY <1>1, BlockDone
<1>3. host \in Hosts /\ host.response = "none" /\ host.expects = FALSE
  BY <1>1, NoBits
<1>4. /\ host' \in Hosts /\ host'.status = {} /\ host'.response = "none"
      /\ host'.expects = FALSE
  BY <1>1, <1>3 DEF Hosts
<1>5. SdTypeOK'
  BY <1>1, <1>2, <1>4 DEF SdInv, SdTypeOK, Blocks, Transferring
<1>6. BitsAreOfThisBlock'
  BY <1>1, <1>2, <1>4 DEF SdInv, BitsAreOfThisBlock
<1> QED
  BY <1>2, <1>5, <1>6 DEF SdInv

LEMMA SdWriteComplete == ASSUME SdInv, Sd!write_complete PROVE SdInv'
<1>1. /\ sd_step = "completion" /\ ~ Sd!Reading(sd_call.op) /\ "complete" \in host.status
      /\ sd_step' = "programming"
      /\ UNCHANGED <<card, block, host, sd_info, sd_call, before, buffer, errors>>
  BY DEF Sd!write_complete, Sd!infos, Sd!call_vars
<1>2. SdTypeOK'
  BY <1>1 DEF SdInv, SdTypeOK, Blocks, Transferring
<1>3. BitsAreOfThisBlock'
  BY <1>1 DEF SdInv, BitsAreOfThisBlock, Sd!Reading
<1>4. CallInRange'
  BY <1>1 DEF SdInv, CallInRange, Identifying, Transferring
<1>5. MovedSoFar'
  <2> SUFFICES ASSUME Promised'
               PROVE  /\ sd_call'.addr = Sd!BlockAddr(sd_call.start + sd_call.done)'
                      /\ ~ Sd!Reading(sd_call.op)' /\ WrittenSoFar'
    BY DEF MovedSoFar
  <2>1. Promised /\ Landed' = Landed /\ sd_step \in Transferring
    BY <1>1 DEF Promised, Sd!KnowsCard, Landed, Transferring
  <2>2. sd_call.addr = Sd!BlockAddr(sd_call.start + sd_call.done) /\ WrittenSoFar
    BY <1>1, <2>1 DEF SdInv, MovedSoFar
  <2>3. WrittenSoFar'
    BY <1>1, <2>1, <2>2 DEF WrittenSoFar, Sd!data
  <2> QED
    BY <1>1, <2>2, <2>3 DEF Sd!BlockAddr, Sd!Reading
<1>6. TransfersRight'
  BY <1>1, NotFinished
<1> QED
  BY <1>2, <1>3, <1>4, <1>5, <1>6 DEF SdInv

LEMMA SdProgramming == ASSUME SdInv, Sd!wait_programming PROVE SdInv'
<1>1. /\ sd_step = "programming" /\ card' = card /\ errors' \in Nat
      /\ UNCHANGED <<block, host, sd_info, before, buffer>>
      /\ \/ Sd!fail /\ UNCHANGED sd_call
         \/ Sd!next_block
         \/ UNCHANGED <<sd_step, result, sd_call>>
  BY DEF Sd!wait_programming, Sd!sent, Sd!Send, Sd!infos, SdInv, SdTypeOK
<1>2. sd_step \in Transferring /\ card.state \notin {"sent", "taken"}
  BY <1>1 DEF Transferring, SdInv, BitsAreOfThisBlock
<1>3. /\ host \in Hosts /\ host.response = "none" /\ host.expects = FALSE
      /\ "read_ready" \notin host.status /\ "write_ready" \notin host.status
  BY <1>1, NoBits
<1>4. CASE Sd!fail /\ UNCHANGED sd_call
  BY <1>1, <1>2, <1>3, <1>4, SdFails DEF SameCall
<1>5. CASE Sd!next_block
  <2>1. /\ sd_step' \in {"verify", "initialized"} /\ sd_call' \in Calls
        /\ CallInRange' /\ MovedSoFar' /\ TransfersRight'
    BY <1>1, <1>5, BlockDone
  <2>2. SdTypeOK'
    BY <1>1, <2>1 DEF SdInv, SdTypeOK, Blocks, Transferring
  <2>3. BitsAreOfThisBlock'
    BY <1>1, <1>2, <1>3, <2>1 DEF BitsAreOfThisBlock
  <2> QED
    BY <2>1, <2>2, <2>3 DEF SdInv
<1>6. CASE UNCHANGED <<sd_step, result, sd_call>>
  <2>1. SameCall /\ Got' = Got /\ Landed' = Landed
    BY <1>1, <1>6 DEF SameCall, Got, Landed
  <2>2. MovedSoFar' /\ TransfersRight'
    BY <1>2, <1>6, <2>1, StillMoved, StillRight DEF SdInv
  <2>3. SdTypeOK' /\ CallInRange'
    BY <1>1, <1>6 DEF SdInv, SdTypeOK, CallInRange, Blocks
  <2>4. BitsAreOfThisBlock'
    BY <1>1, <1>6 DEF SdInv, BitsAreOfThisBlock, Sd!OnCard, Blocks
  <2> QED
    BY <2>2, <2>3, <2>4 DEF SdInv
<1> QED
  BY <1>1, <1>4, <1>5, <1>6

(* The card and the controller.                                            *)
LEMMA CardMoves ==
  ASSUME SdInv, UNCHANGED <<block, sd_step, sd_info, sd_call, before, buffer, result>>,
         card' \in Cards, card'.type = card.type, host' \in Hosts, errors' \in Nat,
         sd_step = "completion" /\ ~ Sd!Reading(sd_call.op) =>
           ("complete" \in host'.status <=> "complete" \in host.status),
         BitsAreOfThisBlock'
  PROVE  SdInv'
<1>1. SameCall
  BY DEF SameCall
<1>2. Got' = Got /\ (Sd!Reading(sd_call.op) \/ Landed' = Landed)
  BY DEF Got, Landed
<1>3. MovedSoFar' /\ TransfersRight'
  BY <1>1, <1>2, StillMoved, StillRight DEF SdInv
<1>4. SdTypeOK' /\ CallInRange'
  BY DEF SdInv, SdTypeOK, CallInRange, Blocks
<1> QED
  BY <1>3, <1>4 DEF SdInv

(* A change of the card, a bit that is raised.                             *)
LEMMA Fields ==
  ASSUME SdInv
  PROVE  /\ card \in Cards /\ host \in Hosts /\ errors \in Nat
         /\ \A s \in {"tran", "prg"} :
              LET c == [card EXCEPT !.state = s]
              IN  c \in Cards /\ c.state = s /\ c.type = card.type /\ c.addr = card.addr
         /\ LET c == [card EXCEPT !.up = TRUE]
            IN  /\ c \in Cards /\ c.state = card.state /\ c.type = card.type
                /\ c.addr = card.addr
         /\ \A b \in Bits :
              LET h == [host EXCEPT !.status = @ \cup {b}, !.expects = FALSE]
              IN  /\ h \in Hosts /\ h.status = host.status \cup {b} /\ h.expects = FALSE
                  /\ h.response = host.response
<1>1. card \in Cards /\ host \in Hosts /\ errors \in Nat
  BY DEF SdInv, SdTypeOK
<1>2. ASSUME NEW s \in {"tran", "prg"}
      PROVE  LET c == [card EXCEPT !.state = s]
             IN  c \in Cards /\ c.state = s /\ c.type = card.type /\ c.addr = card.addr
  BY <1>1, <1>2 DEF Cards
<1>3. LET c == [card EXCEPT !.up = TRUE]
      IN  c \in Cards /\ c.state = card.state /\ c.type = card.type /\ c.addr = card.addr
  BY <1>1 DEF Cards
<1>4. ASSUME NEW b \in Bits
      PROVE  LET h == [host EXCEPT !.status = @ \cup {b}, !.expects = FALSE]
             IN  /\ h \in Hosts /\ h.status = host.status \cup {b} /\ h.expects = FALSE
                 /\ h.response = host.response
  BY <1>1, <1>4 DEF Hosts
<1> QED
  BY <1>1, <1>2, <1>3, <1>4

LEMMA SdPowerUp == ASSUME SdInv, Sd!power_up PROVE SdInv'
<1>1. /\ card' = [card EXCEPT !.up = TRUE]
      /\ UNCHANGED <<block, host, sd_step, sd_info, sd_call, before, buffer, result, errors>>
  BY DEF Sd!power_up, Sd!infos, Sd!call_vars
<1>2. /\ card' \in Cards /\ card'.state = card.state /\ card'.type = card.type
      /\ card'.addr = card.addr /\ host \in Hosts /\ errors \in Nat
  BY <1>1, Fields
<1>3. BitsAreOfThisBlock'
  BY <1>1, <1>2 DEF SdInv, BitsAreOfThisBlock, Sd!OnCard, Blocks
<1> QED
  BY <1>1, <1>2, <1>3, CardMoves

LEMMA SdRespond == ASSUME SdInv, Sd!respond PROVE SdInv'
<1>1. /\ host.response # "none"
      /\ host' = [host EXCEPT !.status = @ \cup {host.response}, !.response = "none",
                              !.expects = (host.response = "ok")]
      /\ UNCHANGED <<card, block, sd_step, sd_info, sd_call, before, buffer, result, errors>>
  BY DEF Sd!respond, Sd!infos, Sd!call_vars
<1>2. /\ card \in Cards /\ host \in Hosts /\ errors \in Nat
      /\ host.status = {} /\ sd_step = "poll_command"
      /\ host.response \in {"ok", "crc", "timeout"}
  BY <1>1, Fields DEF SdInv, BitsAreOfThisBlock, Hosts
<1>3. host' \in Hosts
  BY <1>1, <1>2 DEF Hosts, Bits
<1>4. /\ host'.status = {host.response} /\ host'.response = "none"
      /\ host'.expects = TRUE => host.response = "ok"
  BY <1>1, <1>2 DEF Hosts
<1>5. BitsAreOfThisBlock'
  BY <1>1, <1>2, <1>4 DEF SdInv, BitsAreOfThisBlock, Sd!OnCard, Blocks
<1> QED
  BY <1>1, <1>2, <1>3, <1>5, CardMoves

LEMMA SdDataReady == ASSUME SdInv, Sd!data_ready \/ Sd!data_timeout PROVE SdInv'
<1>1. /\ host.expects = TRUE
      /\ UNCHANGED <<block, sd_step, sd_info, sd_call, before, buffer, result>>
  <2>1. host.expects \in BOOLEAN
    BY Fields DEF Hosts
  <2> QED
    BY <2>1 DEF Sd!data_ready, Sd!data_timeout, Sd!infos, Sd!call_vars
<1>2. sd_step \in {"poll_command", "transfer"} /\ host.status \subseteq {"ok"}
      /\ host.response = "none" /\ card.state \notin {"sent", "taken"}
  BY <1>1 DEF SdInv, BitsAreOfThisBlock
<1>3. PICK bit \in {"read_ready", "write_ready", "data_error"}, s \in {card.state, "tran"} :
        /\ host' = [host EXCEPT !.status = @ \cup {bit}, !.expects = FALSE]
        /\ card' = [card EXCEPT !.state = s]
        /\ s = card.state \/ (s = "tran" /\ bit = "data_error")
        /\ bit = "read_ready" => card.state = "data"
        /\ bit = "write_ready" => card.state = "rcv"
        /\ errors' \in Nat
  <2>1. errors \in Nat
    BY Fields
  <2>2. CASE Sd!data_timeout
    BY <2>1, <2>2 DEF Sd!data_timeout, Sd!raise
  <2>3. ASSUME Sd!raise("data_error", "tran"), errors' \in {errors, errors + 1}
        PROVE  \E bit \in {"data_error"}, s \in {"tran"} :
                 /\ host' = [host EXCEPT !.status = @ \cup {bit}, !.expects = FALSE]
                 /\ card' = [card EXCEPT !.state = s]
                 /\ errors' \in Nat
    BY <2>1, <2>3 DEF Sd!raise
  <2>4. CASE card.state = "data" /\ Sd!raise("read_ready", card.state) /\ UNCHANGED errors
    BY <2>1, <2>4 DEF Sd!raise
  <2>5. CASE card.state = "rcv" /\ Sd!raise("write_ready", card.state) /\ UNCHANGED errors
    BY <2>1, <2>5 DEF Sd!raise
  <2>6. CASE Sd!data_ready
    <3>1. \/ card.state = "data" /\ Sd!raise("read_ready", card.state) /\ UNCHANGED errors
          \/ card.state = "rcv" /\ Sd!raise("write_ready", card.state) /\ UNCHANGED errors
          \/ Sd!raise("data_error", "tran") /\ errors' \in {errors, errors + 1}
      BY <2>6 DEF Sd!data_ready
    <3> QED
      BY <2>3, <2>4, <2>5, <3>1
  <2> QED
    BY <2>2, <2>6
<1>4. /\ host' \in Hosts /\ host'.status = host.status \cup {bit} /\ host'.expects = FALSE
      /\ host'.response = "none"
  <2>1. bit \in Bits
    BY DEF Bits
  <2> QED
    BY <1>2, <1>3, <2>1, Fields
<1>5. /\ card' \in Cards /\ card'.type = card.type /\ card'.addr = card.addr
      /\ card'.state = s
  <2>1. card \in Cards
    BY Fields
  <2> QED
    BY <1>3, <2>1 DEF Cards
<1>6. BitsAreOfThisBlock'
  <2>1. Sd!OnCard(sd_call.addr)' = Sd!OnCard(sd_call.addr) /\ Blocks' = Blocks
    BY <1>1, <1>5 DEF Sd!OnCard, Blocks
  <2> QED
    BY <1>1, <1>2, <1>3, <1>4, <1>5, <2>1 DEF SdInv, BitsAreOfThisBlock, Sd!Reading
<1> QED
  BY <1>1, <1>2, <1>3, <1>4, <1>5, <1>6, CardMoves

LEMMA SdSentOn == ASSUME SdInv, Sd!sent_on PROVE SdInv'
<1>1. /\ card.state = "sent"
      /\ host' = [host EXCEPT !.status = @ \cup {"complete"}, !.expects = FALSE]
      /\ card' = [card EXCEPT !.state = "tran"]
      /\ UNCHANGED <<block, sd_step, sd_info, sd_call, before, buffer, result, errors>>
  BY DEF Sd!sent_on, Sd!raise, Sd!infos, Sd!call_vars
<1>2. /\ sd_step = "completion" /\ host.status = {} /\ host.response = "none"
      /\ Sd!Reading(sd_call.op)
  BY <1>1 DEF SdInv, BitsAreOfThisBlock
<1>3. /\ host' \in Hosts /\ host'.status = {"complete"} /\ host'.expects = FALSE
      /\ host'.response = "none"
  <2>1. "complete" \in Bits
    BY DEF Bits
  <2> QED
    BY <1>1, <1>2, <2>1, Fields
<1>4. /\ card' \in Cards /\ card'.state = "tran" /\ card'.type = card.type /\ errors \in Nat
  BY <1>1, Fields
<1>5. BitsAreOfThisBlock'
  BY <1>1, <1>2, <1>3, <1>4 DEF BitsAreOfThisBlock
<1> QED
  BY <1>1, <1>2, <1>3, <1>4, <1>5, CardMoves

LEMMA SdTaken == ASSUME SdInv, Sd!taken PROVE SdInv'
<1>1. /\ card.state = "taken"
      /\ UNCHANGED <<sd_step, sd_info, sd_call, before, buffer, result>>
  BY DEF Sd!taken, Sd!infos, Sd!call_vars
<1>2. /\ sd_step = "completion" /\ host.status = {} /\ host.response = "none"
      /\ ~ Sd!Reading(sd_call.op)
      /\ card.addr = Sd!OnCard(sd_call.addr) /\ card.addr \in Blocks
  BY <1>1 DEF SdInv, BitsAreOfThisBlock
<1>3. /\ card \in Cards /\ host \in Hosts /\ errors \in Nat
      /\ {"complete", "data_error"} \subseteq Bits
  BY Fields DEF Bits
<1>4. ASSUME NEW bit \in {"complete", "data_error"}, NEW s \in {"tran", "prg"}, Sd!raise(bit, s)
      PROVE  /\ host' \in Hosts /\ host'.status = {bit} /\ host'.expects = FALSE
             /\ host'.response = "none"
             /\ card' \in Cards /\ card'.state = s /\ card'.type = card.type
             /\ BitsAreOfThisBlock'
  <2>1. /\ host' = [host EXCEPT !.status = @ \cup {bit}, !.expects = FALSE]
        /\ card' = [card EXCEPT !.state = s]
    BY <1>4 DEF Sd!raise
  <2>2. /\ host' \in Hosts /\ host'.status = {bit} /\ host'.expects = FALSE
        /\ host'.response = "none"
    BY <1>2, <1>3, <2>1, Fields
  <2>3. card' \in Cards /\ card'.state = s /\ card'.type = card.type
    BY <2>1, Fields
  <2>4. BitsAreOfThisBlock'
    BY <1>1, <1>2, <2>2, <2>3 DEF BitsAreOfThisBlock
  <2> QED
    BY <2>2, <2>3, <2>4
<1>5. CASE Sd!raise("data_error", "tran") /\ UNCHANGED block /\ errors' \in {errors, errors + 1}
  BY <1>1, <1>2, <1>3, <1>4, <1>5, CardMoves
<1>6. CASE /\ block' = [block EXCEPT ![card.addr] = Sd!data(sd_call.done)]
           /\ Sd!raise("complete", "prg") /\ UNCHANGED errors
  <2>1. /\ host' \in Hosts /\ host'.status = {"complete"}
        /\ card' \in Cards /\ card'.type = card.type /\ BitsAreOfThisBlock'
    BY <1>4, <1>6
  <2>2. /\ sd_call \in Calls /\ sd_call.start \in Nat /\ sd_call.done \in Nat
        /\ block \in [Blocks -> Nat] /\ before \in [Blocks -> Nat] /\ CardBlocks \in Nat
    BY DEF SdInv, SdTypeOK, Calls
  <2>3. SdTypeOK'
    <3>1. Sd!data(sd_call.done) \in Nat
      BY <2>2 DEF Sd!data
    <3>2. block' \in [Blocks -> Nat]
      BY <1>6, <2>2, <3>1
    <3> QED
      BY <1>1, <1>6, <2>1, <3>2 DEF SdInv, SdTypeOK, Blocks
  <2>4. CallInRange'
    BY <1>1 DEF SdInv, CallInRange
  <2>5. MovedSoFar'
    <3> SUFFICES ASSUME Promised'
                 PROVE  /\ sd_call'.addr = Sd!BlockAddr(sd_call.start + sd_call.done)'
                        /\ ~ Sd!Reading(sd_call.op)' /\ WrittenSoFar'
      BY DEF MovedSoFar
    <3>1. Promised /\ sd_step \in Transferring
      BY <1>1, <1>2, <2>1 DEF Promised, Sd!KnowsCard, Transferring
    <3>2. Landed = sd_call.done /\ Landed' = sd_call.done + 1
      BY <1>1, <1>2, <2>1 DEF Landed
    <3>3. /\ sd_call.addr = Sd!BlockAddr(sd_call.start + sd_call.done)
          /\ block = [b \in Blocks |-> IF b \in sd_call.start .. sd_call.start + sd_call.done - 1
                                       THEN Sd!data(b - sd_call.start) ELSE before[b]]
      BY <1>2, <3>1, <3>2 DEF SdInv, MovedSoFar, WrittenSoFar
    <3>4. card.addr = sd_call.start + sd_call.done
      <4>1. sd_call.start + sd_call.done \in Nat /\ Sd!KnowsCard
        BY <2>2, <3>1 DEF Promised
      <4> QED
        BY <1>2, <3>3, <4>1, AddressesFollow
    <3>5. block' = [b \in Blocks |->
                      IF b \in sd_call.start .. sd_call.start + (sd_call.done + 1) - 1
                      THEN Sd!data(b - sd_call.start) ELSE before[b]]
      <4> DEFINE new == [b \in Blocks |->
                           IF b \in sd_call.start .. sd_call.start + (sd_call.done + 1) - 1
                           THEN Sd!data(b - sd_call.start) ELSE before[b]]
      <4>1. ASSUME NEW b \in Blocks PROVE block'[b] = new[b]
        <5>1. b \in Int
          BY DEF Blocks
        <5>2. CASE b = card.addr
          <6>1. block'[b] = Sd!data(sd_call.done)
            BY <1>6, <2>2, <5>2
          <6>2. /\ b \in sd_call.start .. sd_call.start + (sd_call.done + 1) - 1
                /\ b - sd_call.start = sd_call.done
            BY <2>2, <3>4, <5>1, <5>2
          <6> QED
            BY <6>1, <6>2
        <5>3. CASE b # card.addr
          <6>1. block'[b] = block[b]
            BY <1>6, <2>2, <5>3
          <6>2. b \in sd_call.start .. sd_call.start + (sd_call.done + 1) - 1
                <=> b \in sd_call.start .. sd_call.start + sd_call.done - 1
            BY <2>2, <3>4, <5>1, <5>3
          <6> QED
            BY <3>3, <6>1, <6>2
        <5> QED
          BY <5>2, <5>3
      <4>2. DOMAIN block' = Blocks /\ DOMAIN new = Blocks
        BY <1>6, <2>2
      <4>3. block' = [b \in Blocks |-> block'[b]] /\ new = [b \in Blocks |-> new[b]]
        BY <1>6, <2>2
      <4> HIDE DEF new
      <4>4. block' = new
        BY <4>1, <4>3
      <4> QED
        BY <4>4 DEF new
    <3> QED
      BY <1>1, <1>2, <3>2, <3>3, <3>5 DEF WrittenSoFar, Sd!BlockAddr, Sd!Reading, Sd!data
  <2>6. TransfersRight'
    BY <1>1, <1>2, NotFinished
  <2> QED
    BY <2>1, <2>3, <2>4, <2>5, <2>6 DEF SdInv
<1> QED
  <2>1. \/ /\ block' = [block EXCEPT ![card.addr] = Sd!data(sd_call.done)]
           /\ Sd!raise("complete", "prg") /\ UNCHANGED errors
        \/ Sd!raise("data_error", "tran") /\ UNCHANGED block /\ errors' \in {errors, errors + 1}
    BY DEF Sd!taken
  <2> QED
    BY <1>5, <1>6, <2>1

LEMMA SdCardGoesOn == ASSUME SdInv, Sd!programmed \/ Sd!unread PROVE SdInv'
<1>1. /\ card' = [card EXCEPT !.state = "tran"] /\ card.state \in {"prg", "data"}
      /\ UNCHANGED <<block, host, sd_step, sd_info, sd_call, before, buffer, result, errors>>
      /\ card.state = "data" => sd_step \notin {"poll_command", "transfer"}
  BY DEF Sd!programmed, Sd!unread, Sd!infos, Sd!call_vars
<1>2. /\ card' \in Cards /\ card'.state = "tran" /\ card'.type = card.type
      /\ card'.addr = card.addr /\ host \in Hosts /\ errors \in Nat
  BY <1>1, Fields
<1>3. BitsAreOfThisBlock'
  BY <1>1, <1>2 DEF SdInv, BitsAreOfThisBlock, Sd!OnCard, Blocks
<1> QED
  BY <1>1, <1>2, <1>3, CardMoves

LEMMA SdStep == SdInv /\ [Sd!SdNext]_(Sd!sdVars) => SdInv'
<1> SUFFICES ASSUME SdInv, [Sd!SdNext]_(Sd!sdVars) PROVE SdInv'
  OBVIOUS
<1>1. CASE Sd!initialize_card
  BY <1>1, Identification, IdentifyStep
<1>2. CASE UNCHANGED Sd!sdVars
  <2>1. BitsAreOfThisBlock' /\ SdTypeOK' /\ CallInRange'
    BY <1>2 DEF Sd!sdVars, SdInv, BitsAreOfThisBlock, SdTypeOK, CallInRange, Sd!OnCard, Blocks
  <2>2. SameCall /\ Got' = Got /\ Landed' = Landed /\ UNCHANGED <<sd_step, result>>
    BY <1>2 DEF Sd!sdVars, SameCall, Got, Landed
  <2>3. MovedSoFar' /\ TransfersRight'
    BY <2>2, StillMoved, StillRight DEF SdInv
  <2> QED
    BY <2>1, <2>3 DEF SdInv
<1> QED
  BY <1>1, <1>2, SdBegin, SdReinitialize, SdVerify, SdCommand, SdResponse, SdDataError,
     SdReadData, SdWriteData, SdReadComplete, SdWriteComplete, SdProgramming, SdPowerUp, SdRespond,
     SdDataReady, SdSentOn, SdTaken, SdCardGoesOn
  DEF Sd!SdNext, Sd!Driver, Sd!Client, Sd!Card

(* What a call has moved so far, wherever in it commands, responses and    *)
(* blocks are lost.                                                        *)
THEOREM SdInvariant == Sd!SdSpec => []SdInv
BY SdInitHolds, SdStep, PTL DEF Sd!SdSpec

(* A transfer with an SD card that succeeds has moved the right blocks,    *)
(* and one that fails has written no others, for cards of any size and any *)
(* number of losses, as long as the driver knows how the card counts; runs *)
(* on cards of high capacity are those of write only.                      *)
THEOREM BlocksAreRight == Sd!SdSpec => []TransfersRight
<1>1. SdInv => TransfersRight
  BY DEF SdInv
<1> QED
  BY <1>1, SdInvariant, PTL

-----------------------------------------------------------------------------
(* The flasher of the QSPI flash.                                          *)
HIDE MCPeripheralsAssumption DEF Sd!SdCardAssumption

(* The n bytes that the flash holds from addr on.                          *)
Held(addr, n) == [i \in 1 .. n |-> mem[addr + i - 1]]

MemType == mem \in [0 .. FlashSize - 1 -> Int]

(* What has been received of a chunk after w words.                        *)
Received(size_, dummy, w) == IF w = 0 THEN 0 ELSE Flash!Smaller(size_, WORD * w - dummy)

(* The equation that read_chunk solves, and one of its solutions.          *)
Chunks(f, addr, n, dummy) ==
  f = [w \in Nat |->
        IF w = 0 THEN <<>>
        ELSE LET buf == f[w - 1]
             IN buf \o Flash!taken(Flash!reply(addr, w, dummy), Flash!Smaller(n - Len(buf), WORD),
                                   IF w = 1 THEN dummy ELSE 0)]

LEMMA ChunkDefined ==
  ASSUME NEW addr, NEW n, NEW dummy, \E g : Chunks(g, addr, n, dummy)
  PROVE \E f : /\ Chunks(f, addr, n, dummy)
               /\ Flash!read_chunk(addr, n, dummy) = f[(n + dummy + WORD - 1) \div WORD]
<1> DEFINE words[w \in Nat] ==
        IF w = 0 THEN <<>>
        ELSE LET buf == words[w - 1]
             IN buf \o Flash!taken(Flash!reply(addr, w, dummy), Flash!Smaller(n - Len(buf), WORD),
                                   IF w = 1 THEN dummy ELSE 0)
<1>1. words = CHOOSE f : Chunks(f, addr, n, dummy)
  BY DEF Chunks
<1>2. Flash!read_chunk(addr, n, dummy) = words[(n + dummy + WORD - 1) \div WORD]
  BY DEF Flash!read_chunk
<1> HIDE DEF words
<1>3. Chunks(words, addr, n, dummy)
  BY <1>1
<1> QED BY <1>2, <1>3

LEMMA HeldFacts ==
  ASSUME MemType, NEW addr \in Nat, NEW n \in Nat, addr + n <= FlashSize, FlashSize \in Nat
  PROVE /\ Held(addr, n) \in Seq(Int) /\ Len(Held(addr, n)) = n
        /\ \A i \in 1 .. n : Held(addr, n)[i] = mem[addr + i - 1]
BY DEF Held, MemType

(* Two runs of bytes, the second after the first.                          *)
LEMMA HeldJoin ==
  ASSUME MemType, FlashSize \in Nat
  PROVE \A addr, n, m \in Nat, t \in Seq(Int) :
          addr + n + m <= FlashSize /\ Len(t) = m /\ (\A i \in 1 .. m : t[i] = mem[addr + n + i - 1])
            => Held(addr, n) \o t = Held(addr, n + m)
<1> SUFFICES ASSUME NEW addr \in Nat, NEW n \in Nat, NEW m \in Nat, NEW t \in Seq(Int),
                    addr + n + m <= FlashSize, Len(t) = m,
                    \A i \in 1 .. m : t[i] = mem[addr + n + i - 1]
             PROVE Held(addr, n) \o t = Held(addr, n + m)
  OBVIOUS
<1> DEFINE s == Held(addr, n)
<1>1. s \in Seq(Int) /\ Len(s) = n /\ \A i \in 1 .. n : s[i] = mem[addr + i - 1]
  BY HeldFacts
<1>2. /\ Held(addr, n + m) \in Seq(Int) /\ Len(Held(addr, n + m)) = n + m
      /\ \A i \in 1 .. n + m : Held(addr, n + m)[i] = mem[addr + i - 1]
  <2>1. n + m \in Nat /\ addr + (n + m) <= FlashSize
    OBVIOUS
  <2> QED BY <2>1, HeldFacts
<1> HIDE DEF s
<1>3. /\ s \o t \in Seq(Int) /\ Len(s \o t) = n + m
      /\ \A i \in 1 .. n + m : (s \o t)[i] = IF i <= n THEN s[i] ELSE t[i - n]
  BY <1>1, ConcatProperties, Zenon
<1>4. ASSUME NEW i \in 1 .. n + m PROVE (s \o t)[i] = Held(addr, n + m)[i]
  <2>1. CASE i <= n
    <3>1. (s \o t)[i] = s[i]
      BY <2>1, <1>3, Zenon
    <3>2. i \in 1 .. n
      BY <2>1
    <3> QED BY <3>1, <3>2, <1>1, <1>2, Zenon
  <2>2. CASE ~ (i <= n)
    <3>1. i - n \in 1 .. m /\ addr + n + (i - n) - 1 = addr + i - 1
      BY <2>2
    <3>2. t[i - n] = mem[addr + n + (i - n) - 1]
      BY <3>1
    <3>3. (s \o t)[i] = t[i - n]
      BY <2>2, <1>3, Zenon
    <3> QED BY <3>1, <3>2, <3>3, <1>2, Zenon
  <2> QED BY <2>1, <2>2, Zenon
<1>5. s \o t = Held(addr, n + m)
  BY <1>2, <1>3, <1>4, SeqEqual, Zenon
<1> QED BY <1>5 DEF s

(* A word of a reply holds the bytes behind the ones received before it.   *)
LEMMA WordRead ==
  ASSUME Flash!QspiFlashAssumption, MemType, Flash!idle,
         NEW addr \in Nat, NEW n \in Nat, NEW dummy \in {0, 1}, addr + n <= FlashSize,
         NEW w \in Nat \ {0}
  PROVE Held(addr, Received(n, dummy, w - 1))
          \o Flash!taken(Flash!reply(addr, w, dummy),
                         Flash!Smaller(n - Len(Held(addr, Received(n, dummy, w - 1))), WORD),
                         IF w = 1 THEN dummy ELSE 0)
        = Held(addr, Received(n, dummy, w))
<1> DEFINE had == Received(n, dummy, w - 1)
           r == Flash!reply(addr, w, dummy)
           d == IF w = 1 THEN dummy ELSE 0
           size_ == Flash!Smaller(n - had, WORD)
           t == Flash!taken(r, size_, d)
<1>1. FlashSize \in Nat \ {0} /\ WORD \in Nat \ {0}
  BY DEF Flash!QspiFlashAssumption
<1>p. PICK p \in Nat : /\ p = WORD * (w - 1) /\ WORD * w = p + WORD
                       /\ w = 1 <=> p = 0
  <2>1. /\ WORD * (w - 1) \in Nat /\ WORD * w = WORD * (w - 1) + WORD
        /\ w = 1 <=> WORD * (w - 1) = 0
    BY <1>1
  <2> QED BY <2>1
<1>q. w # 1 => p >= WORD
  <2>1. w # 1 => WORD * (w - 1) >= WORD
    BY <1>1
  <2> QED BY <2>1, <1>p
<1>2. had = IF w = 1 THEN 0 ELSE IF n < p - dummy THEN n ELSE p - dummy
  BY <1>p, <1>1 DEF Received, Flash!Smaller
<1>3. Received(n, dummy, w) = IF n < p + WORD - dummy THEN n ELSE p + WORD - dummy
  BY <1>p, <1>1 DEF Received, Flash!Smaller
<1>4. had \in Nat /\ had <= n
  BY <1>1, <1>2, <1>p, <1>q
<1>5. size_ = IF n - had < WORD THEN n - had ELSE WORD
  BY DEF Flash!Smaller
<1>6. r = [b \in 1 .. WORD |-> IF p + b - 1 - dummy < 0 \/ addr + (p + b - 1 - dummy) >= FlashSize
                               THEN 0 ELSE mem[addr + (p + b - 1 - dummy)]]
  BY <1>p DEF Flash!reply
<1> HIDE DEF had, r, size_
<1>7. r \in Seq(Int) /\ Len(r) = WORD
  <2>1. ASSUME NEW b \in 1 .. WORD,
               ~ (p + b - 1 - dummy < 0 \/ addr + (p + b - 1 - dummy) >= FlashSize)
        PROVE mem[addr + (p + b - 1 - dummy)] \in Int
    BY <2>1, <1>1 DEF MemType
  <2> QED BY <1>6, <1>1, <2>1
<1>8. PICK m \in Nat : Received(n, dummy, w) = had + m
  <2>1. Received(n, dummy, w) - had \in Nat
    BY <1>2, <1>3, <1>1, <1>p, <1>q, <1>4
  <2>2. Received(n, dummy, w) = had + (Received(n, dummy, w) - had)
    BY <2>1, <1>4, <1>3, <1>1, <1>p
  <2> QED BY <2>1, <2>2
<1>f. PICK from \in {1, 2} : from = IF d = 1 THEN 2 ELSE 1
  OBVIOUS
<1>9. t = SubSeq(r, from, from + m - 1) /\ from + m - 1 <= WORD
  <2>1. CASE w = 1 /\ dummy = 1
    <3>1. t = SubSeq(r, 2, Flash!Smaller(size_ + 1, WORD)) /\ from = 2
      BY <2>1, <1>f DEF Flash!taken
    <3>2. Flash!Smaller(size_ + 1, WORD) = m + 1 /\ m + 1 <= WORD
      BY <2>1, <1>1, <1>p, <1>2, <1>3, <1>5, <1>8 DEF Flash!Smaller
    <3> QED BY <3>1, <3>2
  <2>2. CASE ~ (w = 1 /\ dummy = 1)
    <3>0. d # 1
      BY <2>2
    <3>1. t = SubSeq(r, 1, size_) /\ from = 1
      BY <3>0, <1>f DEF Flash!taken
    <3>2. size_ = m /\ m <= WORD
      BY <2>2, <1>1, <1>p, <1>q, <1>2, <1>3, <1>5, <1>8
    <3> QED BY <3>1, <3>2
  <2> QED BY <2>1, <2>2
<1> HIDE DEF t
<1>10. t \in Seq(Int) /\ Len(t) = m /\ \A i \in 1 .. m : t[i] = r[from + i - 1]
  BY <1>7, <1>9, <1>1
<1>11. ASSUME NEW i \in 1 .. m PROVE t[i] = mem[addr + had + i - 1]
  <2>1. p + (from + i - 1) - 1 - dummy = had + i - 1
    <3>1. had < n
      BY <1>8, <1>3, <1>4
    <3>2. CASE w = 1
      BY <3>2, <1>f, <1>2, <1>p DEF d
    <3>3. CASE w # 1
      BY <3>1, <3>3, <1>f, <1>2, <1>p DEF d
    <3> QED BY <3>2, <3>3
  <2>2. from + i - 1 \in 1 .. WORD
    BY <1>9, <1>1
  <2>3. had + i - 1 >= 0 /\ addr + (had + i - 1) < FlashSize
    BY <1>8, <1>3, <1>4, <1>1
  <2>4. PICK b \in 1 .. WORD : b = from + i - 1
    BY <2>2
  <2>5. p + b - 1 - dummy = had + i - 1
    BY <2>1, <2>4
  <2>6. r[b] = mem[addr + (p + b - 1 - dummy)]
    BY <1>6, <2>5, <2>3, <1>1
  <2>7. addr + (had + i - 1) = addr + had + i - 1
    BY <1>4
  <2>8. t[i] = r[b]
    BY <1>10, <2>4
  <2> QED BY <2>5, <2>6, <2>7, <2>8, Zenon
<1>12. addr + had + m <= FlashSize
  BY <1>8, <1>3, <1>4, <1>1, <1>p, <1>q
<1>13. Held(addr, had) \o t = Held(addr, had + m)
  <2>1. FlashSize \in Nat
    BY <1>1
  <2>2. \A i \in 1 .. m : t[i] = mem[addr + had + i - 1]
    BY <1>11
  <2>3. \A x \in Seq(Int) : addr + had + m <= FlashSize /\ Len(x) = m
            /\ (\A i \in 1 .. m : x[i] = mem[addr + had + i - 1])
          => Held(addr, had) \o x = Held(addr, had + m)
    BY <2>1, <1>4, HeldJoin, Zenon
  <2> QED BY <2>2, <2>3, <1>10, <1>12, Zenon
<1>14. Len(Held(addr, had)) = had
  BY HeldFacts, <1>4, <1>1
<1> QED
  <2>1. Held(addr, had) \o Flash!taken(r, Flash!Smaller(n - Len(Held(addr, had)), WORD), d)
         = Held(addr, Received(n, dummy, w))
    BY <1>13, <1>14, <1>8 DEF t, size_
  <2> QED BY <2>1 DEF had, r

(* A set of naturals with an element has a least one.                      *)
LEMMA LeastNumber ==
  ASSUME NEW S, S \subseteq Nat, S # {}
  PROVE \E x \in S : \A y \in S : x <= y
<1>1. PICK x \in S : \A y \in S : <<y, x>> \notin OpToRel(<, Nat)
  BY NatLessThanWellFounded, WFMin
<1>2. \A y \in S : ~ (y < x)
  BY <1>1, Zenon DEF OpToRel
<1> QED BY <1>2

LEMMA NoBytes == Held(0, 0) = <<>> /\ \A addr \in Nat : Held(addr, 0) = <<>>
BY DEF Held

LEMMA ReceivedFacts ==
  ASSUME Flash!QspiFlashAssumption, NEW n \in Nat, NEW dummy \in {0, 1}, NEW w \in Nat
  PROVE Received(n, dummy, w) \in Nat /\ Received(n, dummy, w) <= n
<1>1. WORD \in Nat \ {0}
  BY DEF Flash!QspiFlashAssumption
<1>2. w # 0 => WORD * w >= 1 /\ WORD * w \in Nat
  BY <1>1
<1> QED BY <1>2 DEF Received, Flash!Smaller

LEMMA EnoughWords ==
  ASSUME Flash!QspiFlashAssumption, NEW n \in Nat, NEW dummy \in {0, 1}
  PROVE LET w == (n + dummy + WORD - 1) \div WORD
        IN w \in Nat /\ Received(n, dummy, w) = n
<1> DEFINE x == n + dummy + WORD - 1
           w == x \div WORD
<1>1. WORD \in Nat \ {0}
  BY DEF Flash!QspiFlashAssumption
<1>2. x \in Nat
  BY <1>1
<1>3. w \in Nat /\ WORD * w <= x /\ x < WORD * w + WORD
  <2> HIDE DEF x
  <2> QED BY <1>1, <1>2
<1>4. w = 0 => n = 0
  <2>1. w = 0 => x < WORD
    BY <1>1, <1>3
  <2> QED BY <2>1, <1>1
<1>5. WORD * w >= n + dummy
  <2>1. PICK p \in Int : p = WORD * w
    BY <1>1, <1>3
  <2> QED BY <2>1, <1>3, <1>1
<1>6. Received(n, dummy, w) = n
  <2>1. PICK p \in Nat : p = WORD * w
    BY <1>1, <1>3
  <2> HIDE DEF w
  <2> QED BY <2>1, <1>4, <1>5 DEF Received, Flash!Smaller
<1> QED BY <1>3, <1>6

(* A chunk that is read is what the flash holds.                           *)
LEMMA ChunkRead ==
  ASSUME Flash!QspiFlashAssumption, MemType, Flash!idle,
         NEW addr \in Nat, NEW n \in Nat, NEW dummy \in {0, 1}, addr + n <= FlashSize
  PROVE Flash!read_chunk(addr, n, dummy) = Held(addr, n)
<1> DEFINE g == [w \in Nat |-> Held(addr, Received(n, dummy, w))]
           next(buf, w) == buf \o Flash!taken(Flash!reply(addr, w, dummy),
                                              Flash!Smaller(n - Len(buf), WORD),
                                              IF w = 1 THEN dummy ELSE 0)
<1>1. Held(addr, Received(n, dummy, 0)) = <<>>
  BY NoBytes DEF Received
<1>2. ASSUME NEW w \in Nat, w # 0
      PROVE next(Held(addr, Received(n, dummy, w - 1)), w) = Held(addr, Received(n, dummy, w))
  <2>1. w \in Nat \ {0}
    BY <1>2
  <2> QED BY <2>1, WordRead, Zenon
<1>3. Chunks(g, addr, n, dummy)
  <2>1. ASSUME NEW w \in Nat
        PROVE g[w] = IF w = 0 THEN <<>> ELSE next(g[w - 1], w)
    <3>1. CASE w = 0
      BY <3>1, <1>1
    <3>2. CASE w # 0
      <4>1. w - 1 \in Nat
        BY <3>2
      <4>2. /\ g[w - 1] = Held(addr, Received(n, dummy, w - 1))
            /\ g[w] = Held(addr, Received(n, dummy, w))
        BY <4>1
      <4> HIDE DEF g, next
      <4> QED BY <4>2, <3>2, <1>2
    <3> QED BY <3>1, <3>2
  <2>2. g = [w \in Nat |-> g[w]]
    OBVIOUS
  <2> HIDE DEF g
  <2>3. g = [w \in Nat |-> IF w = 0 THEN <<>> ELSE next(g[w - 1], w)]
    <3> HIDE DEF next
    <3> QED BY <2>1, <2>2, Zenon
  <2> QED BY <2>3 DEF Chunks
<1>4. PICK f : Chunks(f, addr, n, dummy)
               /\ Flash!read_chunk(addr, n, dummy) = f[(n + dummy + WORD - 1) \div WORD]
  <2> HIDE DEF g
  <2> QED BY <1>3, ChunkDefined
<1>5. \A w \in Nat : f[w] = IF w = 0 THEN <<>> ELSE next(f[w - 1], w)
  <2>1. f = [w \in Nat |-> IF w = 0 THEN <<>> ELSE next(f[w - 1], w)]
    BY <1>4 DEF Chunks
  <2> HIDE DEF next
  <2> QED BY <2>1
<1>6. ASSUME NEW w \in Nat PROVE f[w] = Held(addr, Received(n, dummy, w))
  <2> DEFINE wrong == {v \in Nat : f[v] # Held(addr, Received(n, dummy, v))}
  <2>1. SUFFICES ASSUME wrong # {} PROVE FALSE
    OBVIOUS
  <2>2. PICK v \in wrong : \A u \in wrong : v <= u
    <3>1. wrong \subseteq Nat
      OBVIOUS
    <3> HIDE DEF wrong
    <3> QED BY <2>1, <3>1, LeastNumber
  <2>3. v # 0
    BY <1>1, <1>5
  <2>4. v - 1 \in Nat /\ v - 1 \notin wrong
    BY <2>2, <2>3
  <2>5. f[v - 1] = Held(addr, Received(n, dummy, v - 1))
    BY <2>4
  <2>6. f[v] = next(f[v - 1], v)
    <3> HIDE DEF next
    <3> QED BY <1>5, <2>3
  <2>7. f[v] = Held(addr, Received(n, dummy, v))
    <3> HIDE DEF next
    <3> QED BY <2>5, <2>6, <2>3, <1>2
  <2> QED BY <2>7
<1>7. /\ (n + dummy + WORD - 1) \div WORD \in Nat
      /\ Received(n, dummy, (n + dummy + WORD - 1) \div WORD) = n
  BY EnoughWords
<1> QED BY <1>4, <1>6, <1>7, Zenon

-----------------------------------------------------------------------------
(* The chunks of a read, from the last one backwards.                      *)
Reads(f, addr, len, dummy) ==
  f = [offset \in 0 .. len |->
        LET chunk_size == Flash!Smaller(Flash!max_chunk_size(dummy), len - offset)
        IN IF offset = len THEN <<>>
           ELSE Flash!read_chunk(addr + offset, chunk_size, dummy) \o f[offset + chunk_size]]

LEMMA ReadDefined ==
  ASSUME NEW addr, NEW len, NEW dummy, \E g : Reads(g, addr, len, dummy)
  PROVE \E f : Reads(f, addr, len, dummy) /\ Flash!generic_read(addr, len, dummy) = f[0]
<1> DEFINE rest[offset \in 0 .. len] ==
        LET chunk_size == Flash!Smaller(Flash!max_chunk_size(dummy), len - offset)
        IN IF offset = len THEN <<>>
           ELSE Flash!read_chunk(addr + offset, chunk_size, dummy) \o rest[offset + chunk_size]
<1>1. rest = CHOOSE f : Reads(f, addr, len, dummy)
  BY DEF Reads
<1>2. Flash!generic_read(addr, len, dummy) = rest[0]
  BY DEF Flash!generic_read
<1> HIDE DEF rest
<1>3. Reads(rest, addr, len, dummy)
  BY <1>1
<1> QED BY <1>2, <1>3

(* A read returns what the flash holds, in however many chunks and words,  *)
(* with a dummy byte or without: generic_read in qspi_spansion.rs.         *)
THEOREM ReadsWhatIsHeld ==
  ASSUME Flash!QspiFlashAssumption, MemType, Flash!idle,
         NEW addr \in Nat, NEW len \in Nat, NEW dummy \in {0, 1}, addr + len <= FlashSize
  PROVE Flash!generic_read(addr, len, dummy) = [i \in 1 .. len |-> mem[addr + i - 1]]
<1> DEFINE right(o) == Held(addr + o, len - o)
           size_(o) == Flash!Smaller(Flash!max_chunk_size(dummy), len - o)
           next(f, o) == IF o = len THEN <<>>
                         ELSE Flash!read_chunk(addr + o, size_(o), dummy) \o f[o + size_(o)]
           g == [o \in 0 .. len |-> right(o)]
<1>1. FlashSize \in Nat /\ Flash!max_chunk_size(dummy) \in Nat \ {0}
  <2>1. /\ QSPI_FIFO_DEPTH \in Nat /\ WORD \in Nat /\ (QSPI_FIFO_DEPTH - 1) * WORD > 1
        /\ FlashSize \in Nat
    BY DEF Flash!QspiFlashAssumption
  <2>2. (QSPI_FIFO_DEPTH - 1) * WORD \in Int
    BY <2>1
  <2> QED BY <2>1, <2>2 DEF Flash!max_chunk_size
<1>2. ASSUME NEW o \in 0 .. len, o # len
      PROVE /\ size_(o) \in Nat \ {0} /\ o + size_(o) \in 0 .. len /\ o + size_(o) > o
  BY <1>1, <1>2 DEF Flash!Smaller
<1>3. ASSUME NEW o \in 0 .. len, o # len
      PROVE Flash!read_chunk(addr + o, size_(o), dummy) \o right(o + size_(o)) = right(o)
  <2>1. PICK n \in Nat \ {0} : n = size_(o)
    BY <1>2, <1>3
  <2> HIDE DEF size_
  <2>2. o + n \in 0 .. len /\ n \in Nat
    BY <2>1, <1>2, <1>3
  <2>3. addr + o \in Nat /\ addr + o + n <= FlashSize
    BY <2>2, <1>1
  <2>4. Flash!read_chunk(addr + o, n, dummy) = Held(addr + o, n)
    BY <2>2, <2>3, ChunkRead, Zenon
  <2>5. PICK m \in Nat : m = len - (o + n)
    BY <2>2
  <2>6. addr + o + n + m <= FlashSize /\ len - o = n + m /\ addr + (o + n) = addr + o + n
    BY <2>5, <2>2, <1>1
  <2>7. addr + o + n \in Nat /\ addr + o + n + m <= FlashSize
    BY <2>6, <2>3, <2>2
  <2>8. /\ Held(addr + o + n, m) \in Seq(Int) /\ Len(Held(addr + o + n, m)) = m
        /\ \A i \in 1 .. m : Held(addr + o + n, m)[i] = mem[addr + o + n + i - 1]
    BY <2>7, <1>1, HeldFacts
  <2>9. Held(addr + o, n) \o Held(addr + o + n, m) = Held(addr + o, n + m)
    <3>1. \A x \in Seq(Int) :
            addr + o + n + m <= FlashSize /\ Len(x) = m
            /\ (\A i \in 1 .. m : x[i] = mem[addr + o + n + i - 1])
            => Held(addr + o, n) \o x = Held(addr + o, n + m)
      BY <2>3, <2>2, <1>1, HeldJoin, Zenon
    <3> QED BY <3>1, <2>8, <2>6, Zenon
  <2> QED BY <2>1, <2>4, <2>5, <2>6, <2>9, Zenon
<1>4. right(len) = <<>>
  <2>1. len - len = 0 /\ addr + len \in Nat
    OBVIOUS
  <2> QED BY <2>1, NoBytes, Zenon
<1> HIDE DEF right, size_
<1>5. Reads(g, addr, len, dummy)
  <2>1. ASSUME NEW o \in 0 .. len PROVE g[o] = next(g, o)
    <3>1. CASE o = len
      BY <3>1, <1>4
    <3>2. CASE o # len
      <4>1. g[o + size_(o)] = right(o + size_(o)) /\ g[o] = right(o)
        BY <1>2, <3>2
      <4>2. next(g, o) = Flash!read_chunk(addr + o, size_(o), dummy) \o g[o + size_(o)]
        BY <3>2, Zenon
      <4> QED BY <4>1, <4>2, <3>2, <1>3, Zenon
    <3> QED BY <3>1, <3>2, Zenon
  <2>2. g = [o \in 0 .. len |-> g[o]]
    OBVIOUS
  <2> HIDE DEF g
  <2>3. g = [o \in 0 .. len |-> next(g, o)]
    <3> HIDE DEF next
    <3> QED BY <2>1, <2>2, Zenon
  <2> QED BY <2>3, Zenon DEF Reads, size_
<1>6. PICK f : Reads(f, addr, len, dummy) /\ Flash!generic_read(addr, len, dummy) = f[0]
  <2> HIDE DEF g
  <2> QED BY <1>5, ReadDefined, Zenon
<1>7. \A o \in 0 .. len : f[o] = next(f, o)
  <2>1. f = [o \in 0 .. len |-> next(f, o)]
    BY <1>6, Zenon DEF Reads, size_
  <2> HIDE DEF next
  <2> QED BY <2>1
<1>8. f[0] = right(0)
  <2> DEFINE wrong == {d \in 0 .. len : f[len - d] # right(len - d)}
  <2>1. SUFFICES ASSUME wrong # {} PROVE FALSE
    <3>1. len \in 0 .. len /\ len - len = 0
      OBVIOUS
    <3> QED BY <3>1
  <2>2. PICK d \in wrong : \A e \in wrong : d <= e
    <3>1. wrong \subseteq Nat
      OBVIOUS
    <3> HIDE DEF wrong
    <3> QED BY <2>1, <3>1, LeastNumber
  <2>3. PICK o \in 0 .. len : o = len - d /\ d = len - o
    BY <2>2
  <2>4. f[o] # right(o)
    BY <2>2, <2>3
  <2>5. o # len
    BY <1>4, <1>7, <2>4
  <2>6. PICK n \in Nat \ {0} : n = size_(o) /\ o + n \in 0 .. len
    BY <1>2, <2>5
  <2>7. f[o + n] = right(o + n)
    <3>1. d - n \in 0 .. len /\ len - (d - n) = o + n /\ ~ (d <= d - n)
      BY <2>6, <2>3, <2>2
    <3>2. d - n \notin wrong
      BY <3>1, <2>2
    <3> QED BY <3>1, <3>2
  <2>8. f[o] = Flash!read_chunk(addr + o, size_(o), dummy) \o f[o + size_(o)]
    BY <1>7, <2>5, Zenon
  <2>9. f[o] = right(o)
    BY <2>8, <2>7, <2>6, <2>5, <1>3, Zenon
  <2> QED BY <2>9, <2>4
<1>9. addr + 0 = addr /\ len - 0 = len
  OBVIOUS
<1> QED BY <1>6, <1>8, <1>9, Zenon DEF right, Held

-----------------------------------------------------------------------------
(* What is below current_addr has been read back, in full, and is not      *)
(* erased or programmed again: both begin at current_addr.                 *)
FlashInv ==
  /\ MemType /\ shifted \in Nat /\ current_addr \in Nat /\ boot_bin_size \in 1 .. FlashSize
  /\ current_addr <= boot_bin_size
  /\ step = "done" => current_addr = boot_bin_size
  /\ step = "verify" => Flash!idle
  /\ \A i \in 0 .. current_addr - 1 : mem[i] = Flash!boot_bin(i)

LEMMA FlashInit == ASSUME Flash!QspiFlashAssumption PROVE Flash!QspiInit => FlashInv
<1> SUFFICES ASSUME Flash!QspiInit PROVE FlashInv
  OBVIOUS
<1>1. MemType
  BY DEF Flash!QspiInit, MemType, Flash!OLD
<1>2. boot_bin_size \in 1 .. FlashSize /\ FlashSize \in Nat
  BY DEF Flash!QspiInit, Flash!QspiFlashAssumption
<1> QED BY <1>1, <1>2 DEF Flash!QspiInit, FlashInv

(* A step that neither goes on in the image nor enters one of these steps. *)
LEMMA FlashStays ==
  ASSUME FlashInv, UNCHANGED <<mem, boot_bin_size, current_addr>>, shifted' \in Nat,
         step' # "done" \/ step' = step,
         step' # "verify" \/ (step' = step /\ flash' = flash) \/ Flash!idle'
  PROVE FlashInv'
<1>1. MemType' /\ Flash!idle' = (flash'.busy = "none")
  BY DEF FlashInv, MemType, Flash!idle
<1> QED BY <1>1 DEF FlashInv, Flash!boot_bin, Flash!idle

LEMMA FlashVerify ==
  ASSUME Flash!QspiFlashAssumption, FlashInv, Flash!verify PROVE FlashInv'
<1> DEFINE n == Flash!write_size
           read_back == Flash!generic_read(current_addr, n, 1)
<1>1. /\ FlashSize \in Nat /\ RECOMMENDED_PROGRAM_PAGE_SIZE \in Nat \ {0}
      /\ n \in Nat /\ current_addr + n <= boot_bin_size /\ current_addr + n <= FlashSize
  BY DEF Flash!QspiFlashAssumption, FlashInv, Flash!write_size, Flash!Smaller
<1>2. step = "verify" /\ Flash!idle /\ MemType /\ current_addr \in Nat
  BY DEF Flash!verify, FlashInv
<1>3. read_back = [i \in 1 .. n |-> mem[current_addr + i - 1]]
  <2>1. \A a, k \in Nat : a + k <= FlashSize
          => Flash!generic_read(a, k, 1) = [i \in 1 .. k |-> mem[a + i - 1]]
    BY <1>2, ReadsWhatIsHeld
  <2> HIDE DEF n
  <2> QED BY <2>1, <1>1, <1>2, Zenon
<1>4. CASE read_back = Flash!write_slice
  <2>1. /\ step' = "loop" /\ current_addr' = current_addr + n
        /\ UNCHANGED <<mem, flash, shifted, boot_bin_size>>
    BY <1>4 DEF Flash!verify, Flash!wires
  <2>2. ASSUME NEW i \in current_addr .. current_addr + n - 1
        PROVE mem[i] = Flash!boot_bin(i)
    <3> HIDE DEF n, read_back
    <3>1. PICK j \in 1 .. n : j = i - current_addr + 1 /\ current_addr + j - 1 = i
      BY <1>1, <1>2
    <3>2. read_back[j] = mem[i]
      BY <1>3, <3>1
    <3>3. Flash!write_slice[j] = Flash!boot_bin(i)
      <4>1. Flash!write_slice = [k \in 1 .. n |-> Flash!boot_bin(current_addr + k - 1)]
        BY DEF Flash!write_slice, n
      <4> QED BY <4>1, <3>1
    <3> QED BY <3>2, <3>3, <1>4
  <2> HIDE DEF n
  <2>3. ASSUME NEW i \in 0 .. current_addr' - 1
        PROVE mem'[i] = Flash!boot_bin(i)'
    <3>1. CASE i < current_addr
      BY <3>1, <2>1, <1>2 DEF FlashInv, Flash!boot_bin
    <3>2. CASE ~ (i < current_addr)
      BY <3>2, <2>1, <2>2, <1>1, <1>2 DEF Flash!boot_bin
    <3> QED BY <3>1, <3>2
  <2>4. MemType' /\ shifted' \in Nat /\ current_addr' \in Nat /\ boot_bin_size' \in 1 .. FlashSize
        /\ current_addr' <= boot_bin_size'
    BY <2>1, <1>1, <1>2 DEF FlashInv, MemType
  <2> QED BY <2>1, <2>3, <2>4, Zenon DEF FlashInv
<1>5. CASE read_back # Flash!write_slice
  <2>1. step' = "panic" /\ UNCHANGED <<mem, flash, shifted, boot_bin_size, current_addr>>
    BY <1>5 DEF Flash!verify, Flash!wires
  <2> QED BY <2>1, FlashStays DEF FlashInv
<1> QED BY <1>4, <1>5

LEMMA FlashDone ==
  ASSUME Flash!QspiFlashAssumption, FlashInv, Flash!flash_done PROVE FlashInv'
<1>1. /\ UNCHANGED <<step, current_addr, boot_bin_size, shifted>>
      /\ step # "verify" /\ current_addr \in Nat /\ shifted \in Nat
      /\ boot_bin_size \in 1 .. FlashSize
      /\ FlashSize \in Nat /\ WORD \in Nat /\ SECTOR_SIZE \in Nat
  BY DEF Flash!flash_done, FlashInv, Flash!wires, Flash!QspiFlashAssumption
<1> DEFINE changed(i) ==
             CASE flash.busy = "erase" /\ i \in Flash!sector -> Flash!ERASED
               [] flash.busy = "program" /\ i \in Flash!programmed
                    -> Flash!program_byte(mem[i], Flash!boot_bin(i))
               [] OTHER -> mem[i]
<1>2. mem' = [i \in 0 .. FlashSize - 1 |-> changed(i)]
  BY DEF Flash!flash_done, FlashInv, MemType
<1>3. ASSUME NEW i \in 0 .. FlashSize - 1 PROVE changed(i) \in Int
  <2>1. mem[i] \in Int
    BY DEF FlashInv, MemType
  <2>2. Flash!program_byte(mem[i], Flash!boot_bin(i)) \in Int
    BY <2>1 DEF Flash!program_byte, Flash!boot_bin, Flash!MANGLED
  <2> QED BY <2>1, <2>2 DEF Flash!ERASED
<1>4. ASSUME NEW i \in 0 .. current_addr - 1 PROVE changed(i) = mem[i]
  <2>1. i \notin Flash!sector
    BY <1>1 DEF Flash!sector
  <2>2. (shifted - 1) * WORD \in Int
    BY <1>1
  <2>3. i \notin Flash!programmed
    BY <1>1, <2>2 DEF Flash!programmed
  <2> QED BY <2>1, <2>3
<1> HIDE DEF changed
<1>5. MemType'
  BY <1>2, <1>3 DEF MemType
<1>6. ASSUME NEW i \in 0 .. current_addr' - 1 PROVE mem'[i] = Flash!boot_bin(i)'
  <2>1. i \in 0 .. current_addr - 1 /\ i \in 0 .. FlashSize - 1
    BY <1>1 DEF FlashInv
  <2>2. mem[i] = Flash!boot_bin(i)
    BY <2>1 DEF FlashInv
  <2> QED BY <2>1, <2>2, <1>2, <1>4 DEF Flash!boot_bin
<1>7. /\ current_addr' <= boot_bin_size' /\ (step' = "done" => current_addr' = boot_bin_size')
  BY <1>1 DEF FlashInv
<1> QED BY <1>1, <1>5, <1>6, <1>7, Zenon DEF FlashInv

LEMMA FlashStep ==
  ASSUME Flash!QspiFlashAssumption PROVE FlashInv /\ [Flash!QspiNext]_(Flash!qspiVars) => FlashInv'
<1> SUFFICES ASSUME FlashInv, [Flash!QspiNext]_(Flash!qspiVars) PROVE FlashInv'
  OBVIOUS
<1>0. /\ shifted \in Nat /\ current_addr \in Nat /\ boot_bin_size \in Nat
      /\ current_addr <= boot_bin_size
  BY DEF FlashInv
<1>1. CASE Flash!new
  BY <1>0, <1>1, FlashStays DEF Flash!new, Flash!wires
<1>2. CASE Flash!flash_next
  <2>1. CASE current_addr >= boot_bin_size
    <3>1. step' = "done" /\ current_addr = boot_bin_size
      BY <1>2, <2>1, <1>0 DEF Flash!flash_next
    <3>2. UNCHANGED <<mem, flash, shifted, current_addr, boot_bin_size>>
      BY <1>2 DEF Flash!flash_next, Flash!wires
    <3>3. MemType'
      BY <3>2 DEF FlashInv, MemType
    <3> QED BY <3>1, <3>2, <3>3 DEF FlashInv, Flash!boot_bin
  <2>2. CASE ~ (current_addr >= boot_bin_size)
    <3>1. step' \in {"erase", "program"}
      <4>1. current_addr < boot_bin_size
        BY <2>2, <1>0
      <4> QED BY <4>1, <1>2, <2>2 DEF Flash!flash_next
    <3> QED BY <3>1, <1>0, <1>2, FlashStays DEF Flash!flash_next, Flash!wires
  <2> QED BY <2>1, <2>2
<1>3. CASE Flash!erase_sector
  <2>1. CASE Flash!check_erase
    BY <1>0, <2>1, FlashStays DEF Flash!check_erase, Flash!wires
  <2>2. CASE Flash!write_enable("erase_enable", "erase_command")
    BY <1>0, <2>2, FlashStays DEF Flash!write_enable, Flash!wires
  <2>3. CASE Flash!sector_erase
    BY <1>0, <2>3, FlashStays DEF Flash!sector_erase, Flash!wires
  <2>4. CASE Flash!poll("erase_poll", "program")
    BY <1>0, <2>4, FlashStays DEF Flash!poll, Flash!wires
  <2> QED BY <1>3, <2>1, <2>2, <2>3, <2>4 DEF Flash!erase_sector
<1>4. CASE Flash!program
  <2>1. CASE Flash!check_program
    BY <1>0, <2>1, FlashStays DEF Flash!check_program, Flash!wires
  <2>2. CASE Flash!write_enable("program_enable", "program_start")
    BY <1>0, <2>2, FlashStays DEF Flash!write_enable, Flash!wires
  <2>3. CASE Flash!program_start
    BY <1>0, <2>3, FlashStays DEF Flash!program_start
  <2>4. CASE Flash!program_receive
    BY <1>0, <2>4, FlashStays DEF Flash!program_receive
  <2>5. CASE Flash!program_drop
    BY <1>0, <2>5, FlashStays DEF Flash!program_drop
  <2>6. CASE Flash!poll("program_poll", "verify")
    <3>1. /\ step' # "done" /\ UNCHANGED <<mem, boot_bin_size, current_addr, shifted>>
          /\ step' # "verify" \/ (flash' = flash /\ Flash!idle)
      BY <2>6 DEF Flash!poll, Flash!wires
    <3>2. step' # "verify" \/ Flash!idle'
      BY <3>1 DEF Flash!idle
    <3> QED BY <3>1, <3>2, <1>0, FlashStays
  <2> QED BY <1>4, <2>1, <2>2, <2>3, <2>4, <2>5, <2>6 DEF Flash!program
<1>5. CASE Flash!verify
  BY <1>5, FlashVerify
<1>6. CASE Flash!shift_word
  BY <1>0, <1>6, FlashStays DEF Flash!shift_word
<1>7. CASE Flash!flash_done
  BY <1>7, FlashDone
<1>8. CASE Flash!flash_fails
  <2>1. step # "verify"
    BY <1>8 DEF Flash!flash_fails, FlashInv, Flash!idle
  <2> QED BY <2>1, <1>0, <1>8, FlashStays DEF Flash!flash_fails, Flash!wires
<1>9. CASE UNCHANGED Flash!qspiVars
  BY <1>0, <1>9, FlashStays DEF Flash!qspiVars
<1> QED BY <1>1, <1>2, <1>3, <1>4, <1>5, <1>6, <1>7, <1>8, <1>9
        DEF Flash!QspiNext, Flash!Flasher, Flash!Device

(* Once the flasher reports that it is done, the flash holds the image.    *)
THEOREM FlashHoldsImage == Flash!QspiSpec => []FlashedWhole
<1>1. Flash!QspiFlashAssumption
  BY MCPeripheralsAssumption
<1>2. FlashInv => FlashedWhole
  BY DEF FlashInv, FlashedWhole, Flash!FlashedWhole
<1>3. Flash!QspiInit => FlashInv
  BY <1>1, FlashInit
<1>4. FlashInv /\ [Flash!QspiNext]_(Flash!qspiVars) => FlashInv'
  BY <1>1, FlashStep
<1> QED BY <1>2, <1>3, <1>4, PTL DEF Flash!QspiSpec

-----------------------------------------------------------------------------
(* The pins of a GPIO bank.                                                *)

(* What the registers of the Flex pin have to be in its mode, and with the *)
(* level that was asked for.                                               *)
Output == pin_mode \in {"OutputPushPull", "OutputOpenDrain"}
Wanted(r) ==
  Output /\ (r = "out_en" /\ pin_mode = "OutputOpenDrain" => level["flex"] = "Low")

(* A pin that cannot be an input stays an output when asked to be one.     *)
Refused == kind = "mio7" /\ ~ Output

(* The output enable of the handler's pin; and whether it is right now.    *)
HandlerOn == handler_mode = "OutputOpenDrain" => level["handler"] = "Low"
Undisturbed(on) == "handler" \notin overtaken => (on <=> HandlerOn)

Steps ==
  [do : {"read"}, reg : {"dirm", "out_en"}]
    \cup [do : {"write"}, reg : {"dirm", "out_en"}, bit : BOOLEAN]
    \cup [do : {"state"}, level : Pins!Level]
    \cup [do : {"compare", "modify"}, tri : BOOLEAN, pullup : SUBSET BOOLEAN]
    \cup [do : {"unlock", "lock"}]

PinTypeOK ==
  /\ kind \in {"mio", "emio", "mio7"} /\ overtaken \subseteq Pins!Pin
  /\ handler_mode \in {"OutputPushPull", "OutputOpenDrain", "Periph"}
  /\ "handler" \in overtaken => handler_mode = "OutputOpenDrain"
  /\ bank \in [{"dirm", "out_en"} -> [Pins!Pin -> BOOLEAN]] /\ data_out \in [Pins!Pin -> Pins!Level]
  /\ mio \in [Pins!Pin -> Pins!MioConfig] /\ slcr_locked \in BOOLEAN
  /\ pin_mode \in {"OutputPushPull", "OutputOpenDrain", "InputFloating", "InputPullUp"}
  /\ steps \in Seq(Steps) /\ copy \in [Pins!Pin -> BOOLEAN] /\ level \in [Pins!Pin -> Pins!Level]

Before(s, i, d) == \E j \in 1 .. i - 1 : s[j].do = d

(* A register is written right after it was read, or after that and the    *)
(* level; the read has seen the bit of the handler's pin.                  *)
ReadFor(s, j, reg) == j \in DOMAIN s /\ s[j].do = "read" /\ s[j].reg = reg
CopyRight(reg) == IF reg = "dirm" THEN copy["handler"] ELSE Undisturbed(copy["handler"])
CopiesRight(s) ==
  \A i \in DOMAIN s : s[i].do = "write" =>
    \/ ReadFor(s, i - 1, s[i].reg)
    \/ ReadFor(s, i - 2, s[i].reg) /\ s[i - 1].do = "state"
    \/ CopyRight(s[i].reg) /\ (i = 1 \/ (i = 2 /\ s[1].do = "state"))

(* What is written is what is wanted.                                      *)
WritesRight(s) ==
  \A i \in DOMAIN s : s[i].do = "write" => s[i].bit = Wanted(s[i].reg)
RegistersCome(s) ==
  \A r \in {"dirm", "out_en"} :
     bank[r]["flex"] = Wanted(r) \/ \E i \in DOMAIN s : s[i].do = "write" /\ s[i].reg = r

(* The level is what was asked for, or will be; an open-drain pin gets no  *)
(* other than the low one.                                                 *)
LevelsRight(s) ==
  \A i \in DOMAIN s : s[i].do = "state" =>
    Output /\ s[i].level = level["flex"] /\ (pin_mode = "OutputOpenDrain" => level["flex"] = "Low")
LevelComes(s) ==
  Output /\ (pin_mode = "OutputOpenDrain" => level["flex"] = "Low") =>
    data_out["flex"] = level["flex"] \/ \E i \in DOMAIN s : s[i].do = "state"

(* While an open-drain pin is set it drives no high level.                 *)
LowFirst(s) ==
  pin_mode = "OutputOpenDrain" /\ pin_call = "set" =>
    /\ bank["out_en"]["flex"] => data_out["flex"] = "Low"
    /\ \A i \in DOMAIN s : s[i].do = "write" /\ s[i].reg = "out_en" /\ s[i].bit =>
          data_out["flex"] = "Low" \/ Before(s, i, "state")

(* The multiplexer is connected, or will be while the SLCR is unlocked,    *)
(* unless the handler has locked it in between.                            *)
MuxRight(s) ==
  \A i \in DOMAIN s :
    /\ s[i].do = "compare" => kind # "emio" /\ i = 1 /\ s[i].tri = ~ Output
    /\ s[i].do = "modify" =>
         /\ kind # "emio" /\ s[i].tri = ~ Output
         /\ \/ i = 1 /\ (~ slcr_locked \/ "flex" \in overtaken)
            \/ i = 2 /\ s[1].do = "unlock"
Connected(m) == m.mux = "Gpio" /\ m.tri = ~ Output
MuxComes(s) ==
  kind # "emio" =>
    \/ Connected(mio["flex"]) \/ "flex" \in overtaken
    \/ \E i \in DOMAIN s : s[i].do \in {"compare", "modify"}

HandlerRight ==
  /\ bank["dirm"]["handler"] /\ Undisturbed(bank["out_en"]["handler"])
  /\ handler_mode # "Periph" =>
       /\ mio["handler"].mux = "Gpio" /\ ~ mio["handler"].tri
       /\ handler_mode = "OutputPushPull" => data_out["handler"] = level["handler"]
       /\ handler_mode = "OutputOpenDrain" => data_out["handler"] = "Low"

FlexInv(s) ==
  /\ WritesRight(s) /\ RegistersCome(s) /\ LevelsRight(s) /\ LevelComes(s)
  /\ LowFirst(s) /\ MuxRight(s) /\ MuxComes(s)

PinInv ==
  /\ PinTypeOK /\ HandlerRight /\ CopiesRight(steps)
  /\ Refused \/ FlexInv(steps)

(* It is enough: when no step is left, nothing is to come.                 *)
LEMMA PinInvShows == ASSUME PinInv PROVE PinsAsAsked
<1>1. ASSUME steps = <<>>, "flex" \notin overtaken, ~ (kind = "mio7" /\ Pins!is_input)
      PROVE Pins!shows("flex", pin_mode, level["flex"])
  <2>1. FlexInv(steps)
    BY <1>1 DEF PinInv, PinTypeOK, Refused, Output, Pins!is_input
  <2>2. /\ \A r \in {"dirm", "out_en"} : bank[r]["flex"] = Wanted(r)
        /\ kind # "emio" => mio["flex"].mux = "Gpio" /\ mio["flex"].tri = ~ Output
        /\ Output /\ (pin_mode = "OutputOpenDrain" => level["flex"] = "Low") => data_out["flex"] = level["flex"]
    BY <1>1, <2>1 DEF FlexInv, RegistersCome, LevelComes, MuxComes, Connected
  <2> QED BY <2>2 DEF PinInv, PinTypeOK, Pins!shows, Pins!driven, Pins!connected, Wanted, Output, Pins!Pin, Pins!Level
<1>2. pin_mode = "OutputOpenDrain" /\ pin_call = "set" /\ Pins!driven("flex") => data_out["flex"] = "Low"
  BY DEF PinInv, Refused, Output, FlexInv, LowFirst, Pins!driven
<1>3. handler_mode # "Periph" /\ "handler" \notin overtaken =>
        Pins!shows("handler", handler_mode, level["handler"])
  BY DEF PinInv, PinTypeOK, HandlerRight, Undisturbed, HandlerOn, Pins!shows, Pins!driven, Pins!connected,
         Pins!Pin, Pins!Level
<1> QED BY <1>1, <1>2, <1>3 DEF PinsAsAsked, Pins!PinsAsAsked

-----------------------------------------------------------------------------
(* What is left of the steps once the first is done.                       *)
Shifts(s, t) ==
  /\ t \in Seq(Steps) /\ 1 \in DOMAIN s /\ Head(s) = s[1] /\ s[1] \in Steps
  /\ DOMAIN s = 1 .. Len(s) /\ DOMAIN t = 1 .. Len(t) /\ Len(s) \in Nat /\ Len(t) \in Nat
  /\ \A i \in DOMAIN t : i + 1 \in DOMAIN s /\ t[i] = s[i + 1]
  /\ \A d \in {"read", "write", "state", "compare", "modify", "unlock"} : s[1].do # d =>
       /\ \A i \in DOMAIN s : s[i].do = d => i - 1 \in DOMAIN t /\ t[i - 1] = s[i]
       /\ \A i \in DOMAIN t : Before(s, i + 1, d) => Before(t, i, d)

(* Tail takes one step away.                                               *)
LEMMA StepsShift ==
  ASSUME NEW s \in Seq(Steps), s # <<>>, NEW t, t = Tail(s) PROVE Shifts(s, t)
<1>1. /\ Len(s) \in Nat /\ Len(t) \in Nat /\ Len(t) = Len(s) - 1 /\ t \in Seq(Steps)
      /\ \A i \in 1 .. Len(t) : t[i] = s[i + 1]
      /\ DOMAIN s = 1 .. Len(s) /\ DOMAIN t = 1 .. Len(t) /\ Head(s) = s[1]
  BY HeadTailProperties
<1>2. 1 \in DOMAIN s /\ s[1] \in Steps
  BY <1>1
<1>3. \A i \in DOMAIN t : i + 1 \in DOMAIN s /\ t[i] = s[i + 1]
  BY <1>1
<1>4. \A i \in DOMAIN s : i = 1 \/ (i - 1 \in DOMAIN t /\ t[i - 1] = s[i])
  BY <1>1
<1>5. ASSUME NEW d, s[1].do # d
      PROVE  /\ \A i \in DOMAIN s : s[i].do = d => i - 1 \in DOMAIN t /\ t[i - 1] = s[i]
             /\ \A i \in DOMAIN t : Before(s, i + 1, d) => Before(t, i, d)
  <2>1. \A i \in DOMAIN s : s[i].do = d => i - 1 \in DOMAIN t /\ t[i - 1] = s[i]
    BY <1>4, <1>5
  <2>2. ASSUME NEW i \in DOMAIN t, NEW j \in 1 .. (i + 1) - 1, s[j].do = d
        PROVE  \E k \in 1 .. i - 1 : t[k].do = d
    <3>1. j - 1 \in 1 .. i - 1 /\ t[j - 1].do = d
      BY <1>1, <2>1, <2>2, <1>5
    <3> QED BY <3>1
  <2> QED BY <2>1, <2>2, Zenon DEF Before
<1> HIDE DEF Steps
<1> QED BY <1>1, <1>2, <1>3, <1>5, Zenon DEF Shifts

(* What is left of the steps after one that is no read.                    *)
LEMMA CopiesShift ==
  ASSUME NEW s, NEW t, Shifts(s, t), CopiesRight(s), s[1].do # "read"
  PROVE  CopiesRight(t)
<1>1. /\ DOMAIN s = 1 .. Len(s) /\ DOMAIN t = 1 .. Len(t) /\ Len(s) \in Nat /\ Len(t) \in Nat
      /\ \A i \in DOMAIN t : i + 1 \in DOMAIN s /\ t[i] = s[i + 1]
  BY DEF Shifts
<1> SUFFICES ASSUME NEW i \in DOMAIN t, t[i].do = "write"
             PROVE  \/ ReadFor(t, i - 1, t[i].reg)
                    \/ ReadFor(t, i - 2, t[i].reg) /\ t[i - 1].do = "state"
                    \/ CopyRight(t[i].reg) /\ (i = 1 \/ (i = 2 /\ t[1].do = "state"))
  BY DEF CopiesRight
<1>2. i \in Nat \ {0} /\ i + 1 \in DOMAIN s /\ t[i] = s[i + 1] /\ (i + 1) - 1 = i /\ (i + 1) - 2 = i - 1
  BY <1>1
<1>3. i # 1 => i - 1 \in DOMAIN t /\ t[i - 1] = s[i]
  BY <1>1
<1>4. i - 1 \in DOMAIN s /\ i - 1 # 1 => i - 2 \in DOMAIN t /\ t[i - 2] = s[i - 1]
  BY <1>1
<1>5. CASE ReadFor(s, i, t[i].reg)
  <2>1. i # 1
    BY <1>5 DEF ReadFor
  <2> QED BY <1>3, <1>5, <2>1 DEF ReadFor
<1>6. CASE ReadFor(s, i - 1, t[i].reg) /\ s[i].do = "state"
  <2>1. i - 1 \in DOMAIN s /\ i - 1 # 1
    BY <1>6 DEF ReadFor
  <2>2. i # 1
    BY <1>1, <2>1
  <2> QED BY <1>3, <1>4, <1>6, <2>1, <2>2 DEF ReadFor
<1>7. CASE CopyRight(t[i].reg) /\ (i + 1 = 1 \/ (i + 1 = 2 /\ s[1].do = "state"))
  <2>1. CopyRight(t[i].reg) /\ i = 1
    BY <1>2, <1>7
  <2> QED BY <2>1, Zenon
<1> QED BY <1>2, <1>5, <1>6, <1>7 DEF CopiesRight

(* Nothing that the copies depend on has changed.                          *)
LEMMA CopiesStay ==
  ASSUME NEW t, CopiesRight(t), steps' = t, UNCHANGED <<copy, overtaken, level, handler_mode>>
  PROVE  CopiesRight(steps)'
BY DEF CopiesRight, ReadFor, CopyRight, Undisturbed, HandlerOn

(* A step is done that changes nothing of the mode.                        *)
LEMMA PinRead == ASSUME PinInv, Pins!read_register PROVE PinInv'
<1>1. steps # <<>> /\ steps' = Tail(steps) /\ Head(steps).do = "read"
  BY DEF Pins!read_register, Pins!access
<1>2. UNCHANGED <<kind, handler_mode, bank, data_out, mio, slcr_locked, pin_mode, pin_call, level, overtaken>>
  BY DEF Pins!read_register, Pins!access, Pins!unchangedRegs
<1> Shifts(steps, steps')
  BY <1>1, StepsShift DEF PinInv, PinTypeOK
<1> USE <1>1, <1>2 DEF Shifts
<1>5. PICK r \in {"dirm", "out_en"} : r = steps[1].reg
  BY DEF Steps
<1>6. copy' = bank[r]
  BY <1>5, Zenon DEF Pins!read_register
<1>7. PinTypeOK' /\ HandlerRight'
  BY <1>5, <1>6, Zenon DEF PinInv, PinTypeOK, HandlerRight, Undisturbed, HandlerOn
<1>12. CopiesRight(steps)'
  <2>1. /\ bank["dirm"]["handler"] /\ Undisturbed(bank["out_en"]["handler"])
        /\ UNCHANGED <<overtaken, level, handler_mode>>
    BY DEF PinInv, HandlerRight
  <2>2. CopyRight(r)'
    BY <1>6, <2>1 DEF CopyRight, Undisturbed, HandlerOn
  <2>3. PICK t : t = steps'
    OBVIOUS
  <2>4. ASSUME NEW i \in DOMAIN t, t[i].do = "write"
        PROVE  \/ ReadFor(t, i - 1, t[i].reg)
               \/ ReadFor(t, i - 2, t[i].reg) /\ t[i - 1].do = "state"
               \/ t[i].reg = r /\ (i = 1 \/ (i = 2 /\ t[1].do = "state"))
    <3>1. /\ i + 1 \in DOMAIN steps /\ t[i] = steps[i + 1] /\ i \in 1 .. Len(t)
          /\ DOMAIN steps = 1 .. Len(steps) /\ DOMAIN t = 1 .. Len(t) /\ Len(t) \in Nat /\ Len(steps) \in Nat
          /\ \A j \in DOMAIN t : t[j] = steps[j + 1]
      BY <2>3, <2>4
    <3>2. CASE ReadFor(steps, i, t[i].reg)
      <4>1. i = 1 => t[i].reg = r
        BY <1>5, <3>2 DEF ReadFor
      <4>2. i # 1 => i - 1 \in DOMAIN t /\ t[i - 1] = steps[i]
        BY <3>1
      <4>3. i # 1 => ReadFor(t, i - 1, t[i].reg)
        BY <3>2, <4>2 DEF ReadFor
      <4> QED BY <4>1, <4>3, Zenon
    <3>3. CASE ReadFor(steps, i - 1, t[i].reg) /\ steps[i].do = "state"
      <4>1. i # 1
        BY <3>1, <3>3 DEF ReadFor
      <4>2. i - 1 \in DOMAIN t /\ t[i - 1] = steps[i]
        BY <3>1, <4>1
      <4>3. i = 2 => t[i].reg = r
        BY <1>5, <3>3 DEF ReadFor
      <4>4. i # 2 => i - 2 \in DOMAIN t /\ t[i - 2] = steps[i - 1]
        BY <3>1, <4>1
      <4> QED BY <3>1, <3>3, <4>1, <4>2, <4>3, <4>4 DEF ReadFor
    <3>4. CASE i + 1 = 1 \/ (i + 1 = 2 /\ steps[1].do = "state")
      BY <3>1, <3>4
    <3>5. /\ (i + 1) - 1 = i /\ (i + 1) - 2 = i - 1
      BY <3>1
    <3> QED BY <2>4, <3>1, <3>2, <3>3, <3>4, <3>5 DEF PinInv, CopiesRight
  <2> QED BY <2>2, <2>3, <2>4 DEF CopiesRight, ReadFor
<1>8. CASE ~ Refused
  <2>1. WritesRight(steps)' /\ RegistersCome(steps)'
    BY <1>8 DEF PinInv, FlexInv, WritesRight, RegistersCome, Wanted, Output
  <2>2. LevelsRight(steps)' /\ LevelComes(steps)'
    BY <1>8 DEF PinInv, FlexInv, LevelsRight, LevelComes, Output
  <2>3. LowFirst(steps)'
    BY <1>8 DEF PinInv, FlexInv, LowFirst
  <2>4. MuxRight(steps)' /\ MuxComes(steps)'
    BY <1>8 DEF PinInv, FlexInv, MuxRight, MuxComes, Connected, Output
  <2> QED BY <1>7, <1>12, <2>1, <2>2, <2>3, <2>4 DEF PinInv, FlexInv
<1>9. CASE Refused
  BY <1>7, <1>12, <1>9 DEF PinInv, Refused, Output
<1> QED BY <1>8, <1>9

(* A write of a register writes the bit wanted, and of the handler's pin   *)
(* what a read after the last change of it has seen.                       *)
LEMMA PinWrite == ASSUME PinInv, Pins!write_register PROVE PinInv'
<1>1. steps # <<>> /\ steps' = Tail(steps) /\ Head(steps).do = "write"
  BY DEF Pins!write_register, Pins!access
<1>2. UNCHANGED <<kind, handler_mode, data_out, mio, slcr_locked, copy, pin_mode, pin_call, level, overtaken>>
  BY DEF Pins!write_register, Pins!access
<1> Shifts(steps, steps')
  BY <1>1, StepsShift DEF PinInv, PinTypeOK
<1> USE <1>1, <1>2 DEF Shifts
<1>3. PICK r \in {"dirm", "out_en"}, b \in BOOLEAN : steps[1] = [do |-> "write", reg |-> r, bit |-> b]
  BY DEF Steps
<1>4. bank' = [bank EXCEPT ![r] = [copy EXCEPT !["flex"] = b]]
  <2>1. Head(steps).reg = r /\ Head(steps).bit = b
    BY <1>3
  <2>2. bank' = [bank EXCEPT ![Head(steps).reg] = [copy EXCEPT !["flex"] = Head(steps).bit]]
    BY DEF Pins!write_register
  <2> QED BY ONLY <2>1, <2>2
<1>5. CopyRight(r)
  <2>1. 0 \notin DOMAIN steps /\ -1 \notin DOMAIN steps /\ 1 - 1 = 0 /\ 1 - 2 = -1
    OBVIOUS
  <2> QED BY <1>3, <2>1 DEF PinInv, CopiesRight, ReadFor
<1>6. /\ bank' \in [{"dirm", "out_en"} -> [Pins!Pin -> BOOLEAN]]
      /\ bank'[r]["flex"] = b /\ bank'[r]["handler"] = copy["handler"]
      /\ \A q \in {"dirm", "out_en"} : q # r => bank'[q] = bank[q]
  BY <1>4 DEF PinInv, PinTypeOK, Pins!Pin
<1>7. PinTypeOK'
  BY <1>3, <1>6 DEF PinInv, PinTypeOK
<1>13. HandlerRight'
  <2>1. bank["dirm"]["handler"] /\ Undisturbed(bank["out_en"]["handler"])
    BY DEF PinInv, HandlerRight
  <2>2. bank'["dirm"]["handler"] /\ Undisturbed(bank["out_en"]["handler"])'
    <3>1. CASE r = "dirm"
      BY <1>5, <1>6, <2>1, <3>1 DEF CopyRight, Undisturbed, HandlerOn
    <3>2. CASE r = "out_en"
      BY <1>5, <1>6, <2>1, <3>2 DEF CopyRight, Undisturbed, HandlerOn
    <3> QED BY <3>1, <3>2
  <2> QED BY <2>2 DEF PinInv, HandlerRight
<1>12. CopiesRight(steps)'
  <2>1. PICK t : t = steps'
    OBVIOUS
  <2>2. CopiesRight(t)
    <3>1. Shifts(steps, t) /\ steps[1].do # "read" /\ CopiesRight(steps)
      BY <2>1 DEF PinInv
    <3> QED BY ONLY <3>1, CopiesShift
  <2> QED BY <2>1, <2>2, CopiesStay, Zenon
<1>8. CASE ~ Refused
  <2> USE <1>8
  <2>0. b = Wanted(r)
    BY <1>3 DEF PinInv, FlexInv, WritesRight
  <2>1. WritesRight(steps)'
    BY DEF PinInv, FlexInv, WritesRight, Wanted, Output
  <2>2. RegistersCome(steps)'
    <3> SUFFICES ASSUME NEW q \in {"dirm", "out_en"}, bank'[q]["flex"] # Wanted(q)
                 PROVE \E i \in DOMAIN steps' : steps'[i].do = "write" /\ steps'[i].reg = q
      BY DEF RegistersCome, Wanted, Output
    <3>1. q # r /\ bank[q]["flex"] # Wanted(q)
      BY <1>6, <2>0
    <3>2. PICK i \in DOMAIN steps : steps[i].do = "write" /\ steps[i].reg = q
      BY <3>1 DEF PinInv, FlexInv, RegistersCome
    <3>3. i - 1 \in DOMAIN steps' /\ steps'[i - 1] = steps[i]
      <4>1. i # 1
        BY <1>3, <3>1, <3>2
      <4>2. DOMAIN steps = 1 .. Len(steps) /\ DOMAIN steps' = 1 .. Len(steps') /\ Len(steps') = Len(steps) - 1
            /\ \A k \in DOMAIN steps' : steps'[k] = steps[k + 1]
        BY HeadTailProperties DEF PinInv, PinTypeOK
      <4> QED BY <4>1, <4>2
    <3> QED BY <3>2, <3>3
  <2>3. LevelsRight(steps)' /\ LevelComes(steps)'
    BY <1>3 DEF PinInv, FlexInv, LevelsRight, LevelComes, Output
  <2>4. LowFirst(steps)'
    <3>1. ~ Before(steps, 1, "state")
      BY DEF Before
    <3> QED BY <1>3, <1>6, <3>1 DEF PinInv, FlexInv, LowFirst
  <2>5. MuxRight(steps)' /\ MuxComes(steps)'
    BY <1>3 DEF PinInv, FlexInv, MuxRight, MuxComes, Connected, Output
  <2> QED BY <1>7, <1>12, <1>13, <2>1, <2>2, <2>3, <2>4, <2>5 DEF PinInv, FlexInv
<1>9. CASE Refused
  BY <1>7, <1>12, <1>13, <1>9 DEF PinInv, Refused, Output
<1> QED BY <1>8, <1>9

(* The masked write of a level leaves the level of the other pin.          *)
LEMMA PinLevel == ASSUME PinInv, Pins!write_level PROVE PinInv'
<1>1. steps # <<>> /\ steps' = Tail(steps) /\ Head(steps).do = "state"
  BY DEF Pins!write_level, Pins!access
<1>2. UNCHANGED <<kind, handler_mode, bank, mio, slcr_locked, copy, pin_mode, pin_call, level, overtaken>>
  BY DEF Pins!write_level, Pins!access
<1> Shifts(steps, steps')
  BY <1>1, StepsShift DEF PinInv, PinTypeOK
<1> USE <1>1, <1>2 DEF Shifts
<1>3. PICK l \in Pins!Level : steps[1] = [do |-> "state", level |-> l]
  BY DEF Steps
<1>4. data_out' = [data_out EXCEPT !["flex"] = l]
  <2>1. Head(steps).level = l
    BY <1>3
  <2>2. data_out' = [data_out EXCEPT !["flex"] = Head(steps).level]
    BY DEF Pins!write_level, Pins!write_state
  <2> QED BY ONLY <2>1, <2>2
<1>6. data_out' \in [Pins!Pin -> Pins!Level] /\ data_out'["flex"] = l /\ data_out'["handler"] = data_out["handler"]
  BY <1>4 DEF PinInv, PinTypeOK, Pins!Pin
<1>7. PinTypeOK' /\ HandlerRight'
  BY <1>6 DEF PinInv, PinTypeOK, HandlerRight, Undisturbed, HandlerOn
<1>12. CopiesRight(steps)'
  <2>1. PICK t : t = steps'
    OBVIOUS
  <2>2. CopiesRight(t)
    <3>1. Shifts(steps, t) /\ steps[1].do # "read" /\ CopiesRight(steps)
      BY <2>1 DEF PinInv
    <3> QED BY ONLY <3>1, CopiesShift
  <2> QED BY <2>1, <2>2, CopiesStay, Zenon
<1>8. CASE ~ Refused
  <2> USE <1>8
  <2>0. l = level["flex"] /\ (pin_mode = "OutputOpenDrain" => l = "Low")
    BY <1>3 DEF PinInv, FlexInv, LevelsRight
  <2>1. WritesRight(steps)' /\ RegistersCome(steps)'
    BY <1>3 DEF PinInv, FlexInv, WritesRight, RegistersCome, Wanted, Output
  <2>2. LevelsRight(steps)' /\ LevelComes(steps)'
    BY <2>0, <1>6 DEF PinInv, FlexInv, LevelsRight, LevelComes, Output
  <2>3. LowFirst(steps)'
    BY <2>0, <1>6 DEF PinInv, FlexInv, LowFirst
  <2>4. MuxRight(steps)' /\ MuxComes(steps)'
    BY <1>3 DEF PinInv, FlexInv, MuxRight, MuxComes, Connected, Output
  <2> QED BY <1>7, <1>12, <2>1, <2>2, <2>3, <2>4 DEF PinInv, FlexInv
<1>9. CASE Refused
  BY <1>7, <1>12, <1>9 DEF PinInv, Refused, Output
<1> QED BY <1>8, <1>9

(* The SLCR is unlocked right before the multiplexer is changed.           *)
LEMMA PinLock == ASSUME PinInv, Pins!lock_unlock PROVE PinInv'
<1>1. steps # <<>> /\ steps' = Tail(steps) /\ Head(steps).do \in {"unlock", "lock"}
  BY DEF Pins!lock_unlock, Pins!access
<1>2. UNCHANGED <<kind, handler_mode, bank, data_out, mio, copy, pin_mode, pin_call, level, overtaken>>
  BY DEF Pins!lock_unlock, Pins!access
<1> Shifts(steps, steps')
  BY <1>1, StepsShift DEF PinInv, PinTypeOK
<1> USE <1>1, <1>2 DEF Shifts
<1>3. slcr_locked' \in BOOLEAN /\ (steps[1].do = "unlock" => ~ slcr_locked')
  BY DEF Pins!lock_unlock
<1>4. PinTypeOK' /\ HandlerRight'
  BY <1>3 DEF PinInv, PinTypeOK, HandlerRight, Undisturbed, HandlerOn
<1>12. CopiesRight(steps)'
  <2>1. PICK t : t = steps'
    OBVIOUS
  <2>2. CopiesRight(t)
    <3>1. Shifts(steps, t) /\ steps[1].do # "read" /\ CopiesRight(steps)
      BY <2>1 DEF PinInv
    <3> QED BY ONLY <3>1, CopiesShift
  <2> QED BY <2>1, <2>2, CopiesStay, Zenon
<1>8. CASE ~ Refused
  <2> USE <1>8
  <2>1. WritesRight(steps)' /\ RegistersCome(steps)'
    BY DEF PinInv, FlexInv, WritesRight, RegistersCome, Wanted, Output
  <2>2. LevelsRight(steps)' /\ LevelComes(steps)'
    BY DEF PinInv, FlexInv, LevelsRight, LevelComes, Output
  <2>3. LowFirst(steps)'
    BY DEF PinInv, FlexInv, LowFirst
  <2>4. MuxRight(steps)'
    <3>1. ASSUME NEW i \in DOMAIN steps'
          PROVE  /\ i # 1 => steps'[i].do \notin {"compare", "modify"}
                 /\ i = 1 => steps'[i].do # "compare" /\ (steps'[i].do = "modify" => steps[1].do = "unlock")
      BY <3>1 DEF PinInv, FlexInv, MuxRight
    <3> QED BY <1>3, <3>1 DEF PinInv, FlexInv, MuxRight, Output
  <2>5. MuxComes(steps)'
    BY DEF PinInv, FlexInv, MuxComes, Connected, Output
  <2> QED BY <1>4, <1>12, <2>1, <2>2, <2>3, <2>4, <2>5 DEF PinInv, FlexInv
<1>9. CASE Refused
  BY <1>4, <1>12, <1>9 DEF PinInv, Refused, Output
<1> QED BY <1>8, <1>9

(* The multiplexer is changed while the SLCR is unlocked, unless the       *)
(* handler has locked it.                                                  *)
LEMMA PinModify == ASSUME PinInv, Pins!modify_mio PROVE PinInv'
<1>1. steps # <<>> /\ steps' = Tail(steps) /\ Head(steps).do = "modify"
  BY DEF Pins!modify_mio, Pins!access
<1>2. UNCHANGED <<kind, handler_mode, bank, data_out, slcr_locked, copy, pin_mode, pin_call, level, overtaken>>
  BY DEF Pins!modify_mio, Pins!access
<1> Shifts(steps, steps')
  BY <1>1, StepsShift DEF PinInv, PinTypeOK
<1> USE <1>1, <1>2 DEF Shifts
<1>3. steps[1].tri \in BOOLEAN
  BY DEF Steps
<1>4. mio' = IF slcr_locked THEN mio ELSE [mio EXCEPT !["flex"] = Pins!wanted(steps[1])]
  BY DEF Pins!modify_mio
<1>5. /\ mio' \in [Pins!Pin -> Pins!MioConfig] /\ mio'["handler"] = mio["handler"]
      /\ ~ slcr_locked => mio'["flex"].mux = "Gpio" /\ mio'["flex"].tri = steps[1].tri
  <2>1. PICK w : w = Pins!wanted(steps[1])
    OBVIOUS
  <2>2. w \in Pins!MioConfig /\ w.mux = "Gpio" /\ w.tri = steps[1].tri
    BY <1>3, <2>1 DEF PinInv, PinTypeOK, Pins!Pin, Pins!MioConfig, Pins!wanted
  <2> QED BY <1>4, <2>1, <2>2 DEF PinInv, PinTypeOK, Pins!Pin
<1>6. PinTypeOK' /\ HandlerRight'
  BY <1>5 DEF PinInv, PinTypeOK, HandlerRight, Undisturbed, HandlerOn
<1>12. CopiesRight(steps)'
  <2>1. PICK t : t = steps'
    OBVIOUS
  <2>2. CopiesRight(t)
    <3>1. Shifts(steps, t) /\ steps[1].do # "read" /\ CopiesRight(steps)
      BY <2>1 DEF PinInv
    <3> QED BY ONLY <3>1, CopiesShift
  <2> QED BY <2>1, <2>2, CopiesStay, Zenon
<1>8. CASE ~ Refused
  <2> USE <1>8
  <2>0. steps[1].tri = ~ Output /\ (slcr_locked => "flex" \in overtaken)
    BY DEF PinInv, FlexInv, MuxRight
  <2>1. WritesRight(steps)' /\ RegistersCome(steps)'
    BY DEF PinInv, FlexInv, WritesRight, RegistersCome, Wanted, Output
  <2>2. LevelsRight(steps)' /\ LevelComes(steps)'
    BY DEF PinInv, FlexInv, LevelsRight, LevelComes, Output
  <2>3. LowFirst(steps)'
    BY DEF PinInv, FlexInv, LowFirst
  <2>4. MuxRight(steps)' /\ MuxComes(steps)'
    BY <2>0, <1>5 DEF PinInv, FlexInv, MuxRight, MuxComes, Connected, Output
  <2> QED BY <1>6, <1>12, <2>1, <2>2, <2>3, <2>4 DEF PinInv, FlexInv
<1>9. CASE Refused
  BY <1>6, <1>12, <1>9 DEF PinInv, Refused, Output
<1> QED BY <1>8, <1>9

(* Tuples as sequences.                                                    *)
LEMMA ThreeSteps ==
  ASSUME NEW S, NEW a \in S, NEW b \in S, NEW c \in S
  PROVE  LET s == <<a, b, c>> IN s \in Seq(S) /\ Len(s) = 3 /\ s[1] = a /\ s[2] = b /\ s[3] = c
OBVIOUS

(* A configuration that is there already is left alone; for any other      *)
(* three steps are put in front of those left.                             *)
LEMMA PinCompare == ASSUME PinInv, Pins!compare_mio PROVE PinInv'
<1>1. steps # <<>> /\ Head(steps).do = "compare"
  BY DEF Pins!compare_mio, Pins!access
<1>2. UNCHANGED <<kind, handler_mode, bank, data_out, mio, slcr_locked, copy, pin_mode, pin_call, level,
                  overtaken>>
  BY DEF Pins!compare_mio, Pins!access, Pins!unchangedRegs
<1>3. PICK t : t = Tail(steps)
  OBVIOUS
<1>4. Shifts(steps, t) /\ steps[1].do = "compare"
  <2>1. Shifts(steps, t)
    BY <1>1, <1>3, StepsShift DEF PinInv, PinTypeOK
  <2> QED BY <1>1, <2>1 DEF Shifts
<1>10. CopiesRight(t)
  BY <1>4, CopiesShift DEF PinInv
<1>6. ~ Refused => WritesRight(t) /\ RegistersCome(t) /\ LevelsRight(t) /\ LevelComes(t) /\ LowFirst(t)
  <2>1. ~ Refused => WritesRight(t)
    BY <1>4 DEF Shifts, PinInv, FlexInv, WritesRight
  <2>2. ~ Refused => RegistersCome(t)
    BY <1>4 DEF Shifts, PinInv, FlexInv, RegistersCome
  <2>3. ~ Refused => LevelsRight(t) /\ LevelComes(t)
    BY <1>4 DEF Shifts, PinInv, FlexInv, LevelsRight, LevelComes
  <2>4. ~ Refused => LowFirst(t)
    BY <1>4 DEF Shifts, PinInv, FlexInv, LowFirst
  <2> QED BY <2>1, <2>2, <2>3, <2>4
<1>7. ~ Refused => /\ \A i \in DOMAIN t : t[i].do \notin {"compare", "modify"}
                   /\ kind # "emio" /\ steps[1].tri = ~ Output
  BY <1>4 DEF Shifts, PinInv, FlexInv, MuxRight
<1>8. CASE mio["flex"] = Pins!wanted(Head(steps))
  <2>1. steps' = t
    <3>1. steps' = <<>> \o Tail(steps)
      BY <1>8 DEF Pins!compare_mio
    <3> QED BY <1>3, <1>4, <3>1, ConcatEmptySeq DEF Shifts
  <2>2. mio["flex"].mux = "Gpio" /\ mio["flex"].tri = steps[1].tri
    BY <1>4, <1>8 DEF Shifts, Pins!wanted
  <2>3. PinTypeOK' /\ HandlerRight'
    BY <1>2, <1>4, <2>1 DEF PinInv, PinTypeOK, HandlerRight, Undisturbed, HandlerOn, Shifts
  <2>7. CopiesRight(steps)'
    BY <1>2, <1>10, <2>1, CopiesStay, Zenon
  <2>8. CASE ~ Refused
    <3>4. WritesRight(steps)' /\ RegistersCome(steps)'
      BY <1>2, <1>6, <2>1, <2>8 DEF WritesRight, RegistersCome, Wanted, Output
    <3>5. LevelsRight(steps)' /\ LevelComes(steps)' /\ LowFirst(steps)'
      BY <1>2, <1>6, <2>1, <2>8 DEF LevelsRight, LevelComes, LowFirst, Output
    <3>6. MuxRight(steps)' /\ MuxComes(steps)'
      BY <1>2, <1>7, <2>1, <2>2, <2>8 DEF MuxRight, MuxComes, Connected, Output
    <3> QED BY <2>3, <2>7, <3>4, <3>5, <3>6 DEF PinInv, FlexInv
  <2>9. CASE Refused
    BY <1>2, <2>3, <2>7, <2>9 DEF PinInv, Refused, Output
  <2> QED BY <2>8, <2>9
<1>9. CASE mio["flex"] # Pins!wanted(Head(steps))
  <2> DEFINE p == <<[do |-> "unlock"], [Head(steps) EXCEPT !.do = "modify"], [do |-> "lock"]>>
  <2>1. steps' = p \o t
    BY <1>3, <1>9 DEF Pins!compare_mio
  <2>2. Head(steps) \in [do : {"compare"}, tri : BOOLEAN, pullup : SUBSET BOOLEAN]
    BY <1>4 DEF Shifts, Steps
  <2>3. /\ p[1].do = "unlock" /\ p[2].do = "modify" /\ p[3].do = "lock" /\ p[2].tri = steps[1].tri
        /\ p \in Seq(Steps) /\ Len(p) = 3
    <3>1. [Head(steps) EXCEPT !.do = "modify"]
            \in [do : {"modify"}, tri : BOOLEAN, pullup : SUBSET BOOLEAN]
      BY <2>2
    <3>2. [Head(steps) EXCEPT !.do = "modify"].tri = steps[1].tri
      BY <1>4, <2>2 DEF Shifts
    <3>3. [Head(steps) EXCEPT !.do = "modify"].do = "modify"
      BY <2>2
    <3>4. /\ [do |-> "unlock"] \in Steps /\ [do |-> "lock"] \in Steps
          /\ [Head(steps) EXCEPT !.do = "modify"] \in Steps
      BY <3>1 DEF Steps
    <3>5. PICK q \in Steps : q = [Head(steps) EXCEPT !.do = "modify"]
      BY <3>4
    <3> HIDE DEF Steps
    <3>6. p \in Seq(Steps) /\ Len(p) = 3 /\ p[1] = [do |-> "unlock"] /\ p[2] = q /\ p[3] = [do |-> "lock"]
      <4>1. PICK a \in Steps, c \in Steps : a = [do |-> "unlock"] /\ c = [do |-> "lock"]
        BY <3>4
      <4>2. p = <<a, q, c>>
        BY <3>5, <4>1
      <4> HIDE DEF p
      <4> QED BY <4>1, <4>2, ThreeSteps
    <3> QED BY <3>2, <3>3, <3>5, <3>6
  <2> HIDE DEF p
  <2>4. /\ steps' \in Seq(Steps) /\ DOMAIN steps' = 1 .. Len(t) + 3
        /\ \A i \in 1 .. 3 : steps'[i] = p[i]
        /\ \A i \in DOMAIN t : i + 3 \in DOMAIN steps' /\ steps'[i + 3] = t[i]
        /\ DOMAIN t = 1 .. Len(t) /\ Len(t) \in Nat
    <3>1. t \in Seq(Steps) /\ DOMAIN t = 1 .. Len(t) /\ Len(t) \in Nat
      BY <1>4 DEF Shifts
    <3>2. /\ p \o t \in Seq(Steps) /\ Len(p \o t) = 3 + Len(t)
          /\ \A i \in 1 .. 3 + Len(t) : (p \o t)[i] = IF i <= 3 THEN p[i] ELSE t[i - 3]
      <4>1. /\ p \o t \in Seq(Steps) /\ Len(p \o t) = Len(p) + Len(t)
            /\ \A i \in 1 .. Len(p) + Len(t) : (p \o t)[i] = IF i <= Len(p) THEN p[i] ELSE t[i - Len(p)]
        BY <2>3, <3>1, ConcatProperties, Zenon
      <4> QED BY <2>3, <4>1
    <3> QED BY <2>1, <3>1, <3>2
  <2>5. \A i \in DOMAIN steps' : i \in 1 .. 3 \/ (i - 3 \in DOMAIN t /\ steps'[i] = t[i - 3])
    BY <2>4
  <2>6. \A d : \A i \in DOMAIN t : Before(t, i, d) => Before(steps', i + 3, d)
    BY <2>4 DEF Before
  <2>7. PinTypeOK' /\ HandlerRight'
    BY <1>2, <2>4 DEF PinInv, PinTypeOK, HandlerRight, Undisturbed, HandlerOn
  <2>13. CopiesRight(steps)'
    <3>1. PICK u : u = steps'
      OBVIOUS
    <3>2. ASSUME NEW i \in DOMAIN u, u[i].do = "write"
          PROVE  \/ ReadFor(u, i - 1, u[i].reg)
                 \/ ReadFor(u, i - 2, u[i].reg) /\ u[i - 1].do = "state"
      <4>1. i - 3 \in DOMAIN t /\ u[i] = t[i - 3] /\ i \in Nat
        BY <2>3, <2>4, <2>5, <3>1, <3>2
      <4>2. /\ \A j \in DOMAIN t : j + 3 \in DOMAIN u /\ u[j + 3] = t[j]
            /\ ((i - 3) - 1) + 3 = i - 1 /\ ((i - 3) - 2) + 3 = i - 2
        BY <2>4, <3>1, <4>1
      <4>3. CASE ReadFor(t, (i - 3) - 1, t[i - 3].reg)
        BY <4>1, <4>2, <4>3 DEF ReadFor
      <4>4. CASE ReadFor(t, (i - 3) - 2, t[i - 3].reg) /\ t[(i - 3) - 1].do = "state"
        <5>1. (i - 3) - 1 \in DOMAIN t
          BY <2>4, <4>1, <4>4 DEF ReadFor
        <5> QED BY <4>1, <4>2, <4>4, <5>1 DEF ReadFor
      <4>5. CASE i - 3 = 1 \/ (i - 3 = 2 /\ t[1].do = "state")
        <5>1. steps[i - 2] = t[i - 3] /\ i - 2 \in DOMAIN steps /\ (i - 2) - 1 = i - 3 /\ (i - 2) - 2 = i - 4
          BY <1>4, <4>1 DEF Shifts
        <5>2. steps[2] = t[1]
          BY <1>4, <4>1, <4>5 DEF Shifts
        <5>3. i - 2 # 1 /\ ~ (i - 2 = 2 /\ steps[1].do = "state")
          BY <1>4, <4>1, <4>5
        <5>4. steps[i - 2].do = "write"
          BY <3>2, <4>1, <5>1
        <5>5. \/ ReadFor(steps, (i - 2) - 1, steps[i - 2].reg)
              \/ ReadFor(steps, (i - 2) - 2, steps[i - 2].reg) /\ steps[(i - 2) - 1].do = "state"
          BY <5>1, <5>3, <5>4, Zenon DEF PinInv, CopiesRight
        <5> QED BY <1>4, <4>1, <4>5, <5>1, <5>2, <5>5 DEF ReadFor
      <4> QED BY <1>10, <3>2, <4>1, <4>3, <4>4, <4>5 DEF CopiesRight
    <3> QED BY <3>1, <3>2 DEF CopiesRight, ReadFor
  <2>14. CASE ~ Refused
    <3>1. p[2].tri = ~ Output
      BY <1>7, <2>3, <2>14
    <3>8. WritesRight(steps)'
      BY <1>2, <1>6, <2>3, <2>4, <2>5, <2>14 DEF WritesRight, Wanted, Output
    <3>9. RegistersCome(steps)'
      BY <1>2, <1>6, <2>4, <2>14 DEF RegistersCome, Wanted, Output
    <3>10. LevelsRight(steps)'
      BY <1>2, <1>6, <2>3, <2>4, <2>5, <2>14 DEF LevelsRight, Output
    <3>11. LevelComes(steps)'
      BY <1>2, <1>6, <2>4, <2>14 DEF LevelComes, Output
    <3>12. LowFirst(steps)'
      BY <1>2, <1>6, <2>3, <2>4, <2>5, <2>6, <2>14 DEF LowFirst
    <3>13. MuxRight(steps)'
      BY <1>2, <1>7, <2>3, <2>4, <2>5, <2>14, <3>1 DEF MuxRight, Output
    <3>14. MuxComes(steps)'
      BY <2>3, <2>4 DEF MuxComes
    <3> QED BY <2>7, <2>13, <3>8, <3>9, <3>10, <3>11, <3>12, <3>13, <3>14 DEF PinInv, FlexInv
  <2>15. CASE Refused
    BY <1>2, <2>7, <2>13, <2>15 DEF PinInv, Refused, Output
  <2> QED BY <2>14, <2>15
<1> QED BY <1>8, <1>9

(* The handler changes its own pin only; when it does between a read and a *)
(* write of the output enables or before a change of the unlocked SLCR,    *)
(* this is recorded.                                                       *)
LEMMA PinInterrupt == ASSUME PinInv, Pins!interrupt PROVE PinInv'
<1>1. PICK l \in Pins!Level :
        /\ level' = [level EXCEPT !["handler"] = l]
        /\ Pins!handler_sets(l) \/ \E m \in {"Gpio", "Periph"} : Pins!handler_connects(m)
  BY DEF Pins!interrupt
<1>2. /\ overtaken' = (overtaken \ {"handler"}) \cup Pins!overtakes
      /\ UNCHANGED <<kind, handler_mode, pin_mode, steps, copy, pin_call>>
  BY DEF Pins!interrupt
<1>3. /\ level'["flex"] = level["flex"] /\ level'["handler"] = l /\ level' \in [Pins!Pin -> Pins!Level]
  BY <1>1 DEF PinInv, PinTypeOK, Pins!Pin
<1>4. /\ data_out' \in [Pins!Pin -> Pins!Level] /\ data_out'["flex"] = data_out["flex"]
      /\ bank' \in [{"dirm", "out_en"} -> [Pins!Pin -> BOOLEAN]]
      /\ bank'["dirm"] = bank["dirm"] /\ bank'["out_en"]["flex"] = bank["out_en"]["flex"]
      /\ mio' \in [Pins!Pin -> Pins!MioConfig] /\ mio'["flex"] = mio["flex"] /\ slcr_locked' \in BOOLEAN
      /\ ~ slcr_locked' => ~ slcr_locked
  <2>1. CASE Pins!handler_sets(l)
    BY <2>1 DEF Pins!handler_sets, Pins!handler_levels, Pins!write_state, PinInv, PinTypeOK, Pins!Pin, Pins!Level
  <2>2. CASE \E m \in {"Gpio", "Periph"} : Pins!handler_connects(m)
    <3>1. PICK m \in {"Gpio", "Periph"} : Pins!handler_connects(m)
      BY <2>2
    <3>2. mio' = [mio EXCEPT !["handler"].mux = m, !["handler"].tri = FALSE]
      BY <3>1 DEF Pins!handler_connects
    <3>3. mio' \in [Pins!Pin -> Pins!MioConfig] /\ mio'["flex"] = mio["flex"]
      BY <3>2 DEF PinInv, PinTypeOK, Pins!Pin, Pins!MioConfig
    <3> QED BY <3>1, <3>3 DEF Pins!handler_connects, PinInv, PinTypeOK
  <2> QED BY <1>1, <2>1, <2>2
<1>5. PinTypeOK'
  BY <1>2, <1>3, <1>4 DEF PinInv, PinTypeOK, Pins!overtakes
<1>6. HandlerRight'
  <2>1. bank'["dirm"]["handler"]
    BY <1>4 DEF PinInv, HandlerRight
  <2>2. CASE Pins!handler_sets(l)
    <3>1. Undisturbed(bank["out_en"]["handler"])'
      <4>1. CASE handler_mode = "OutputPushPull"
        <5>1. "handler" \notin overtaken /\ bank' = bank
          BY <2>2, <4>1 DEF PinInv, PinTypeOK, Pins!handler_sets
        <5>2. bank["out_en"]["handler"]
          BY <4>1, <5>1 DEF PinInv, HandlerRight, Undisturbed, HandlerOn
        <5> QED BY <1>2, <4>1, <5>1, <5>2 DEF Undisturbed, HandlerOn
      <4>2. CASE handler_mode = "OutputOpenDrain"
        <5>1. bank'["out_en"]["handler"] = (l = "Low")
          BY <2>2, <4>2 DEF Pins!handler_sets, PinInv, PinTypeOK, Pins!Pin
        <5> QED BY <1>2, <1>3, <4>2, <5>1 DEF Undisturbed, HandlerOn
      <4> QED BY <2>2, <4>1, <4>2 DEF Pins!handler_sets, PinInv, PinTypeOK
    <3>2. /\ mio' = mio /\ handler_mode' # "Periph"
          /\ handler_mode' = "OutputPushPull" => data_out'["handler"] = level'["handler"]
          /\ handler_mode' = "OutputOpenDrain" => data_out'["handler"] = "Low"
      BY <1>2, <1>3, <2>2 DEF Pins!handler_sets, Pins!handler_levels, Pins!write_state, PinInv, PinTypeOK,
         HandlerRight, Pins!Pin, Pins!Level
    <3> QED BY <1>2, <2>1, <3>1, <3>2 DEF HandlerRight, PinInv
  <2>3. CASE handler_mode = "Periph" /\ bank' = bank
    <3>1. "handler" \notin overtaken
      BY <2>3 DEF PinInv, PinTypeOK
    <3>2. bank["out_en"]["handler"]
      BY <2>3, <3>1 DEF PinInv, HandlerRight, Undisturbed, HandlerOn
    <3> QED BY <1>2, <2>1, <2>3, <3>2 DEF HandlerRight, Undisturbed, HandlerOn
  <2> QED BY <1>1, <2>2, <2>3 DEF Pins!handler_connects
<1>7. CopiesRight(steps)'
  <2>1. ASSUME NEW i \in DOMAIN steps, steps[i].do = "write", i = 1 \/ (i = 2 /\ steps[1].do = "state"),
               CopyRight(steps[i].reg)
        PROVE  CopyRight(steps[i].reg)'
    <3>1. steps[i].reg \in {"dirm", "out_en"}
      <4>1. steps[i] \in Steps
        BY DEF PinInv, PinTypeOK
      <4> QED BY <2>1, <4>1 DEF Steps
    <3>2. CASE steps[i].reg = "dirm"
      BY <1>2, <2>1, <3>2 DEF CopyRight
    <3>3. CASE steps[i].reg = "out_en" /\ handler_mode = "OutputOpenDrain"
      <4>1. Pins!inside_out_en
        <5>1. \A j \in 1 .. i - 1 : steps[j].do # "read"
          BY <2>1
        <5> QED BY <2>1, <3>3, <5>1 DEF Pins!inside_out_en
      <4>2. "handler" \in overtaken'
        BY <1>2, <3>3, <4>1 DEF Pins!overtakes, Pins!Pin
      <4> QED BY <1>2, <3>3, <4>2 DEF CopyRight, Undisturbed
    <3>4. CASE steps[i].reg = "out_en" /\ handler_mode # "OutputOpenDrain"
      <4>1. HandlerOn /\ HandlerOn'
        BY <1>2, <3>4 DEF HandlerOn
      <4>2. "handler" \notin overtaken
        BY <3>4 DEF PinInv, PinTypeOK
      <4>3. copy["handler"]
        BY <2>1, <3>4, <4>1, <4>2 DEF CopyRight, Undisturbed
      <4> QED BY <1>2, <3>4, <4>1, <4>3 DEF CopyRight, Undisturbed
    <3> QED BY <3>1, <3>2, <3>3, <3>4
  <2>2. PICK s : s = steps
    OBVIOUS
  <2>3. steps' = s
    BY <1>2, <2>2
  <2> QED BY <2>1, <2>2, <2>3 DEF PinInv, CopiesRight, ReadFor
<1>8. CASE ~ Refused
  <2>1. WritesRight(steps)' /\ RegistersCome(steps)'
    BY <1>2, <1>3, <1>4, <1>8 DEF PinInv, FlexInv, WritesRight, RegistersCome, Wanted, Output
  <2>2. LevelsRight(steps)' /\ LevelComes(steps)' /\ LowFirst(steps)'
    BY <1>2, <1>3, <1>4, <1>8 DEF PinInv, FlexInv, LevelsRight, LevelComes, LowFirst, Output
  <2>3. "flex" \in overtaken => "flex" \in overtaken'
    BY <1>2
  <2>4. MuxRight(steps)'
    <3>1. ASSUME NEW i \in DOMAIN steps, steps[i].do = "modify", i = 1, ~ slcr_locked, slcr_locked'
          PROVE  "flex" \in overtaken'
      <4>1. Head(steps).do = "modify" /\ steps # <<>>
        BY <3>1 DEF PinInv, PinTypeOK
      <4>2. handler_mode = "Periph"
        BY <1>1, <3>1 DEF Pins!handler_sets, Pins!handler_connects
      <4> QED BY <1>2, <3>1, <4>1, <4>2 DEF Pins!overtakes, Pins!inside_slcr, Pins!Pin
    <3> QED BY <1>2, <1>4, <1>8, <2>3, <3>1 DEF PinInv, PinTypeOK, FlexInv, MuxRight, Output
  <2>5. MuxComes(steps)'
    BY <1>2, <1>4, <1>8, <2>3 DEF PinInv, FlexInv, MuxComes, Connected, Output
  <2> QED BY <1>5, <1>6, <1>7, <2>1, <2>2, <2>4, <2>5 DEF PinInv, FlexInv
<1>9. CASE Refused
  BY <1>2, <1>5, <1>6, <1>7, <1>9 DEF PinInv, Refused, Output
<1> QED BY <1>8, <1>9

(* The calls that configure the Flex pin. A plan is the comparison, if any,*)
(* and then four steps, or five with the level last or before the output   *)
(* enable.                                                                 *)
FourSteps(R, a, b, c, d) == R \o <<a, b>> \o <<c, d>>
FiveSteps(R, a, b, c, d, e) == FourSteps(R, a, b, c, d) \o <<e>>
LevelFirst(R, a, b, c, d, e) == R \o <<a, b>> \o <<c, d, e>>
PlanOf(s, n, m, R, a, b, c, d) ==
  /\ s \in Seq(Steps) /\ Len(s) = n + m /\ \A i \in 1 .. n : s[i] = R[i]
  /\ s[n + 1] = a /\ s[n + 2] = b /\ s[n + 3] = c /\ s[n + 4] = d

PlanArgs(n, R, a, b, c, d) ==
  /\ n \in {0, 1} /\ R \in Seq(Steps) /\ Len(R) = n
  /\ a \in Steps /\ b \in Steps /\ c \in Steps /\ d \in Steps

(* One, two or three steps put behind others.                              *)
Behind(u, k, t, m, v) ==
  /\ v \in Seq(Steps) /\ Len(v) = k + m
  /\ \A i \in 1 .. k : v[i] = u[i]
  /\ \A i \in 1 .. m : v[k + i] = t[i]
Joins(u, k, t, m) ==
  k \in Nat /\ m \in Nat /\ u \in Seq(Steps) /\ Len(u) = k /\ t \in Seq(Steps) /\ Len(t) = m

LEMMA StepsBehind ==
  ASSUME NEW u, NEW k, NEW t, NEW m, Joins(u, k, t, m)
  PROVE  Behind(u, k, t, m, u \o t)
<1>1. k \in Nat /\ m \in Nat /\ u \in Seq(Steps) /\ Len(u) = k /\ t \in Seq(Steps) /\ Len(t) = m
  BY DEF Joins
<1>2. /\ u \o t \in Seq(Steps) /\ Len(u \o t) = Len(u) + Len(t)
      /\ \A i \in 1 .. Len(u) + Len(t) : (u \o t)[i] = IF i <= Len(u) THEN u[i] ELSE t[i - Len(u)]
  BY ONLY <1>1, ConcatProperties, Zenon
<1>3. PICK v \in Seq(Steps) : v = u \o t
  BY <1>2
<1>4. /\ Len(v) = k + m
      /\ \A i \in 1 .. k + m : v[i] = IF i <= k THEN u[i] ELSE t[i - k]
  BY ONLY <1>1, <1>2, <1>3, Zenon
<1>5. \A i \in 1 .. k : v[i] = u[i]
  <2> TAKE i \in 1 .. k
  <2>1. i \in 1 .. k + m /\ i <= k
    BY ONLY <1>1, i \in 1 .. k
  <2> QED BY ONLY <1>4, <2>1
<1>6. \A i \in 1 .. m : v[k + i] = t[i]
  <2> TAKE i \in 1 .. m
  <2>1. k + i \in 1 .. k + m /\ ~ (k + i <= k) /\ (k + i) - k = i
    BY ONLY <1>1, i \in 1 .. m
  <2> QED BY ONLY <1>4, <2>1
<1> QED BY ONLY <1>3, <1>4, <1>5, <1>6 DEF Behind

LEMMA PlanOfFour ==
  ASSUME NEW n, NEW R, NEW a, NEW b, NEW c, NEW d, PlanArgs(n, R, a, b, c, d)
  PROVE  PlanOf(FourSteps(R, a, b, c, d), n, 4, R, a, b, c, d)
<1>1. n \in Nat /\ a \in Steps /\ b \in Steps /\ c \in Steps /\ d \in Steps
  BY DEF PlanArgs
<1> PICK ab, cd, u, v :
      /\ ab = <<a, b>> /\ cd = <<c, d>> /\ u = R \o ab /\ v = u \o cd
  OBVIOUS
<1>2. /\ ab \in Seq(Steps) /\ Len(ab) = 2 /\ ab[1] = a /\ ab[2] = b
      /\ cd \in Seq(Steps) /\ Len(cd) = 2 /\ cd[1] = c /\ cd[2] = d
  BY <1>1
<1>3. Behind(R, n, ab, 2, u)
  <2>1. Joins(R, n, ab, 2)
    BY <1>2 DEF PlanArgs, Joins
  <2> QED BY <2>1, StepsBehind, Zenon
<1>4. Behind(u, n + 2, cd, 2, v)
  <2>1. Joins(u, n + 2, cd, 2)
    BY <1>1, <1>2, <1>3 DEF Behind, Joins
  <2> QED BY <2>1, StepsBehind, Zenon
<1>5. /\ v \in Seq(Steps) /\ Len(v) = n + 4 /\ \A i \in 1 .. n : v[i] = R[i]
      /\ v[n + 1] = a /\ v[n + 2] = b /\ v[n + 3] = c /\ v[n + 4] = d
  BY ONLY <1>1, <1>2, <1>3, <1>4 DEF Behind
<1>6. PlanOf(v, n, 4, R, a, b, c, d)
  BY ONLY <1>5 DEF PlanOf
<1> QED BY <1>6 DEF FourSteps

(* As above, with the level last.                                          *)
LEMMA PlanOfFive ==
  ASSUME NEW n, NEW R, NEW a, NEW b, NEW c, NEW d, PlanArgs(n, R, a, b, c, d), NEW e \in Steps
  PROVE  /\ PlanOf(FiveSteps(R, a, b, c, d, e), n, 5, R, a, b, c, d)
         /\ FiveSteps(R, a, b, c, d, e)[n + 5] = e
<1>1. n \in Nat
  BY DEF PlanArgs
<1> PICK t, v, w : t = <<e>> /\ v = FourSteps(R, a, b, c, d) /\ w = v \o t
  OBVIOUS
<1>2. t \in Seq(Steps) /\ Len(t) = 1 /\ t[1] = e
  OBVIOUS
<1>3. PlanOf(v, n, 4, R, a, b, c, d)
  BY PlanOfFour, Zenon
<1>4. Behind(v, n + 4, t, 1, w)
  <2>1. Joins(v, n + 4, t, 1)
    BY <1>1, <1>2, <1>3 DEF PlanOf, Joins
  <2> QED BY <2>1, StepsBehind, Zenon
<1>5. PlanOf(w, n, 5, R, a, b, c, d) /\ w[n + 5] = e
  BY ONLY <1>1, <1>2, <1>3, <1>4 DEF PlanOf, Behind
<1> QED BY <1>5 DEF FiveSteps

(* As above, with the level before the output enable: open drain.          *)
LEMMA PlanWithState ==
  ASSUME NEW n, NEW R, NEW a, NEW b, NEW c, NEW d, PlanArgs(n, R, a, b, c, d), NEW e \in Steps
  PROVE  /\ PlanOf(LevelFirst(R, a, b, c, d, e), n, 5, R, a, b, c, d)
         /\ LevelFirst(R, a, b, c, d, e)[n + 5] = e
<1>1. n \in Nat /\ a \in Steps /\ b \in Steps /\ c \in Steps /\ d \in Steps
  BY DEF PlanArgs
<1> PICK ab, cde, u, v :
      /\ ab = <<a, b>> /\ cde = <<c, d, e>> /\ u = R \o ab /\ v = u \o cde
  OBVIOUS
<1>2. /\ ab \in Seq(Steps) /\ Len(ab) = 2 /\ ab[1] = a /\ ab[2] = b
      /\ cde \in Seq(Steps) /\ Len(cde) = 3 /\ cde[1] = c /\ cde[2] = d /\ cde[3] = e
  BY <1>1
<1>3. Behind(R, n, ab, 2, u)
  <2>1. Joins(R, n, ab, 2)
    BY <1>2 DEF PlanArgs, Joins
  <2> QED BY <2>1, StepsBehind, Zenon
<1>4. Behind(u, n + 2, cde, 3, v)
  <2>1. Joins(u, n + 2, cde, 3)
    BY <1>1, <1>2, <1>3 DEF Behind, Joins
  <2> QED BY <2>1, StepsBehind, Zenon
<1>5. /\ v \in Seq(Steps) /\ Len(v) = n + 5 /\ \A i \in 1 .. n : v[i] = R[i]
      /\ v[n + 1] = a /\ v[n + 2] = b /\ v[n + 3] = c /\ v[n + 4] = d /\ v[n + 5] = e
  BY ONLY <1>1, <1>2, <1>3, <1>4 DEF Behind
<1>6. PlanOf(v, n, 5, R, a, b, c, d)
  BY ONLY <1>5 DEF PlanOf
<1> QED BY <1>5, <1>6 DEF LevelFirst

(* An EMIO pin has no multiplexer to compare.                              *)
LEMMA ReconfigureFacts ==
  ASSUME NEW t \in BOOLEAN, NEW p \in SUBSET BOOLEAN,
         NEW n \in {0, 1}, n = IF kind = "emio" THEN 0 ELSE 1
  PROVE  \E R \in Seq(Steps) :
           /\ R = Pins!reconfigure_slcr_mio_cfg(t, p)
           /\ Len(R) = n /\ (n = 1 => R[1].do = "compare" /\ R[1].tri = t)
<1>1. CASE kind = "emio"
  <2>1. Pins!reconfigure_slcr_mio_cfg(t, p) = <<>>
    BY <1>1 DEF Pins!reconfigure_slcr_mio_cfg
  <2>2. <<>> \in Seq(Steps) /\ Len(<<>>) = 0 /\ n = 0 /\ n # 1
    BY <1>1
  <2> HIDE DEF Steps
  <2> QED BY <2>1, <2>2, Zenon
<1>2. CASE kind # "emio"
  <2>1. PICK c \in Steps : c = [do |-> "compare", tri |-> t, pullup |-> p]
    BY DEF Steps
  <2> HIDE DEF Steps
  <2>2. <<c>> \in Seq(Steps) /\ Len(<<c>>) = 1 /\ <<c>>[1] = c
    OBVIOUS
  <2>3. Pins!reconfigure_slcr_mio_cfg(t, p) = <<c>>
    BY <1>2, <2>1 DEF Pins!reconfigure_slcr_mio_cfg
  <2>4. c.do = "compare" /\ c.tri = t
    BY <2>1
  <2> QED BY <1>2, <2>2, <2>3, <2>4
<1> QED BY <1>1, <1>2

(* The accesses of a plan are all steps.                                   *)
LEMMA AccessFacts ==
  /\ \A r \in {"dirm", "out_en"} : Pins!Read(r) \in Steps /\ Pins!Read(r).do = "read"
  /\ \A r \in {"dirm", "out_en"}, b \in BOOLEAN :
        /\ Pins!Write(r, b) \in Steps /\ Pins!Write(r, b).do = "write"
        /\ Pins!Write(r, b).reg = r /\ Pins!Write(r, b).bit = b
  /\ \A l \in Pins!Level : Pins!State(l) \in Steps /\ Pins!State(l).do = "state" /\ Pins!State(l).level = l
BY DEF Pins!Read, Pins!Write, Pins!State, Steps

(* In every plan a register is written right after it was read, or after   *)
(* that and the level.                                                     *)
LEMMA PlanCopies ==
  ASSUME NEW s \in Seq(Steps), NEW n \in {0, 1}, Len(s) \in {n + 4, n + 5},
         n = 1 => s[1].do = "compare",
         s[n + 1] = Pins!Read("dirm"), s[n + 2].do = "write", s[n + 2].reg = "dirm",
         s[n + 3] = Pins!Read("out_en"),
         \/ s[n + 4].do = "write" /\ s[n + 4].reg = "out_en" /\ (Len(s) = n + 5 => s[n + 5].do = "state")
         \/ Len(s) = n + 5 /\ s[n + 4].do = "state" /\ s[n + 5].do = "write" /\ s[n + 5].reg = "out_en"
  PROVE  \A i \in DOMAIN s : s[i].do = "write" =>
            ReadFor(s, i - 1, s[i].reg) \/ (ReadFor(s, i - 2, s[i].reg) /\ s[i - 1].do = "state")
<1>1. /\ s[n + 1].do = "read" /\ s[n + 1].reg = "dirm" /\ s[n + 3].do = "read" /\ s[n + 3].reg = "out_en"
  BY DEF Pins!Read
<1>2. /\ \A i \in DOMAIN s : (i = 1 /\ n = 1) \/ i \in {n + 1, n + 2, n + 3, n + 4, n + 5}
      /\ {n + 1, n + 2, n + 3, n + 4} \subseteq DOMAIN s
      /\ n + 5 \in DOMAIN s => Len(s) = n + 5
  <2>1. DOMAIN s = 1 .. Len(s) /\ Len(s) \in {n + 4, n + 5}
    OBVIOUS
  <2>2. CASE Len(s) = n + 4
    BY <2>1, <2>2
  <2>3. CASE Len(s) = n + 5
    BY <2>1, <2>3
  <2> QED BY <2>1, <2>2, <2>3
<1> TAKE i \in DOMAIN s
<1> HAVE s[i].do = "write"
<1>3. i \in {n + 2, n + 4, n + 5}
  BY <1>1, <1>2
<1>4. CASE i = n + 2
  <2>1. i - 1 = n + 1
    BY <1>4
  <2> QED BY <1>1, <1>2, <1>4, <2>1 DEF ReadFor
<1>5. CASE i = n + 4
  <2>1. i - 1 = n + 3
    BY <1>5
  <2> QED BY <1>1, <1>2, <1>5, <2>1 DEF ReadFor
<1>6. CASE i = n + 5
  <2>1. i - 1 = n + 4 /\ i - 2 = n + 3 /\ i # n + 4
    BY <1>6
  <2> QED BY <1>1, <1>2, <1>6, <2>1 DEF ReadFor
<1> QED BY <1>3, <1>4, <1>5, <1>6

(* After a call that configures the pin is called all is to come.          *)
LEMMA PlanBegins ==
  ASSUME PinInv, NEW n \in {0, 1}, n = IF kind = "emio" THEN 0 ELSE 1,
         steps' \in Seq(Steps), Len(steps') = IF Wanted("out_en")' THEN n + 5 ELSE n + 4,
         n = 1 => steps'[1].do = "compare" /\ steps'[1].tri = ~ Output',
         steps'[n + 1] = Pins!Read("dirm"), steps'[n + 2] = Pins!Write("dirm", Output'),
         steps'[n + 3] = Pins!Read("out_en"),
         \/ steps'[n + 4] = Pins!Write("out_en", Wanted("out_en")')
            /\ (Wanted("out_en")' => steps'[n + 5] = Pins!State(level'["flex"]))
         \/ Wanted("out_en")' /\ steps'[n + 4] = Pins!State(level'["flex"])
            /\ steps'[n + 5] = Pins!Write("out_en", Wanted("out_en")'),
         pin_call' = "configure", overtaken' = overtaken \ {"flex"},
         level' \in [Pins!Pin -> Pins!Level], level'["handler"] = level["handler"],
         pin_mode' \in {"OutputPushPull", "OutputOpenDrain", "InputFloating", "InputPullUp"},
         UNCHANGED <<kind, handler_mode, bank, data_out, mio, slcr_locked, copy>>
  PROVE PinInv'
<1> PICK s : s = steps'
  OBVIOUS
<1>a. Output' \in BOOLEAN /\ Wanted("out_en")' \in BOOLEAN
  BY DEF Output, Wanted
<1> PICK o \in BOOLEAN, x \in BOOLEAN : o = Output' /\ x = Wanted("out_en")'
  BY <1>a, Zenon
<1>1. /\ DOMAIN s = 1 .. Len(s) /\ Len(s) \in Nat
      /\ \A i \in DOMAIN s : i \in 1 .. n \/ i \in {n + 1, n + 2, n + 3, n + 4, n + 5}
      /\ \A i \in {n + 1, n + 2, n + 3, n + 4} : i \in DOMAIN s
      /\ n + 5 \in DOMAIN s <=> Len(s) = n + 5
  OBVIOUS
<1>2. /\ s[n + 1].do = "read" /\ s[n + 3].do = "read"
      /\ s[n + 2].do = "write" /\ s[n + 2].reg = "dirm" /\ s[n + 2].bit = o
  BY AccessFacts
<1>3. PICK w \in {n + 4, n + 5} :
        /\ w \in DOMAIN s /\ s[w].do = "write" /\ s[w].reg = "out_en" /\ s[w].bit = x
        /\ \A i \in DOMAIN s : i \in {n + 4, n + 5} /\ i # w =>
              s[i].do = "state" /\ s[i].level = level'["flex"]
  <2>1. level'["flex"] \in Pins!Level
    BY DEF Pins!Pin
  <2>2. /\ Pins!Write("out_en", x).do = "write" /\ Pins!Write("out_en", x).reg = "out_en"
        /\ Pins!Write("out_en", x).bit = x
        /\ Pins!State(level'["flex"]).do = "state" /\ Pins!State(level'["flex"]).level = level'["flex"]
    BY <2>1, AccessFacts
  <2>3. CASE s[n + 4] = Pins!Write("out_en", x) /\ (Len(s) = n + 5 => s[n + 5] = Pins!State(level'["flex"]))
    <3> WITNESS n + 4 \in {n + 4, n + 5}
    <3> QED BY <1>1, <2>2, <2>3
  <2>4. CASE Len(s) = n + 5 /\ s[n + 4] = Pins!State(level'["flex"]) /\ s[n + 5] = Pins!Write("out_en", x)
    <3> WITNESS n + 5 \in {n + 4, n + 5}
    <3> QED BY <1>1, <2>2, <2>4
  <2> QED BY <2>3, <2>4
<1>4. \A i \in DOMAIN s :
         \/ i = 1 /\ n = 1 /\ s[i].do = "compare"
         \/ i \in {n + 1, n + 3} /\ s[i].do = "read"
         \/ i \in {n + 2, w} /\ i > n + 1 /\ s[i].do = "write"
         \/ Len(s) = n + 5 /\ s[i].do = "state" /\ s[i].level = level'["flex"]
  BY <1>1, <1>2, <1>3
<1>5. PinTypeOK' /\ HandlerRight'
  BY DEF PinInv, PinTypeOK, HandlerRight, Undisturbed, HandlerOn
<1>14. CopiesRight(steps)'
  <2>1. s \in Seq(Steps) /\ Len(s) \in {n + 4, n + 5}
    OBVIOUS
  <2>2. \/ s[n + 4].do = "write" /\ s[n + 4].reg = "out_en" /\ (Len(s) = n + 5 => s[n + 5].do = "state")
        \/ Len(s) = n + 5 /\ s[n + 4].do = "state" /\ s[n + 5].do = "write" /\ s[n + 5].reg = "out_en"
    BY <1>1, <1>3
  <2>3. \A i \in DOMAIN s : s[i].do = "write" =>
           ReadFor(s, i - 1, s[i].reg) \/ (ReadFor(s, i - 2, s[i].reg) /\ s[i - 1].do = "state")
    <3>1. /\ n = 1 => s[1].do = "compare"
          /\ s[n + 1] = Pins!Read("dirm") /\ s[n + 3] = Pins!Read("out_en")
      OBVIOUS
    <3> QED BY ONLY n \in {0, 1}, <1>2, <2>1, <2>2, <3>1, PlanCopies, Zenon
  <2> QED BY <2>3 DEF CopiesRight, ReadFor
<1>6. Wanted("dirm")' = o /\ Wanted("out_en")' = x
  BY DEF Wanted
<1>7. WritesRight(steps)'
  <2> SUFFICES ASSUME NEW i \in DOMAIN s, s[i].do = "write" PROVE s[i].bit = Wanted(s[i].reg)'
    BY Zenon DEF WritesRight
  <2>1. i = n + 2 \/ i = w
    BY <1>4
  <2>2. CASE i = n + 2
    BY <1>2, <1>6, <2>2, Zenon
  <2>3. CASE i = w
    BY <1>3, <1>6, <2>3, Zenon
  <2> QED BY <2>1, <2>2, <2>3
<1>8. RegistersCome(steps)'
  BY <1>1, <1>2, <1>3 DEF RegistersCome
<1>9. LevelsRight(steps)'
  <2>1. Wanted("out_en")' => Output' /\ (pin_mode' = "OutputOpenDrain" => level'["flex"] = "Low")
    BY DEF Wanted, Output
  <2>2. ASSUME NEW i \in DOMAIN s, s[i].do = "state"
        PROVE Wanted("out_en")' /\ s[i].level = level'["flex"]
    <3>1. Len(s) = n + 5 /\ s[i].level = level'["flex"]
      BY <1>4, <2>2
    <3>2. n + 5 # n + 4
      OBVIOUS
    <3>3. Wanted("out_en")'
      BY ONLY <3>1, <3>2, s = steps', Len(steps') = IF Wanted("out_en")' THEN n + 5 ELSE n + 4, Zenon
    <3> QED BY <3>1, <3>3
  <2> QED BY <2>1, <2>2 DEF LevelsRight
<1>10. LevelComes(steps)'
  <2>1. Output' /\ (pin_mode' = "OutputOpenDrain" => level'["flex"] = "Low") => Wanted("out_en")'
    BY DEF Wanted, Output
  <2>2. Wanted("out_en")' => \E i \in DOMAIN s : s[i].do = "state"
    BY <1>1, <1>3
  <2> QED BY <2>1, <2>2 DEF LevelComes
<1>11. LowFirst(steps)'
  BY DEF LowFirst
<1>12. MuxRight(steps)'
  <2>1. ASSUME NEW i \in DOMAIN s
        PROVE s[i].do # "modify" /\ (s[i].do = "compare" => n = 1 /\ i = 1)
    BY <1>4, <2>1
  <2>2. n = 1 => kind' # "emio" /\ s[1].tri = ~ Output'
    OBVIOUS
  <2> QED BY <2>1, <2>2 DEF MuxRight
<1>13. MuxComes(steps)'
  <2>1. kind # "emio" => 1 \in DOMAIN s /\ s[1].do = "compare"
    BY <1>1
  <2> QED BY <2>1 DEF MuxComes
<1> QED BY <1>5, <1>7, <1>8, <1>9, <1>10, <1>11, <1>12, <1>13, <1>14 DEF PinInv, FlexInv

(* The plan of configure_as_output_push_pull.                              *)
OutputPlan(n, l, s) ==
  /\ s \in Seq(Steps) /\ Len(s) = n + 5 /\ (n = 1 => s[1].do = "compare" /\ s[1].tri = FALSE)
  /\ s[n + 1] = Pins!Read("dirm") /\ s[n + 2] = Pins!Write("dirm", TRUE)
  /\ s[n + 3] = Pins!Read("out_en") /\ s[n + 4] = Pins!Write("out_en", TRUE)
  /\ s[n + 5] = Pins!State(l)

(* It is one of the plans above.                                           *)
LEMMA OutputPlanFacts ==
  ASSUME NEW n \in {0, 1}, n = IF kind = "emio" THEN 0 ELSE 1, NEW l \in Pins!Level
  PROVE  OutputPlan(n, l, Pins!configure_as_output_push_pull(l))
<1> PICK rd \in Steps, wd \in Steps, re \in Steps, we \in Steps, st \in Steps :
        /\ rd = Pins!Read("dirm") /\ wd = Pins!Write("dirm", TRUE)
        /\ re = Pins!Read("out_en") /\ we = Pins!Write("out_en", TRUE) /\ st = Pins!State(l)
  BY AccessFacts
<1>2. PICK R \in Seq(Steps) :
        /\ R = Pins!reconfigure_slcr_mio_cfg(FALSE, Pins!Any)
        /\ Len(R) = n /\ (n = 1 => R[1].do = "compare" /\ R[1].tri = FALSE)
  BY ReconfigureFacts, Zenon DEF Pins!Any
<1>3. PICK s : s = Pins!configure_as_output_push_pull(l)
  OBVIOUS
<1>4. s = FiveSteps(R, rd, wd, re, we, st)
  BY <1>2, <1>3 DEF Pins!configure_as_output_push_pull, Pins!Set, FourSteps, FiveSteps
<1>5. /\ s \in Seq(Steps) /\ Len(s) = n + 5 /\ \A i \in 1 .. n : s[i] = R[i]
      /\ s[n + 1] = rd /\ s[n + 2] = wd /\ s[n + 3] = re /\ s[n + 4] = we /\ s[n + 5] = st
  <2>1. n \in {0, 1} /\ R \in Seq(Steps) /\ Len(R) = n /\ Len(R) \in {0, 1}
    BY <1>2
  <2>2. rd \in Steps /\ wd \in Steps /\ re \in Steps /\ we \in Steps /\ st \in Steps
    OBVIOUS
  <2>5. PlanArgs(n, R, rd, wd, re, we)
    BY <2>1, <2>2 DEF PlanArgs
  <2>3. PlanOf(FiveSteps(R, rd, wd, re, we, st), n, 5, R, rd, wd, re, we) /\ FiveSteps(R, rd, wd, re, we, st)[n + 5] = st
    BY ONLY <2>2, <2>5, PlanOfFive
  <2>4. PlanOf(s, n, 5, R, rd, wd, re, we) /\ s[n + 5] = st
    BY ONLY <1>4, <2>3
  <2> QED BY ONLY <2>4 DEF PlanOf
<1>6. n = 1 => s[1] = R[1]
  BY <1>5
<1> QED BY <1>2, <1>3, <1>5, <1>6 DEF OutputPlan

(* An output is configured.                                                *)
LEMMA PinOutput == ASSUME PinInv, Pins!configure_output PROVE PinInv'
<1>1. PICK l \in Pins!Level :
        \/ /\ pin_mode' = "OutputPushPull"
           /\ Pins!begin("configure", Pins!configure_as_output_push_pull(l), l)
        \/ /\ pin_mode' = "OutputOpenDrain"
           /\ \E pullup \in BOOLEAN :
                 Pins!begin("configure", Pins!configure_as_output_open_drain(l, pullup), l)
  BY DEF Pins!configure_output
<1>2. /\ pin_call' = "configure" /\ level' = [level EXCEPT !["flex"] = l]
      /\ UNCHANGED <<kind, handler_mode, bank, data_out, mio, slcr_locked, copy>>
      /\ overtaken' = overtaken \ {"flex"}
  BY <1>1 DEF Pins!begin, Pins!unchangedRegs, Pins!configure_output
<1>3. level' \in [Pins!Pin -> Pins!Level] /\ level'["handler"] = level["handler"] /\ level'["flex"] = l
  BY <1>2 DEF PinInv, PinTypeOK, Pins!Pin
<1>4. PICK n \in {0, 1} : n = IF kind = "emio" THEN 0 ELSE 1
  OBVIOUS
<1>6. PICK rd \in Steps, wd \in Steps, re \in Steps, we \in Steps, wo \in Steps, st \in Steps :
        /\ rd = Pins!Read("dirm") /\ wd = Pins!Write("dirm", TRUE) /\ re = Pins!Read("out_en")
        /\ we = Pins!Write("out_en", TRUE) /\ wo = Pins!Write("out_en", FALSE) /\ st = Pins!State(l)
  BY AccessFacts
<1>10. rd \in Steps /\ wd \in Steps /\ re \in Steps /\ we \in Steps /\ wo \in Steps /\ st \in Steps
  BY <1>6
<1>7. CASE pin_mode' = "OutputPushPull"
  <2>1. steps' = Pins!configure_as_output_push_pull(l)
    BY <1>1, <1>7 DEF Pins!begin
  <2>4. OutputPlan(n, l, steps')
    BY <1>4, <2>1, OutputPlanFacts, Zenon
  <2>5. Output' = TRUE /\ Wanted("out_en")' = TRUE
    BY <1>7 DEF Output, Wanted
  <2>6. /\ n = 1 => steps'[1].do = "compare" /\ steps'[1].tri = ~ Output'
        /\ Len(steps') = IF Wanted("out_en")' THEN n + 5 ELSE n + 4
    <3>1. Len(steps') = IF Wanted("out_en")' THEN n + 5 ELSE n + 4
      BY <2>4, <2>5, Zenon DEF OutputPlan
    <3> QED BY <2>4, <2>5, <3>1 DEF OutputPlan
  <2>7. /\ steps' \in Seq(Steps)
        /\ steps'[n + 1] = Pins!Read("dirm") /\ steps'[n + 2] = Pins!Write("dirm", Output')
        /\ steps'[n + 3] = Pins!Read("out_en") /\ steps'[n + 4] = Pins!Write("out_en", Wanted("out_en")')
        /\ steps'[n + 5] = Pins!State(level'["flex"])
    BY <1>3, <2>4, <2>5, Zenon DEF OutputPlan
  <2> QED BY <1>2, <1>3, <1>4, <1>7, <2>6, <2>7, PlanBegins
<1>8. CASE pin_mode' = "OutputOpenDrain"
  <2>1. PICK pullup \in BOOLEAN : steps' = Pins!configure_as_output_open_drain(l, pullup)
    BY <1>1, <1>8 DEF Pins!begin
  <2>2. PICK R \in Seq(Steps) :
          /\ R = Pins!reconfigure_slcr_mio_cfg(FALSE, {pullup})
          /\ Len(R) = n /\ (n = 1 => R[1].do = "compare" /\ R[1].tri = FALSE)
    BY <1>4, ReconfigureFacts, Zenon
  <2>3. CASE l = "High"
    <3>1. steps' = FourSteps(R, rd, wd, re, wo)
      BY <1>6, <2>1, <2>2, <2>3 DEF Pins!configure_as_output_open_drain, Pins!Set, FourSteps
    <3>2. /\ steps' \in Seq(Steps) /\ Len(steps') = n + 4 /\ \A i \in 1 .. n : steps'[i] = R[i]
          /\ steps'[n + 1] = rd /\ steps'[n + 2] = wd /\ steps'[n + 3] = re /\ steps'[n + 4] = wo
      <4>1. n \in {0, 1} /\ R \in Seq(Steps) /\ Len(R) = n /\ Len(R) \in {0, 1}
        BY <1>4, <2>2
      <4>4. PlanArgs(n, R, rd, wd, re, wo)
        BY <1>10, <4>1 DEF PlanArgs
      <4>2. PlanOf(FourSteps(R, rd, wd, re, wo), n, 4, R, rd, wd, re, wo)
        BY ONLY <4>4, PlanOfFour
      <4>3. PlanOf(steps', n, 4, R, rd, wd, re, wo)
        BY ONLY <3>1, <4>2
      <4> QED BY ONLY <4>3 DEF PlanOf
    <3>3. Output' = TRUE /\ Wanted("out_en")' = FALSE
      BY <1>3, <1>8, <2>3 DEF Output, Wanted
    <3>4. /\ n = 1 => steps'[1].do = "compare" /\ steps'[1].tri = ~ Output'
          /\ Len(steps') = IF Wanted("out_en")' THEN n + 5 ELSE n + 4
      <4>1. n = 1 => steps'[1] = R[1]
        BY <1>4, <3>2
      <4>2. Len(steps') = IF Wanted("out_en")' THEN n + 5 ELSE n + 4
        BY <3>2, <3>3, Zenon
      <4> QED BY <2>2, <3>3, <4>1, <4>2
    <3>5. wd = Pins!Write("dirm", Output') /\ wo = Pins!Write("out_en", Wanted("out_en")')
      BY <1>6, <3>3, Zenon
    <3> QED BY <1>2, <1>3, <1>4, <1>6, <1>8, <3>2, <3>3, <3>4, <3>5, PlanBegins
  <2>4. CASE l = "Low"
    <3>1. steps' = LevelFirst(R, rd, wd, re, st, we)
      BY <1>6, <2>1, <2>2, <2>4 DEF Pins!configure_as_output_open_drain, Pins!Set, LevelFirst
    <3>2. /\ steps' \in Seq(Steps) /\ Len(steps') = n + 5 /\ \A i \in 1 .. n : steps'[i] = R[i]
          /\ steps'[n + 1] = rd /\ steps'[n + 2] = wd /\ steps'[n + 3] = re /\ steps'[n + 4] = st
          /\ steps'[n + 5] = we
      <4>1. n \in {0, 1} /\ R \in Seq(Steps) /\ Len(R) = n /\ Len(R) \in {0, 1}
        BY <1>4, <2>2
      <4>4. PlanArgs(n, R, rd, wd, re, st)
        BY <1>10, <4>1 DEF PlanArgs
      <4>2. PlanOf(LevelFirst(R, rd, wd, re, st, we), n, 5, R, rd, wd, re, st) /\ LevelFirst(R, rd, wd, re, st, we)[n + 5] = we
        BY ONLY <1>10, <4>4, PlanWithState
      <4>3. PlanOf(steps', n, 5, R, rd, wd, re, st) /\ steps'[n + 5] = we
        BY ONLY <3>1, <4>2
      <4> QED BY ONLY <4>3 DEF PlanOf
    <3>3. Output' = TRUE /\ Wanted("out_en")' = TRUE
      BY <1>3, <1>8, <2>4 DEF Output, Wanted
    <3>4. /\ n = 1 => steps'[1].do = "compare" /\ steps'[1].tri = ~ Output'
          /\ Len(steps') = IF Wanted("out_en")' THEN n + 5 ELSE n + 4
      <4>1. n = 1 => steps'[1] = R[1]
        BY <1>4, <3>2
      <4>2. Len(steps') = IF Wanted("out_en")' THEN n + 5 ELSE n + 4
        BY <3>2, <3>3, Zenon
      <4> QED BY <2>2, <3>3, <4>1, <4>2
    <3>5. /\ wd = Pins!Write("dirm", Output') /\ we = Pins!Write("out_en", Wanted("out_en")')
          /\ st = Pins!State(level'["flex"])
      BY <1>3, <1>6, <3>3, Zenon
    <3> QED BY <1>2, <1>3, <1>4, <1>6, <1>8, <3>2, <3>3, <3>4, <3>5, PlanBegins
  <2> QED BY <2>3, <2>4 DEF Pins!Level
<1> QED BY <1>1, <1>7, <1>8

(* The plan of configure_as_input.                                         *)
InputPlan(n, pullup, s) ==
  /\ s \in Seq(Steps) /\ Len(s) = n + 4 /\ (n = 1 => s[1].do = "compare" /\ s[1].tri = TRUE)
  /\ s[n + 1] = Pins!Read("dirm") /\ s[n + 2] = Pins!Write("dirm", FALSE)
  /\ s[n + 3] = Pins!Read("out_en") /\ s[n + 4] = Pins!Write("out_en", FALSE)

(* It is one of the plans above.                                           *)
LEMMA InputPlanFacts ==
  ASSUME NEW n \in {0, 1}, n = IF kind = "emio" THEN 0 ELSE 1, NEW pullup \in BOOLEAN
  PROVE  InputPlan(n, pullup, Pins!configure_as_input(pullup))
<1> PICK rd \in Steps, wd \in Steps, re \in Steps, wo \in Steps :
        /\ rd = Pins!Read("dirm") /\ wd = Pins!Write("dirm", FALSE)
        /\ re = Pins!Read("out_en") /\ wo = Pins!Write("out_en", FALSE)
  BY AccessFacts
<1>2. PICK R \in Seq(Steps) :
        /\ R = Pins!reconfigure_slcr_mio_cfg(TRUE, {pullup})
        /\ Len(R) = n /\ (n = 1 => R[1].do = "compare" /\ R[1].tri = TRUE)
  BY ReconfigureFacts, Zenon
<1>3. PICK s : s = Pins!configure_as_input(pullup)
  OBVIOUS
<1>4. s = FourSteps(R, rd, wd, re, wo)
  BY <1>2, <1>3 DEF Pins!configure_as_input, Pins!Set, FourSteps
<1>5. /\ s \in Seq(Steps) /\ Len(s) = n + 4 /\ \A i \in 1 .. n : s[i] = R[i]
      /\ s[n + 1] = rd /\ s[n + 2] = wd /\ s[n + 3] = re /\ s[n + 4] = wo
  <2>1. R \in Seq(Steps) /\ Len(R) = n /\ Len(R) \in {0, 1}
    BY <1>2
  <2>2. rd \in Steps /\ wd \in Steps /\ re \in Steps /\ wo \in Steps
    OBVIOUS
  <2>5. PlanArgs(n, R, rd, wd, re, wo)
    BY <2>1, <2>2 DEF PlanArgs
  <2>3. PlanOf(FourSteps(R, rd, wd, re, wo), n, 4, R, rd, wd, re, wo)
    BY ONLY <2>5, PlanOfFour
  <2>4. PlanOf(s, n, 4, R, rd, wd, re, wo)
    BY ONLY <1>4, <2>3
  <2> QED BY ONLY <2>4 DEF PlanOf
<1>6. n = 1 => s[1] = R[1]
  BY <1>5
<1> QED BY <1>2, <1>3, <1>5, <1>6 DEF InputPlan

(* An input is configured; a pin that cannot be one stays what it is.      *)
LEMMA PinInput == ASSUME PinInv, Pins!configure_input PROVE PinInv'
<1>1. PICK pullup \in BOOLEAN :
        /\ pin_mode' = IF pullup THEN "InputPullUp" ELSE "InputFloating"
        /\ Pins!begin("configure", IF kind = "mio7" THEN <<>> ELSE Pins!configure_as_input(pullup), level["flex"])
  BY DEF Pins!configure_input
<1>2. /\ pin_call' = "configure" /\ level' = [level EXCEPT !["flex"] = level["flex"]]
      /\ UNCHANGED <<kind, handler_mode, bank, data_out, mio, slcr_locked, copy>>
      /\ overtaken' = overtaken \ {"flex"}
  BY <1>1 DEF Pins!begin, Pins!unchangedRegs, Pins!configure_input
<1>3. level' \in [Pins!Pin -> Pins!Level] /\ level'["handler"] = level["handler"]
  BY <1>2 DEF PinInv, PinTypeOK, Pins!Pin
<1>4. PICK n \in {0, 1} : n = IF kind = "emio" THEN 0 ELSE 1
  OBVIOUS
<1>6. pin_mode' \in {"InputFloating", "InputPullUp"}
  BY <1>1
<1>7. Output' = FALSE /\ Wanted("out_en")' = FALSE
  BY <1>6 DEF Output, Wanted
<1>8. CASE kind = "mio7"
  <2>1. steps' = <<>>
    BY <1>1, <1>8 DEF Pins!begin
  <2>2. PinTypeOK' /\ HandlerRight'
    BY <1>2, <1>3, <1>6, <2>1 DEF PinInv, PinTypeOK, HandlerRight, Undisturbed, HandlerOn
  <2>3. CopiesRight(steps)'
    BY <2>1 DEF CopiesRight
  <2>4. Refused'
    BY <1>2, <1>7, <1>8 DEF Refused
  <2> QED BY <2>2, <2>3, <2>4 DEF PinInv
<1>9. CASE kind # "mio7"
  <2>1. steps' = Pins!configure_as_input(pullup)
    BY <1>1, <1>9 DEF Pins!begin
  <2>2. InputPlan(n, pullup, steps')
    BY <1>4, <2>1, InputPlanFacts, Zenon
  <2>3. /\ n = 1 => steps'[1].do = "compare" /\ steps'[1].tri = ~ Output'
        /\ Len(steps') = IF Wanted("out_en")' THEN n + 5 ELSE n + 4
    <3>1. Len(steps') = IF Wanted("out_en")' THEN n + 5 ELSE n + 4
      BY <1>7, <2>2, Zenon DEF InputPlan
    <3> QED BY <1>7, <2>2, <3>1 DEF InputPlan
  <2>4. /\ steps' \in Seq(Steps)
        /\ steps'[n + 1] = Pins!Read("dirm") /\ steps'[n + 2] = Pins!Write("dirm", Output')
        /\ steps'[n + 3] = Pins!Read("out_en") /\ steps'[n + 4] = Pins!Write("out_en", Wanted("out_en")')
    BY <1>7, <2>2, Zenon DEF InputPlan
  <2> QED BY <1>2, <1>3, <1>4, <1>6, <1>7, <2>3, <2>4, PlanBegins
<1> QED BY <1>8, <1>9

(* As above, of two steps.                                                 *)
LEMMA TwoSteps ==
  ASSUME NEW S, NEW a \in S, NEW b \in S
  PROVE  LET s == <<a, b>> IN s \in Seq(S) /\ DOMAIN s = {1, 2} /\ s[1] = a /\ s[2] = b
OBVIOUS

(* The low level of an open-drain pin is set before its output enable.     *)
LEMMA StateFirst ==
  ASSUME NEW S, NEW a \in S, NEW b \in S, NEW c \in S
  PROVE  LET s == <<a>> \o <<b, c>>
         IN s \in Seq(S) /\ DOMAIN s = {1, 2, 3} /\ s[1] = a /\ s[2] = b /\ s[3] = c
<1>1. /\ <<a>> \in Seq(S) /\ <<b, c>> \in Seq(S) /\ Len(<<a>>) = 1 /\ Len(<<b, c>>) = 2
  OBVIOUS
<1>2. PICK u \in Seq(S) : u = <<a>> \o <<b, c>>
  BY <1>1, ConcatProperties
<1>3. Len(u) = 3 /\ u[1] = a /\ u[2] = b /\ u[3] = c
  BY <1>1, <1>2, ConcatProperties
<1>4. DOMAIN u = {1, 2, 3}
  BY <1>3
<1> QED BY <1>2, <1>3, <1>4

(* A level is set: of an open-drain pin by its output enable, with the low *)
(* level there before; of an input not at all.                             *)
LEMMA PinSet == ASSUME PinInv, Pins!set PROVE PinInv'
<1>1. PICK l \in Pins!Level :
        Pins!begin("set", CASE Pins!is_input -> <<>>
                            [] ~ Pins!is_input /\ l = "High" -> Pins!set_high(pin_mode)
                            [] OTHER -> Pins!set_low(pin_mode), l)
  BY DEF Pins!set
<1>2. /\ pin_call' = "set" /\ level' = [level EXCEPT !["flex"] = l]
      /\ UNCHANGED <<kind, handler_mode, bank, data_out, mio, slcr_locked, copy, pin_mode, overtaken>>
  BY <1>1 DEF Pins!begin, Pins!unchangedRegs, Pins!set
<1>3. /\ level' \in [Pins!Pin -> Pins!Level] /\ level'["handler"] = level["handler"]
      /\ level'["flex"] = l /\ l \in {"Low", "High"}
  BY <1>2 DEF PinInv, PinTypeOK, Pins!Pin, Pins!Level
<1>4. ~ Refused =>
        /\ \A r \in {"dirm", "out_en"} : bank[r]["flex"] = Wanted(r)
        /\ kind # "emio" => Connected(mio["flex"]) \/ "flex" \in overtaken
        /\ Output /\ (pin_mode = "OutputOpenDrain" => level["flex"] = "Low") => data_out["flex"] = level["flex"]
  <2>1. steps = <<>>
    BY DEF Pins!set
  <2> QED BY <2>1 DEF PinInv, FlexInv, RegistersCome, LevelComes, MuxComes
<1>5. /\ HandlerRight' /\ (PinTypeOK' <=> steps' \in Seq(Steps))
      /\ ~ Refused => MuxComes(steps)'
  BY <1>2, <1>3, <1>4 DEF PinInv, PinTypeOK, HandlerRight, Undisturbed, HandlerOn, MuxComes, Connected, Output
<1> PICK rd \in Steps, hi \in Steps, lo \in Steps, on \in Steps, off \in Steps :
        /\ rd = Pins!Read("out_en") /\ hi = Pins!State("High") /\ lo = Pins!State("Low")
        /\ on = Pins!Write("out_en", TRUE) /\ off = Pins!Write("out_en", FALSE)
  BY AccessFacts DEF Pins!Level
<1>6. /\ rd.do = "read" /\ hi.do = "state" /\ hi.level = "High" /\ lo.do = "state" /\ lo.level = "Low"
      /\ on.do = "write" /\ on.reg = "out_en" /\ on.bit = TRUE
      /\ off.do = "write" /\ off.reg = "out_en" /\ off.bit = FALSE
  BY AccessFacts DEF Pins!Level
<1>a. rd \in Steps /\ hi \in Steps /\ lo \in Steps /\ on \in Steps /\ off \in Steps
  OBVIOUS
<1>7. CASE Pins!is_input
  <2>1. steps' = <<>>
    BY <1>1, <1>7 DEF Pins!begin
  <2>2. ~ Output /\ ~ Output' /\ pin_mode' # "OutputOpenDrain"
    BY <1>2, <1>7 DEF Output, Pins!is_input
  <2>3. ~ Refused => WritesRight(steps)' /\ RegistersCome(steps)'
    BY <1>2, <1>4, <2>1, <2>2 DEF WritesRight, RegistersCome, Wanted
  <2>4. /\ LevelsRight(steps)' /\ LevelComes(steps)' /\ LowFirst(steps)' /\ MuxRight(steps)'
        /\ CopiesRight(steps)'
    BY <2>1, <2>2 DEF LevelsRight, LevelComes, LowFirst, MuxRight, CopiesRight
  <2>5. Refused => Refused'
    BY <1>2, <2>2 DEF Refused
  <2> QED BY <1>5, <2>1, <2>3, <2>4, <2>5 DEF PinInv, FlexInv
<1>8. CASE ~ Pins!is_input /\ pin_mode = "OutputPushPull"
  <2>1. PICK st \in {hi, lo} : steps' = <<st>> /\ st.do = "state" /\ st.level = l
    <3>1. CASE l = "High"
      BY <1>1, <1>6, <1>8, <3>1 DEF Pins!begin, Pins!set_high
    <3>2. CASE l = "Low"
      <4>1. steps' = Pins!set_low(pin_mode)
        BY <1>1, <1>8, <3>2 DEF Pins!begin
      <4>2. Pins!set_low(pin_mode) = <<lo>>
        BY <1>8 DEF Pins!set_low
      <4> QED BY <1>6, <3>2, <4>1, <4>2
    <3> QED BY <1>3, <3>1, <3>2
  <2>2. steps' \in Seq(Steps) /\ DOMAIN steps' = {1} /\ steps'[1] = st
    <3>1. st \in Steps
      BY <1>a, <2>1
    <3> HIDE DEF Steps
    <3> QED BY <2>1, <3>1
  <2>3. Output /\ Output' /\ pin_mode' # "OutputOpenDrain" /\ ~ Refused
    BY <1>2, <1>8 DEF Output, Refused
  <2>4. WritesRight(steps)' /\ RegistersCome(steps)'
    BY <1>2, <1>4, <1>8, <2>1, <2>2, <2>3 DEF WritesRight, RegistersCome, Wanted
  <2>5. /\ LevelsRight(steps)' /\ LevelComes(steps)' /\ LowFirst(steps)' /\ MuxRight(steps)'
        /\ CopiesRight(steps)'
    BY <1>3, <2>1, <2>2, <2>3 DEF LevelsRight, LevelComes, LowFirst, MuxRight, CopiesRight
  <2> QED BY <1>5, <2>2, <2>3, <2>4, <2>5 DEF PinInv, FlexInv
<1>9. CASE ~ Pins!is_input /\ pin_mode = "OutputOpenDrain"
  <2>1. Output /\ Output' /\ pin_mode' = "OutputOpenDrain" /\ (Wanted("dirm") <=> TRUE) /\ (Wanted("dirm")' <=> TRUE) /\ ~ Refused
    BY <1>2, <1>9 DEF Output, Wanted, Refused
  <2>2. bank'["out_en"]["flex"] => data_out'["flex"] = "Low"
    BY <1>2, <1>4, <1>9, <2>1 DEF Wanted
  <2>3. bank'["dirm"]["flex"] = Wanted("dirm")'
    BY <1>2, <1>4, <2>1
  <2>4. CASE l = "High"
    <3>1. steps' = <<rd, off>>
      BY <1>1, <1>9, <2>4 DEF Pins!begin, Pins!set_high, Pins!Set
    <3>2. steps' \in Seq(Steps) /\ DOMAIN steps' = {1, 2} /\ steps'[1] = rd /\ steps'[2] = off
      BY ONLY <1>a, <3>1, TwoSteps
    <3>3. Wanted("out_en")' = FALSE
      BY <1>3, <2>1, <2>4 DEF Wanted
    <3>7. \A i \in DOMAIN steps' : steps'[i].do = "write" => i = 2
      BY <1>6, <3>2
    <3>4. WritesRight(steps)'
      <4>1. off.bit = Wanted(off.reg)'
        BY <1>6, <3>3, Zenon
      <4> QED BY <3>2, <3>7, <4>1, Zenon DEF WritesRight
    <3>8. CopiesRight(steps)'
      <4>1. PICK s : s = steps'
        OBVIOUS
      <4>2. ReadFor(s, 2 - 1, s[2].reg)
        <5>1. rd.reg = "out_en" /\ rd.do = "read"
          BY DEF Pins!Read
        <5>2. s[1] = rd /\ s[2] = off /\ 1 \in DOMAIN s
          <6>1. 1 \in DOMAIN steps'
            BY ONLY <3>2
          <6> QED BY ONLY <3>2, <4>1, <6>1
        <5>3. 2 - 1 = 1
          OBVIOUS
        <5> QED BY <1>6, <5>1, <5>2, <5>3, Zenon DEF ReadFor
      <4> QED BY <3>7, <4>1, <4>2, Zenon DEF CopiesRight, ReadFor
    <3>5. RegistersCome(steps)'
      BY <1>6, <2>3, <3>2 DEF RegistersCome
    <3>6. LevelsRight(steps)' /\ LevelComes(steps)' /\ LowFirst(steps)' /\ MuxRight(steps)'
      BY <1>3, <1>6, <2>1, <2>2, <2>4, <3>2 DEF LevelsRight, LevelComes, LowFirst, MuxRight
    <3> QED BY <1>5, <2>1, <3>2, <3>4, <3>5, <3>6, <3>8 DEF PinInv, FlexInv
  <2>5. CASE l = "Low"
    <3>1. steps' = <<lo>> \o <<rd, on>>
      <4>1. steps' = Pins!set_low(pin_mode)
        BY <1>1, <1>9, <2>5 DEF Pins!begin
      <4>2. Pins!set_low(pin_mode) = <<lo>> \o <<rd, on>>
        BY <1>9 DEF Pins!set_low, Pins!Set
      <4> QED BY <4>1, <4>2
    <3>2. /\ steps' \in Seq(Steps) /\ DOMAIN steps' = {1, 2, 3}
          /\ steps'[1] = lo /\ steps'[2] = rd /\ steps'[3] = on
      BY ONLY <1>a, <3>1, StateFirst
    <3>3. Wanted("out_en")' = TRUE
      BY <1>3, <2>1, <2>5 DEF Wanted
    <3>4. Before(steps, 3, "state")'
      BY <1>6, <3>2 DEF Before
    <3>5. \A i \in DOMAIN steps' : steps'[i].do = "write" => i = 3
      BY <1>6, <3>2
    <3>12. WritesRight(steps)'
      <4>1. on.bit = Wanted(on.reg)'
        BY <1>6, <3>3, Zenon
      <4> QED BY <3>2, <3>5, <4>1, Zenon DEF WritesRight
    <3>13. CopiesRight(steps)'
      <4>1. PICK s : s = steps'
        OBVIOUS
      <4>2. ReadFor(s, 3 - 1, s[3].reg)
        <5>1. rd.reg = "out_en" /\ rd.do = "read"
          BY DEF Pins!Read
        <5>2. s[2] = rd /\ s[3] = on /\ 2 \in DOMAIN s
          <6>1. 2 \in DOMAIN steps'
            BY ONLY <3>2
          <6> QED BY ONLY <3>2, <4>1, <6>1
        <5>3. 3 - 1 = 2
          OBVIOUS
        <5> QED BY <1>6, <5>1, <5>2, <5>3, Zenon DEF ReadFor
      <4> QED BY <3>5, <4>1, <4>2, Zenon DEF CopiesRight, ReadFor
    <3>6. RegistersCome(steps)'
      BY <1>6, <2>3, <3>2 DEF RegistersCome
    <3>7. \A i \in DOMAIN steps' :
             /\ steps'[i].do = "state" => i = 1
             /\ steps'[i].do \notin {"compare", "modify"}
      BY <1>6, <3>2
    <3>9. MuxRight(steps)'
      BY <3>7 DEF MuxRight
    <3>10. LevelsRight(steps)'
      BY <1>3, <1>6, <2>1, <2>5, <3>2, <3>7 DEF LevelsRight
    <3>11. LevelComes(steps)'
      BY <1>6, <3>2 DEF LevelComes
    <3>8. LowFirst(steps)'
      BY <1>6, <2>2, <3>2, <3>4 DEF LowFirst
    <3> QED BY <1>5, <2>1, <3>2, <3>6, <3>8, <3>9, <3>10, <3>11, <3>12, <3>13 DEF PinInv, FlexInv
  <2> QED BY <1>3, <2>4, <2>5
<1> QED BY <1>7, <1>8, <1>9 DEF PinInv, PinTypeOK, Pins!is_input

(* new_for_mio and new_for_emio begin with the plan of an input, or, of a  *)
(* pin that cannot be one, with that of an output.                         *)
LEMMA PinInit ==
  ASSUME Pins!GpioInit, kind \in {"mio", "emio", "mio7"},
         handler_mode \in {"OutputPushPull", "OutputOpenDrain", "Periph"}
  PROVE  PinInv
<1>1. PICK n \in {0, 1} : n = IF kind = "emio" THEN 0 ELSE 1
  OBVIOUS
<1>3. /\ pin_mode = "InputFloating" /\ ~ Output /\ ~ Wanted("dirm") /\ ~ Wanted("out_en")
  BY DEF Pins!GpioInit, Output, Wanted
<1>4. /\ bank = [r \in {"dirm", "out_en"} |-> [p \in Pins!Pin |-> p = "handler"]]
      /\ data_out = [p \in Pins!Pin |-> "Low"] /\ level = [p \in Pins!Pin |-> "Low"]
      /\ mio \in [Pins!Pin -> Pins!MioConfig] /\ mio["handler"].mux = "Gpio" /\ ~ mio["handler"].tri
      /\ slcr_locked = TRUE /\ copy = [p \in Pins!Pin |-> FALSE] /\ overtaken = {}
  BY DEF Pins!GpioInit, Pins!GpioIdle
<1>5. HandlerRight /\ (steps \in Seq(Steps) => PinTypeOK)
  BY <1>3, <1>4 DEF PinTypeOK, HandlerRight, Undisturbed, HandlerOn, Pins!Pin, Pins!Level
<1>8. CASE kind = "mio7"
  <2>1. OutputPlan(n, "Low", steps)
    <3>1. steps = Pins!configure_as_output_push_pull("Low") /\ "Low" \in Pins!Level
      BY <1>8 DEF Pins!GpioInit, Pins!Level
    <3> QED BY <1>1, <3>1, OutputPlanFacts, Zenon
  <2>2. steps \in Seq(Steps)
    BY <2>1 DEF OutputPlan
  <2>3. CopiesRight(steps)
    <3>1. /\ Len(steps) = n + 5 /\ (n = 1 => steps[1].do = "compare")
          /\ steps[n + 1] = Pins!Read("dirm") /\ steps[n + 2].do = "write" /\ steps[n + 2].reg = "dirm"
          /\ steps[n + 3] = Pins!Read("out_en") /\ steps[n + 4].do = "write" /\ steps[n + 4].reg = "out_en"
          /\ steps[n + 5].do = "state"
      <4>1. "Low" \in Pins!Level
        BY DEF Pins!Level
      <4> QED BY <2>1, <4>1, AccessFacts DEF OutputPlan
    <3>2. Len(steps) \in {n + 4, n + 5}
      BY <3>1
    <3> QED BY <2>2, <3>1, <3>2, PlanCopies DEF CopiesRight
  <2>4. Refused
    BY <1>3, <1>8 DEF Refused
  <2> QED BY <1>5, <2>2, <2>3, <2>4 DEF PinInv
<1>9. CASE kind # "mio7"
  <2>2. InputPlan(n, FALSE, steps)
    <3>1. steps = Pins!configure_as_input(FALSE)
      BY <1>9 DEF Pins!GpioInit
    <3> QED BY <1>1, <3>1, InputPlanFacts, Zenon
  <2>3. steps \in Seq(Steps)
    BY <2>2 DEF InputPlan
  <2>6. /\ DOMAIN steps = 1 .. n + 4
        /\ steps[n + 1].do = "read" /\ steps[n + 3].do = "read"
        /\ steps[n + 2].do = "write" /\ steps[n + 2].reg = "dirm" /\ steps[n + 2].bit = FALSE
        /\ steps[n + 4].do = "write" /\ steps[n + 4].reg = "out_en" /\ steps[n + 4].bit = FALSE
    <3>1. DOMAIN steps = 1 .. n + 4
      BY <2>2 DEF InputPlan
    <3> QED BY <2>2, <3>1, AccessFacts DEF InputPlan
  <2>1. n = 1 => steps[1].do = "compare" /\ steps[1].tri = TRUE
    BY <2>2 DEF InputPlan
  <2>4. CopiesRight(steps)
    <3>1. Len(steps) \in {n + 4, n + 5} /\ Len(steps) # n + 5
      BY <2>2 DEF InputPlan
    <3>2. steps[n + 1] = Pins!Read("dirm") /\ steps[n + 3] = Pins!Read("out_en")
      BY <2>2 DEF InputPlan
    <3> QED BY <2>1, <2>3, <2>6, <3>1, <3>2, PlanCopies DEF CopiesRight
  <2>7. \A i \in DOMAIN steps :
           \/ i = 1 /\ n = 1 /\ steps[i].do = "compare" /\ steps[i].tri = TRUE
           \/ i \in {n + 1, n + 3} /\ steps[i].do = "read"
           \/ i \in {n + 2, n + 4} /\ steps[i].do = "write"
    <3>1. \A i \in DOMAIN steps : i \in 1 .. n \/ i \in {n + 1, n + 2, n + 3, n + 4}
      BY <2>6
    <3>2. \A i \in 1 .. n : i = 1 /\ n = 1
      OBVIOUS
    <3> QED BY <2>1, <2>6, <3>1, <3>2
  <2>8. WritesRight(steps)
    <3> SUFFICES ASSUME NEW i \in DOMAIN steps, steps[i].do = "write" PROVE steps[i].bit = Wanted(steps[i].reg)
      BY DEF WritesRight
    <3>1. i = n + 2 \/ i = n + 4
      BY <2>7
    <3>2. Wanted("dirm") = FALSE /\ Wanted("out_en") = FALSE
      BY <1>3 DEF Wanted
    <3> QED BY <2>6, <3>1, <3>2, Zenon
  <2>9. RegistersCome(steps)
    BY <2>6 DEF RegistersCome
  <2>10. LevelsRight(steps) /\ LevelComes(steps) /\ LowFirst(steps)
    BY <1>3, <2>7 DEF LevelsRight, LevelComes, LowFirst
  <2>11. MuxRight(steps)
    <3>1. \A i \in DOMAIN steps :
             /\ steps[i].do # "modify"
             /\ steps[i].do = "compare" => i = 1 /\ n = 1 /\ steps[i].tri = TRUE
      BY <2>7
    <3>2. n = 1 => kind # "emio"
      BY <1>1
    <3>3. TRUE = ~ Output
      BY <1>3
    <3> QED BY <3>1, <3>2, <3>3 DEF MuxRight
  <2>12. MuxComes(steps)
    BY <1>1, <2>2, <2>6 DEF MuxComes, InputPlan
  <2> QED BY <1>5, <2>3, <2>4, <2>8, <2>9, <2>10, <2>11, <2>12 DEF PinInv, FlexInv
<1> QED BY <1>8, <1>9

(* Between calls to configure and set it the Flex pin shows what it was    *)
(* asked for, an open-drain pin never drives a high level, not even while  *)
(* it is set, and the handler's pin shows what the handler asked for at    *)
(* every moment, although both read, change and write the same registers:  *)
(* for every kind of pin and every use of the handler's, up to the first   *)
(* interrupt that comes into a change of a register it changes too.        *)
THEOREM PinsDoAsAsked ==
  Kinds \subseteq {"mio", "emio", "mio7"}
    /\ HandlerModes \subseteq {"OutputPushPull", "OutputOpenDrain", "Periph"} =>
      (Pins!GpioSpec => []PinsAsAsked)
<1> SUFFICES ASSUME Kinds \subseteq {"mio", "emio", "mio7"},
                    HandlerModes \subseteq {"OutputPushPull", "OutputOpenDrain", "Periph"}
             PROVE Pins!GpioSpec => []PinsAsAsked
  OBVIOUS
<1>1. Pins!GpioInit => PinInv
  BY PinInit DEF Pins!GpioInit, Pins!GpioIdle
<1>2. PinInv /\ [Pins!GpioNext]_(Pins!gpioVars) => PinInv'
  <2> SUFFICES ASSUME PinInv, [Pins!GpioNext]_(Pins!gpioVars) PROVE PinInv'
    OBVIOUS
  <2>1. CASE Pins!configure_output
    BY <2>1, PinOutput
  <2>2. CASE Pins!configure_input
    BY <2>2, PinInput
  <2>3. CASE Pins!set
    BY <2>3, PinSet
  <2>4. CASE Pins!Access
    BY <2>4, PinRead, PinWrite, PinLevel, PinLock, PinModify, PinCompare DEF Pins!Access
  <2>5. CASE Pins!interrupt
    BY <2>5, PinInterrupt
  <2>6. CASE UNCHANGED Pins!gpioVars
    <3>1. PinTypeOK' /\ HandlerRight' /\ CopiesRight(steps)' /\ (Refused => Refused')
      BY <2>6 DEF Pins!gpioVars, PinInv, PinTypeOK, HandlerRight, CopiesRight, ReadFor, CopyRight, Undisturbed,
         HandlerOn, Refused, Output
    <3>2. FlexInv(steps) => FlexInv(steps)'
      BY <2>6 DEF Pins!gpioVars, FlexInv, WritesRight, RegistersCome, LevelsRight,
         LevelComes, LowFirst, MuxRight, MuxComes, Connected, Wanted, Output, Before
    <3> QED BY <3>1, <3>2 DEF PinInv
  <2> QED BY <2>1, <2>2, <2>3, <2>4, <2>5, <2>6 DEF Pins!GpioNext
<1>3. PinInv => PinsAsAsked
  BY PinInvShows
<1> QED BY <1>1, <1>2, <1>3, PTL DEF Pins!GpioSpec
=============================================================================
