---------------------------- MODULE SpiBlocking ----------------------------
(***************************************************************************)
(* The blocking SPI master driver (spi/mod.rs): read, write, transfer,     *)
(* transfer_in_place and flush of Spi, alone (SpiBus) or between selecting *)
(* and releasing the chip select (SpiDevice::transaction).  The controller *)
(* moves one word after the other from the transmit to the receive FIFO,   *)
(* between any two register accesses of the driver.                        *)
(*                                                                         *)
(* Both FIFOs are in order and every word sent returns one, so a word read *)
(* belongs to the call that sent it exactly if the counts agree: words are *)
(* counted, not represented.                                               *)
(***************************************************************************)
EXTENDS Integers

CONSTANTS
  FIFO_DEPTH,   \* words each FIFO holds
  MaxLen,       \* bound on the length of a transfer
  Modes         \* ways to use the driver: max_len, the longest transfer; shifter, the words
                \* (0 or 1) the controller holds outside of both FIFOs; manual, that the
                \* SlaveSelectConfig has a manual start; resets, that
                \* reset_and_reconfigure may be called

ASSUME SpiAssumption ==
  /\ FIFO_DEPTH \in Nat \ {0} /\ MaxLen \in Nat \ {0}
  /\ Modes \subseteq [max_len : 1 .. MaxLen, shifter : {0, 1}, manual : BOOLEAN, resets : BOOLEAN]

VARIABLES
  mode,             \* the member of Modes for this behaviour
  tx, shift, rx,    \* words in the transmit FIFO, in the shifter, in the receive FIFO
  rx_ovr,           \* the controller has dropped a word
  running,          \* the controller sends what is in the transmit FIFO
  rx_trig,          \* the receive FIFO threshold
  outstanding_rx,   \* Spi::outstanding_rx
  cs,               \* the chip select is asserted
  pc,               \* how far the driver is
  op,               \* the call in progress
  total,            \* its words
  prefill,          \* how many of them are written before the start
  written,          \* written, write_idx
  read_idx,         \* read_idx
  status            \* the copy of the interrupt status register

fifoVars == <<tx, shift, rx, rx_ovr, running>>
callVars == <<op, total, prefill, written, read_idx>>
vars == <<mode, tx, shift, rx, rx_ovr, running, rx_trig, outstanding_rx, cs, pc,
          op, total, prefill, written, read_idx, status>>

Op == {"read", "write", "transfer", "transfer_in_place"}
in_flight == tx + shift + rx
at_most_depth(n) == IF n < FIFO_DEPTH THEN n ELSE FIFO_DEPTH

Init ==
  /\ mode \in Modes
  /\ tx = 0 /\ shift = 0 /\ rx = 0 /\ rx_ovr = FALSE /\ running = ~ mode.manual
  /\ rx_trig = 1 /\ outstanding_rx = FALSE /\ cs = FALSE /\ pc = "between"
  /\ op = "none" /\ total = 0 /\ prefill = 0 /\ written = 0 /\ read_idx = 0
  /\ status = [rx_not_empty |-> FALSE, tx_full |-> FALSE]

-----------------------------------------------------------------------------
(* Calls.  write_len is the length of what the call sends; only transfer   *)
(* may send less than it receives.                                         *)

(* What an earlier write left in the receive FIFO has to be read first.   *)
flush_skipped == FALSE
flush_needed == outstanding_rx

begin(o, len, write_len) ==
  /\ pc = "between"
  /\ o # "transfer" => write_len = len
  /\ op' = o /\ total' = len /\ prefill' = at_most_depth(write_len)
  /\ written' = 0 /\ read_idx' = 0
  /\ \/ flush_needed /\ pc' = "flush" /\ UNCHANGED rx_trig
     \/ ~ flush_needed /\ pc' = "fill" /\ rx_trig' = 1
  /\ UNCHANGED <<mode, fifoVars, outstanding_rx, cs, status>>

select_hw_cs ==
  /\ pc = "between" /\ ~ cs
  /\ cs' = TRUE
  /\ UNCHANGED <<mode, fifoVars, rx_trig, outstanding_rx, pc, callVars, status>>

(* flush() of its own, or as the end of a transaction.                     *)
begin_flush ==
  /\ pc = "between" /\ flush_needed
  /\ pc' = "flush"
  /\ op' = "flush"
  /\ UNCHANGED <<mode, fifoVars, rx_trig, outstanding_rx, cs, total, prefill, written, read_idx, status>>

no_hw_cs ==
  /\ pc = "between" /\ cs
  /\ ~ flush_needed
  /\ cs' = FALSE
  /\ UNCHANGED <<mode, fifoVars, rx_trig, outstanding_rx, pc, callVars, status>>

(* The loop of flush spins until the threshold is reached.                 *)
flush ==
  /\ pc = "flush"
  /\ rx >= rx_trig
  /\ rx' = rx - rx_trig
  /\ rx_trig' = 1
  /\ outstanding_rx' = FALSE
  /\ \/ op = "flush" /\ pc' = "between" /\ op' = "none"
     \/ op # "flush" /\ pc' = "fill" /\ op' = op
  /\ UNCHANGED <<mode, tx, shift, rx_ovr, running, cs, total, prefill, written, read_idx, status>>

-----------------------------------------------------------------------------
(* The transfer: initial fill, start, then the polling loop.               *)

initial_fifo_fill ==
  /\ pc = "fill" /\ written < prefill
  /\ tx' = tx + 1
  /\ written' = written + 1
  /\ UNCHANGED <<mode, shift, rx, rx_ovr, running, rx_trig, outstanding_rx, cs, pc,
                 op, total, prefill, read_idx, status>>

issue_manual_start ==
  /\ pc = "fill" /\ written = prefill
  /\ running' = TRUE
  /\ pc' = "poll"
  /\ UNCHANGED <<mode, tx, shift, rx, rx_ovr, rx_trig, outstanding_rx, cs, callVars, status>>

(* write() returns when all is written, the others when all is read too.   *)
finished == written = total /\ (op # "write" => read_idx = total)

read_isr ==
  /\ pc = "poll" /\ ~ finished
  /\ status' = [rx_not_empty |-> rx >= rx_trig, tx_full |-> tx = FIFO_DEPTH]
  /\ pc' = "pump"
  /\ UNCHANGED <<mode, fifoVars, rx_trig, outstanding_rx, cs, callVars>>

reads_all_but_one == IF status.rx_not_empty /\ read_idx < total - 1 THEN 1 ELSE 0
reads == IF status.rx_not_empty /\ read_idx < total THEN 1 ELSE 0

writes == IF ~ status.tx_full /\ written < total THEN 1 ELSE 0

pump ==
  /\ pc = "pump"
  /\ rx' = rx - reads
  /\ read_idx' = read_idx + reads
  /\ tx' = tx + writes
  /\ written' = written + writes
  /\ pc' = "poll"
  /\ UNCHANGED <<mode, shift, rx_ovr, running, rx_trig, outstanding_rx, cs, op, total, prefill, status>>

return ==
  /\ pc = "poll" /\ finished
  /\ pc' = "between" /\ op' = "none"
  /\ \/ op = "write" /\ rx_trig' = total - read_idx /\ outstanding_rx' = TRUE
     \/ op # "write" /\ UNCHANGED <<mode, rx_trig, outstanding_rx>>
  /\ UNCHANGED <<mode, fifoVars, cs, total, prefill, written, read_idx, status>>

(* The reset empties the FIFOs; outstanding_rx keeps its value.  It is not *)
(* called in a transaction, which borrows the driver.                      *)
reset_and_reconfigure ==
  /\ mode.resets
  /\ pc = "between" /\ ~ cs
  /\ tx' = 0 /\ shift' = 0 /\ rx' = 0 /\ rx_ovr' = FALSE /\ running' = ~ mode.manual
  /\ rx_trig' = 1
  /\ UNCHANGED <<mode, outstanding_rx, cs, pc, callVars, status>>

-----------------------------------------------------------------------------
(* The controller.  With a manual start it stops when it has sent all.     *)

spi_load ==
  /\ mode.shifter = 1
  /\ running /\ tx > 0 /\ shift = 0
  /\ tx' = tx - 1 /\ shift' = 1
  /\ UNCHANGED <<mode, rx, rx_ovr, running, rx_trig, outstanding_rx, cs, pc, callVars, status>>

spi_word ==
  /\ running
  /\ \/ mode.shifter = 1 /\ shift = 1 /\ shift' = 0 /\ tx' = tx
     \/ mode.shifter = 0 /\ tx > 0 /\ tx' = tx - 1 /\ shift' = shift
  /\ running' = (~ mode.manual \/ tx' > 0)
  /\ \/ rx < FIFO_DEPTH /\ rx' = rx + 1 /\ rx_ovr' = rx_ovr
     \/ rx = FIFO_DEPTH /\ rx' = rx /\ rx_ovr' = TRUE
  /\ UNCHANGED <<mode, rx_trig, outstanding_rx, cs, pc, callVars, status>>

Call == \/ \E o \in Op, len \in 1 .. mode.max_len : \E write_len \in 0 .. len : begin(o, len, write_len)
        \/ select_hw_cs \/ begin_flush \/ no_hw_cs

Driver == flush \/ initial_fifo_fill \/ issue_manual_start \/ read_isr \/ pump \/ return
Controller == spi_load \/ spi_word

Next == Call \/ reset_and_reconfigure \/ Driver \/ Controller

(* A call that was made runs on, and so does the controller's clock.       *)
Spec == Init /\ [][Next]_vars /\ WF_vars(Driver) /\ WF_vars(Controller)

-----------------------------------------------------------------------------
TypeOK ==
  /\ mode \in Modes
  /\ tx \in 0 .. FIFO_DEPTH /\ shift \in 0 .. mode.shifter /\ rx \in 0 .. FIFO_DEPTH
  /\ rx_ovr \in BOOLEAN /\ running \in BOOLEAN
  /\ rx_trig \in Nat /\ outstanding_rx \in BOOLEAN /\ cs \in BOOLEAN
  /\ pc \in {"between", "flush", "fill", "poll", "pump"}
  /\ op \in Op \cup {"none", "flush"}
  /\ total \in 0 .. MaxLen /\ prefill \in 0 .. FIFO_DEPTH
  /\ written \in 0 .. MaxLen /\ read_idx \in 0 .. MaxLen
  /\ status \in [rx_not_empty : BOOLEAN, tx_full : BOOLEAN]

(* Transfers longer than the FIFO need the words on their way to fit it.   *)
Fits == mode.shifter = 0 \/ mode.max_len <= FIFO_DEPTH

(* The receive FIFO never overflows, however long the driver is held up    *)
(* between two polls: it writes only what it has made room for.            *)
NoOverflow == Fits => ~ rx_ovr

(* During a call the words on their way are those it has written and not   *)
(* yet read: what it reads is the answer to its own words, nothing that an *)
(* earlier write left behind.                                              *)
WordsAccountedFor == Fits /\ pc \in {"fill", "poll", "pump"} => written - read_idx = in_flight

(* A transaction releases the chip select only when all its words are back. *)
ReleasedWhenDone == [][Fits /\ cs /\ ~ cs' => in_flight = 0]_vars

(* The threshold that write() leaves for flush() can be reached: "we use   *)
(* the FIFO trigger mechanism to determine when we can read all the        *)
(* remaining bytes" (mod.rs).                                              *)
TriggerReachable == Fits => rx_trig <= FIFO_DEPTH

(* Every call returns, without resets and with an automatic start.  With a *)
(* manual one, words written after the FIFO ran empty are never sent.      *)
CallEnds ==
  Fits /\ ~ mode.manual /\ ~ mode.resets => (pc # "between" ~> pc = "between")

(* Every call returns after a reset too, which "can also be used to reset  *)
(* the FIFOs and the state machine of the SPI" (mod.rs:833).               *)
CallEndsAfterReset == mode.resets => (pc # "between" ~> pc = "between")
=============================================================================
