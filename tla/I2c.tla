-------------------------------- MODULE I2c --------------------------------
(***************************************************************************)
(* The blocking I2C master (i2c.rs).  The driver fills and drains a FIFO   *)
(* and polls; the controller moves bytes meanwhile, and ends a transfer    *)
(* with a stop, or holds the bus, when it has nothing left to move.  A     *)
(* slave may refuse a byte or stall, and another master win the bus.       *)
(***************************************************************************)
EXTENDS Integers, Sequences

CONSTANTS
  I2C_FIFO_DEPTH, MAX_READ_SIZE,
  Lengths,   \* bytes of a write or of a read
  MaxCalls, MaxFaults

I2cAssumption ==
  /\ I2C_FIFO_DEPTH \in Nat \ {0} /\ MAX_READ_SIZE \in Nat /\ Lengths \subseteq Nat
  /\ MaxCalls \in Nat /\ MaxFaults \in Nat

VARIABLES
  i2c_step,  \* where the driver is
  i2c_call,  \* operation and its lengths, and its number
  hold,      \* HOLD bit of the control register
  fifo, size, isr,   \* bytes in the FIFO, transfer size to receive, status bits
  bus, shift,        \* what the controller does, and the byte it shifts out
  written, first_write_cycle, chunk,   \* of write_transfer_blocking
  sent, read,  \* bytes the slave has taken, bytes the driver has got
  outcome,   \* of the last call
  ran_empty, \* the FIFO was empty and the last byte out before the driver refilled it
  faults

driver_vars == <<i2c_step, i2c_call, written, first_write_cycle, chunk, read, outcome>>
i2cVars == <<driver_vars, hold, fifo, size, isr, bus, shift, sent, ran_empty, faults>>

Calls == [op : {"write"}, w : Lengths, r : {0}] \cup [op : {"read"}, w : {0}, r : Lengths]
         \cup [op : {"write_read"}, w : Lengths, r : Lengths]
generate_stop == i2c_call.op = "write"
Shorter(a, b) == IF a < b THEN a ELSE b
Numbers(n) == [i \in 1 .. n |-> i]

I2cInit ==
  /\ i2c_step = "idle" /\ i2c_call = [op |-> "none", w |-> 0, r |-> 0, count |-> 0]
  /\ hold = FALSE /\ fifo = <<>> /\ size = 0 /\ isr = {}
  /\ bus = "idle" /\ shift = 0 /\ sent = <<>> /\ read = <<>>
  /\ written = 0 /\ first_write_cycle = TRUE /\ chunk = 0
  /\ outcome = "none" /\ ran_empty = FALSE /\ faults = 0

call ==
  /\ i2c_step = "idle" /\ i2c_call.count < MaxCalls
  /\ \E c \in Calls :
        /\ i2c_call' = [op |-> c.op, w |-> c.w, r |-> c.r, count |-> i2c_call.count + 1]
        /\ i2c_step' = IF c.op = "read" THEN "read_setup" ELSE "write_setup"
  /\ sent' = <<>> /\ read' = <<>> /\ outcome' = "none"
  /\ UNCHANGED <<hold, fifo, size, isr, bus, shift, written, first_write_cycle, chunk,
                 ran_empty, faults>>

(* clean_up_after_transfer_or_on_error clears the FIFO and, with it, the   *)
(* transfer size, and leaves the hold bit.                                 *)
clean_up_and_fail(kind) ==
  /\ fifo' = <<>> /\ size' = 0
  /\ i2c_step' = "idle" /\ outcome' = kind

-----------------------------------------------------------------------------
(* write_transfer_blocking.                                                *)
write_setup ==
  /\ i2c_step = "write_setup"
  /\ hold' = (hold \/ ~ generate_stop) /\ fifo' = <<>> /\ size' = 0 /\ isr' = {}
  /\ written' = 0 /\ first_write_cycle' = TRUE
  /\ i2c_step' = "fill"
  /\ UNCHANGED <<i2c_call, bus, shift, chunk, sent, read, outcome, ran_empty, faults>>

(* The FIFO is filled; the first time, the address starts the transfer.    *)
fill ==
  /\ i2c_step = "fill"
  /\ chunk' = Shorter(I2C_FIFO_DEPTH - Len(fifo), i2c_call.w - written)
  /\ fifo' = fifo \o [i \in 1 .. chunk' |-> written + i]
  /\ written' = written + chunk'
  /\ bus' = IF first_write_cycle THEN "address" ELSE bus
  /\ i2c_step' = "busy"
  /\ UNCHANGED <<i2c_call, hold, size, isr, shift, first_write_cycle, sent, read, outcome,
                 ran_empty, faults>>

tx_errors == isr \cap {"arbitration_lost", "nack", "timeout"}

(* Whether a refusal is put down to the address is decided after the       *)
(* clean-up, by a transfer size that this has cleared.                     *)
nack_of_address(len) == first_write_cycle /\ 0 + 1 = len

handle_tx_errors(len) ==
  /\ clean_up_and_fail(
       CASE "arbitration_lost" \in isr -> "arbitration_lost"
         [] "arbitration_lost" \notin isr /\ "nack" \in isr ->
              IF nack_of_address(len) THEN "nack_address" ELSE "nack_data"
         [] OTHER -> "timeout")
  /\ UNCHANGED <<i2c_call, hold, isr, bus, shift, written, first_write_cycle, chunk,
                 sent, read, ran_empty, faults>>

tx_busy == fifo # <<>>

wait_while_busy ==
  /\ i2c_step = "busy"
  /\ \/ tx_busy /\ tx_errors # {} /\ handle_tx_errors(chunk)
     \/ /\ ~ tx_busy
        /\ first_write_cycle' = FALSE
        /\ i2c_step' = IF written = i2c_call.w THEN "write_complete" ELSE "fill"
        /\ UNCHANGED <<i2c_call, hold, fifo, size, isr, bus, shift, written, chunk, sent, read,
                       outcome, ran_empty, faults>>

(* Mutant: the transfer is over when the FIFO is empty.                    *)
completed_empty == TRUE

completed == "complete" \in isr

write_complete ==
  /\ i2c_step = "write_complete"
  /\ \/ /\ completed
        /\ hold' = (hold /\ ~ generate_stop)
        /\ IF generate_stop THEN i2c_step' = "idle" /\ outcome' = "ok"
           ELSE i2c_step' = "read_setup" /\ UNCHANGED outcome
        /\ UNCHANGED <<i2c_call, fifo, size, isr, bus, shift, written, first_write_cycle, chunk,
                       sent, read, ran_empty, faults>>
     \/ ~ completed /\ tx_errors # {} /\ handle_tx_errors(i2c_call.w)

-----------------------------------------------------------------------------
(* read_transfer_blocking.  Too long a read is refused with the hold bit   *)
(* set.                                                                    *)
read_setup ==
  /\ i2c_step = "read_setup"
  /\ hold' = (hold \/ i2c_call.r > I2C_FIFO_DEPTH) /\ fifo' = <<>>
  /\ IF i2c_call.r > MAX_READ_SIZE
     THEN /\ i2c_step' = "idle" /\ outcome' = "too_large" /\ size' = 0
          /\ UNCHANGED <<isr, bus>>
     ELSE /\ isr' = {} /\ size' = i2c_call.r /\ bus' = "address"
          /\ i2c_step' = "receive" /\ UNCHANGED outcome
  /\ UNCHANGED <<i2c_call, shift, written, first_write_cycle, chunk, sent, read, ran_empty, faults>>

rx_errors == isr \cap {"rx_overflow", "nack", "timeout"}

handle_rx_errors ==
  /\ clean_up_and_fail(
       CASE "rx_overflow" \in isr -> "rx_overflow"
         [] "rx_overflow" \notin isr /\ "nack" \in isr ->
              IF read = <<>> THEN "nack_address" ELSE "nack_data"
         [] OTHER -> "timeout")
  /\ UNCHANGED <<i2c_call, hold, isr, bus, shift, written, first_write_cycle, chunk,
                 sent, read, ran_empty, faults>>

receive ==
  /\ i2c_step = "receive"
  /\ \/ rx_errors # {} /\ handle_rx_errors
     \/ /\ rx_errors = {} /\ fifo # <<>>
        /\ i2c_step' = "drain"
        /\ UNCHANGED <<i2c_call, hold, fifo, size, isr, bus, shift, written, first_write_cycle,
                       chunk, sent, read, outcome, ran_empty, faults>>

drain ==
  /\ i2c_step = "drain"
  /\ IF fifo # <<>> THEN read' = Append(read, Head(fifo)) /\ fifo' = Tail(fifo) /\ UNCHANGED i2c_step
     ELSE i2c_step' = "release" /\ UNCHANGED <<read, fifo>>
  /\ UNCHANGED <<i2c_call, hold, size, isr, bus, shift, written, first_write_cycle, chunk, sent,
                 outcome, ran_empty, faults>>

release ==
  /\ i2c_step = "release"
  /\ hold' = (hold /\ size > I2C_FIFO_DEPTH)
  /\ i2c_step' = IF Len(read) = i2c_call.r THEN "read_complete" ELSE "receive"
  /\ UNCHANGED <<i2c_call, fifo, size, isr, bus, shift, written, first_write_cycle, chunk, sent,
                 read, outcome, ran_empty, faults>>

read_complete ==
  /\ i2c_step = "read_complete"
  /\ \/ /\ "complete" \in isr
        /\ hold' = FALSE /\ fifo' = <<>> /\ size' = 0
        /\ i2c_step' = "idle" /\ outcome' = "ok"
        /\ UNCHANGED <<i2c_call, isr, bus, shift, written, first_write_cycle, chunk, sent, read,
                       ran_empty, faults>>
     \/ "complete" \notin isr /\ rx_errors # {} /\ handle_rx_errors

-----------------------------------------------------------------------------
(* The controller and the slave.                                           *)
raise_bit(bit, to) ==
  /\ isr' = isr \cup {bit}
  /\ bus' = to

receiving == i2c_step \in {"receive", "drain", "release", "read_complete"}

address_taken ==
  /\ bus = "address" /\ bus' = IF receiving THEN "rx" ELSE "tx"
  /\ UNCHANGED <<driver_vars, hold, fifo, size, isr, shift, sent, ran_empty, faults>>

shift_out ==
  /\ bus = "tx"
  /\ \/ shift = 0 /\ fifo # <<>> /\ shift' = Head(fifo) /\ fifo' = Tail(fifo) /\ UNCHANGED sent
     \/ shift # 0 /\ sent' = Append(sent, shift) /\ shift' = 0 /\ UNCHANGED fifo
  /\ UNCHANGED <<driver_vars, hold, size, isr, bus, ran_empty, faults>>

(* With nothing to send the transfer is complete, and the bus is released  *)
(* if it is not to be held; held, it goes on with a byte that is written.  *)
nothing_to_send ==
  /\ bus = "tx" /\ shift = 0 /\ fifo = <<>>
  /\ raise_bit("complete", IF hold THEN "held" ELSE "idle")
  /\ ran_empty' = (ran_empty \/ written < i2c_call.w)
  /\ UNCHANGED <<driver_vars, hold, fifo, size, shift, sent, faults>>

go_on ==
  /\ \/ bus \in {"held", "refused"} /\ ~ hold /\ bus' = "idle"
     \/ bus = "held" /\ hold /\ fifo # <<>> /\ ~ receiving /\ bus' = "tx"
  /\ UNCHANGED <<driver_vars, hold, fifo, size, isr, shift, sent, ran_empty, faults>>

shift_in ==
  /\ bus = "rx" /\ size > 0
  /\ \/ /\ Len(fifo) < I2C_FIFO_DEPTH
        /\ fifo' = Append(fifo, i2c_call.r - size + 1) /\ size' = size - 1
        /\ UNCHANGED <<isr, bus>>
     \/ /\ Len(fifo) = I2C_FIFO_DEPTH /\ ~ hold
        /\ raise_bit("rx_overflow", "idle") /\ UNCHANGED <<fifo, size>>
  /\ UNCHANGED <<driver_vars, hold, shift, sent, ran_empty, faults>>

all_received ==
  /\ bus = "rx" /\ size = 0
  /\ raise_bit("complete", IF hold THEN "held" ELSE "idle")
  /\ UNCHANGED <<driver_vars, hold, fifo, size, shift, sent, ran_empty, faults>>

fault ==
  /\ faults < MaxFaults /\ faults' = faults + 1
  /\ bus \in {"address", "tx", "rx"}
  /\ \/ (bus = "address" \/ shift # 0) /\ raise_bit("nack", IF hold THEN "refused" ELSE "idle")
     \/ raise_bit("timeout", "idle") \/ raise_bit("arbitration_lost", "idle")
  /\ shift' = 0
  /\ UNCHANGED <<driver_vars, hold, fifo, size, sent, ran_empty>>

Master ==
  \/ write_setup \/ fill \/ wait_while_busy \/ write_complete
  \/ read_setup \/ receive \/ drain \/ release \/ read_complete
Controller ==
  address_taken \/ shift_out \/ nothing_to_send \/ go_on \/ shift_in \/ all_received

I2cNext == call \/ Master \/ Controller \/ fault
I2cSpec == I2cInit /\ [][I2cNext]_i2cVars /\ WF_i2cVars(Master) /\ WF_i2cVars(Controller)

-----------------------------------------------------------------------------
(* A call that succeeds has moved all its bytes in order, each of them     *)
(* acknowledged, and has released the bus or is about to, unless the FIFO  *)
(* ran empty in the middle of a write.                                     *)
MovesWhole ==
  outcome = "ok" /\ ~ ran_empty =>
    sent = Numbers(i2c_call.w) /\ read = Numbers(i2c_call.r) /\ ~ hold

(* Every call ends, unless a read is of no byte or loses the bus, or the   *)
(* FIFO of a write runs empty in its middle.                               *)
CallEnds ==
  [](~ ran_empty /\ (i2c_call.op \in {"read", "write_read"} => i2c_call.r > 0)
       /\ (i2c_step \in {"receive", "drain", "read_complete"} => "arbitration_lost" \notin isr))
    => []<>(i2c_step = "idle")
=============================================================================
