------------------------------- MODULE UartRx -------------------------------
(***************************************************************************)
(* The receiver of the UART (uart/rx.rs), read by its interrupt handler or *)
(* by blocking reads.  The handler decides on one copy of the status,      *)
(* empties the FIFO and clears all receive events at its end, while bytes  *)
(* keep arriving; a byte restarts the timer of the receive timeout.        *)
(***************************************************************************)
EXTENDS Integers, Sequences

CONSTANTS
  RX_DEPTH,   \* FIFO_DEPTH, the length of the buffer too
  RX_TRIGGER, \* bytes at which the trigger event is raised
  MaxBytes    \* bound on the bytes that arrive

UartRxAssumption ==
  /\ RX_DEPTH \in Nat \ {0} /\ RX_TRIGGER \in 1 .. RX_DEPTH /\ MaxBytes \in Nat

VARIABLES
  rx_mode,    \* how bytes are read, and the arguments reset_rx_timeout and rto
  rx_fifo, rx_isr, timer,   \* bytes in the FIFO, events, and the timeout's timer
  rx_enabled, \* reception is started
  line,       \* bytes that have arrived
  overrun,    \* those the FIFO had no room for
  rx_handler, \* how far on_interrupt is
  rx_copy,    \* its copy of the events
  buf,        \* bytes it has read
  delivered,  \* bytes handed to the caller
  reported,   \* it has reported an overrun
  clobbered   \* a timeout has expired during the handler, whose end clears it

rxVars == <<rx_mode, rx_fifo, rx_isr, timer, rx_enabled, line, overrun, rx_handler, rx_copy,
            buf, delivered, reported, clobbered>>

GHOST == 0   \* what an empty FIFO reads as

RxInit ==
  /\ rx_mode \in [by : {"interrupt", "blocking"}, reset_rx_timeout : BOOLEAN, rto : BOOLEAN]
  /\ rx_fifo = <<>> /\ rx_isr = {} /\ timer = "stopped" /\ rx_enabled = FALSE
  /\ line = 0 /\ overrun = {} /\ rx_handler = "none" /\ rx_copy = {} /\ buf = <<>>
  /\ delivered = <<>> /\ reported = FALSE /\ clobbered = FALSE

-----------------------------------------------------------------------------
(* Reset, clear, and enable.                                               *)
start_interrupt_driven_reception ==
  /\ ~ rx_enabled /\ rx_mode.by = "interrupt"
  /\ rx_fifo' = <<>> /\ overrun' = overrun \cup {rx_fifo[i] : i \in DOMAIN rx_fifo}
  /\ rx_isr' = {} /\ rx_enabled' = TRUE /\ timer' = "stopped"
  /\ UNCHANGED <<rx_mode, line, rx_handler, rx_copy, buf, delivered, reported, clobbered>>

enter ==
  /\ rx_handler = "none" /\ rx_enabled /\ rx_isr # {}
  /\ rx_copy' = rx_isr /\ buf' = <<>>
  /\ rx_handler' = "read"
  /\ UNCHANGED <<rx_mode, rx_fifo, rx_isr, timer, rx_enabled, line, overrun, delivered, reported,
                 clobbered>>

(* Mutant: a trigger is taken for a full FIFO.                             *)
unchecked_full == IF "rx_full" \in rx_copy \/ "rx_trg" \in rx_copy THEN RX_DEPTH ELSE 0

(* Bytes that are read without a look at the FIFO.                         *)
unchecked ==
  CASE "rx_full" \in rx_copy -> RX_DEPTH
    [] "rx_full" \notin rx_copy /\ "rx_trg" \in rx_copy -> RX_TRIGGER
    [] OTHER -> 0

pop ==
  /\ buf' = Append(buf, IF rx_fifo = <<>> THEN GHOST ELSE Head(rx_fifo))
  /\ rx_fifo' = IF rx_fifo = <<>> THEN <<>> ELSE Tail(rx_fifo)

read_fifo_unchecked ==
  /\ rx_handler = "read" /\ Len(buf) < unchecked
  /\ pop
  /\ UNCHANGED <<rx_mode, rx_isr, timer, rx_enabled, line, overrun, rx_handler, rx_copy,
                 delivered, reported, clobbered>>

more == Len(buf) < RX_DEPTH /\ rx_fifo # <<>>

(* Mutant: bytes below the trigger level are left in the FIFO.             *)
read_fifo_none ==
  /\ rx_handler = "read" /\ Len(buf) >= unchecked
  /\ rx_handler' = "finish" /\ UNCHANGED <<buf, rx_fifo>>
  /\ UNCHANGED <<rx_mode, rx_isr, timer, rx_enabled, line, overrun, rx_copy, delivered, reported,
                 clobbered>>

read_fifo ==
  /\ rx_handler = "read" /\ Len(buf) >= unchecked
  /\ IF more THEN pop /\ UNCHANGED rx_handler
     ELSE rx_handler' = "finish" /\ UNCHANGED <<buf, rx_fifo>>
  /\ UNCHANGED <<rx_mode, rx_isr, timer, rx_enabled, line, overrun, rx_copy, delivered, reported,
                 clobbered>>

finish ==
  /\ rx_handler = "finish"
  /\ reported' = (reported \/ "rx_over" \in rx_copy)
  /\ timer' = IF "rx_timeout" \in rx_copy /\ rx_mode.reset_rx_timeout /\ rx_mode.rto
              THEN "running" ELSE timer
  /\ rx_handler' = "clear"
  /\ UNCHANGED <<rx_mode, rx_fifo, rx_isr, rx_enabled, line, overrun, rx_copy, buf, delivered,
                 clobbered>>

clear_interrupts ==
  /\ rx_handler = "clear"
  /\ rx_isr' = {}
  /\ delivered' = delivered \o buf /\ rx_handler' = "none"
  /\ UNCHANGED <<rx_mode, rx_fifo, timer, rx_enabled, line, overrun, rx_copy, buf, reported,
                 clobbered>>

(* A blocking read takes what there is, up to its buffer, once there is    *)
(* something.                                                              *)
read_blocking ==
  /\ rx_mode.by = "blocking" /\ rx_fifo # <<>>
  /\ \E n \in 1 .. Len(rx_fifo) :
        /\ delivered' = delivered \o SubSeq(rx_fifo, 1, n)
        /\ rx_fifo' = SubSeq(rx_fifo, n + 1, Len(rx_fifo))
  /\ UNCHANGED <<rx_mode, rx_isr, timer, rx_enabled, line, overrun, rx_handler, rx_copy, buf,
                 reported, clobbered>>

-----------------------------------------------------------------------------
(* The UART.                                                               *)
arrive ==
  /\ line < MaxBytes
  /\ line' = line + 1
  /\ IF Len(rx_fifo) = RX_DEPTH
     THEN overrun' = overrun \cup {line + 1} /\ rx_isr' = rx_isr \cup {"rx_over"}
          /\ UNCHANGED rx_fifo
     ELSE /\ rx_fifo' = Append(rx_fifo, line + 1) /\ UNCHANGED overrun
          /\ rx_isr' = rx_isr \cup (IF Len(rx_fifo') = RX_DEPTH THEN {"rx_full"} ELSE {})
                              \cup (IF Len(rx_fifo') = RX_TRIGGER THEN {"rx_trg"} ELSE {})
  /\ timer' = IF rx_mode.rto THEN "running" ELSE timer
  /\ UNCHANGED <<rx_mode, rx_enabled, rx_handler, rx_copy, buf, delivered, reported, clobbered>>

expire ==
  /\ timer = "running"
  /\ timer' = "expired" /\ rx_isr' = rx_isr \cup {"rx_timeout"}
  /\ clobbered' = (clobbered \/ rx_handler # "none")
  /\ UNCHANGED <<rx_mode, rx_fifo, rx_enabled, line, overrun, rx_handler, rx_copy, buf, delivered,
                 reported>>

Receiver ==
  \/ start_interrupt_driven_reception \/ enter \/ read_fifo_unchecked \/ read_fifo \/ finish
  \/ clear_interrupts \/ read_blocking

RxNext == Receiver \/ arrive \/ expire
RxSpec == RxInit /\ [][RxNext]_rxVars /\ WF_rxVars(Receiver) /\ WF_rxVars(expire)

-----------------------------------------------------------------------------
(* The bytes handed over, in the buffer and in the FIFO are the bytes that *)
(* arrived, each once and in order, but for those there was no room for;   *)
(* nothing is read from an empty FIFO.                                     *)
InHandler == IF rx_handler = "none" THEN <<>> ELSE buf
Stream == delivered \o InHandler \o rx_fifo
BytesInOrder ==
  /\ \A i, j \in DOMAIN Stream : i < j => Stream[i] < Stream[j]
  /\ {Stream[i] : i \in DOMAIN Stream} = 1 .. line \ overrun

(* With the receive timeout in use no byte stays in the FIFO, unless a     *)
(* timeout expires in a handler.                                            *)
BytesDelivered ==
  (rx_mode.by = "interrupt" => rx_mode.rto) /\ [](~ clobbered) => []<>(rx_fifo = <<>>)
=============================================================================
