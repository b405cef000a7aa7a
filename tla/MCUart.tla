------------------------------- MODULE MCUart -------------------------------
(* The UART: asynchronous transmitter, receiver, baud rate, and the logger *)
(* that writes to one.  One of them runs in a behaviour while the others   *)
(* stay as they are initially.                                             *)
EXTENDS UartTxAsync

CONSTANTS
  RX_DEPTH, RX_TRIGGER, MaxBytes,             \* receiver
  RING, FRAMES, BUF, MaxMsgLen, MaxMsgs,      \* logger
  Ratios                                      \* baud rate

VARIABLES
  subject,   \* what runs: "tx", "rx", "log" or "config"
  rx_mode, rx_fifo, rx_isr, timer, rx_enabled, line, overrun, rx_handler, rx_copy, buf, delivered,
  reported, clobbered,
  ring_buf, frame_queue, log_buf, frame_len, reader, lens, cut, sent,
  ratio, bdiv, best_clk_config, smallest_error, setup, divisors, enabled

Receiver == INSTANCE UartRx
Log == INSTANCE LogRing WITH MaxLen <- MaxMsgLen
Config == INSTANCE UartConfig

ASSUME MCUartAssumption == Receiver!UartRxAssumption /\ Log!LogAssumption

receiverVars == <<rx_mode, rx_fifo, rx_isr, timer, rx_enabled, line, overrun, rx_handler, rx_copy,
                  buf, delivered, reported, clobbered>>
logVars == <<ring_buf, frame_queue, log_buf, frame_len, reader, lens, cut, sent>>
configVars == <<ratio, bdiv, best_clk_config, smallest_error, setup, divisors, enabled>>
mcVars == <<subject, vars, receiverVars, logVars, configVars>>

Tx(A) == subject = "tx" /\ A /\ UNCHANGED <<subject, receiverVars, logVars, configVars>>
Rx(A) == subject = "rx" /\ A /\ UNCHANGED <<subject, vars, logVars, configVars>>
L(A) == subject = "log" /\ A /\ UNCHANGED <<subject, vars, receiverVars, configVars>>
C(A) == subject = "config" /\ A /\ UNCHANGED <<subject, vars, receiverVars, logVars>>

MCInit ==
  /\ subject \in {"tx", "rx", "log", "config"}
  /\ Init /\ Receiver!RxInit /\ Log!Init /\ Config!UartConfigInit
  /\ subject # "tx" => /\ mode = [prompt |-> TRUE, rx |-> FALSE, drops |-> FALSE]
                       /\ isr = {} /\ shifter = FALSE
  /\ subject # "rx" => rx_mode = [by |-> "interrupt", reset_rx_timeout |-> FALSE, rto |-> FALSE]
  /\ subject # "config" => ratio = CHOOSE r \in Ratios : TRUE

MCNext == Tx(Next) \/ Rx(Receiver!RxNext) \/ L(Log!Next) \/ C(Config!UartConfigNext)

(* The fairness of the parts that have some.  Only one part runs, so one   *)
(* condition can stand for one of each.                                    *)
MCSpec ==
  /\ MCInit /\ [][MCNext]_mcVars
  /\ WF_mcVars(Tx(Task) \/ Rx(Receiver!Receiver) \/ L(Log!Reader))
  /\ WF_mcVars(Tx(Handler) \/ Rx(Receiver!expire))
  /\ WF_mcVars(Tx(take_byte)) /\ WF_mcVars(Tx(shift_out))

-----------------------------------------------------------------------------
AllModes == [prompt : BOOLEAN, rx : BOOLEAN, drops : BOOLEAN]

(* 100 MHz over 1200 baud, 50 MHz over 115200 and 9600 baud, rates too     *)
(* high for small divisors and for any, and 13.11599 MHz over 4800 baud,   *)
(* for which a divisor that rounding does not take would be nearer.        *)
MCRatios == {<<250000, 3>>, <<15625, 36>>, <<15625, 3>>, <<1599, 100>>, <<625, 624>>, <<1311599, 480>>}

-----------------------------------------------------------------------------
(* What the modules state, of the part that runs.                          *)

(* The bytes received are the bytes that arrived, in order.                *)
BytesInOrder == Receiver!BytesInOrder
(* No byte stays in the FIFO of a receiver with a timeout.                 *)
BytesDelivered == subject = "rx" => Receiver!BytesDelivered
(* The messages logged are written, whole and in order.                    *)
MessagesWritten == Log!MessagesWritten
(* The baud rate is near the one asked for.                                *)
NearRate == Config!NearRate
=============================================================================
