----------------------------- MODULE UartTxAsync -----------------------------
(***************************************************************************)
(* The asynchronous UART transmitter (uart/tx_async.rs): a future fills    *)
(* the FIFO and enables the interrupts, the handler refills it until all   *)
(* bytes are there and then waits for the FIFO to run empty.  All          *)
(* software runs on one core: the handler may come between any two steps   *)
(* of the task, and the transmitter goes on between any two steps.         *)
(*                                                                         *)
(* The interrupt status holds events: "empty" is set when the last byte    *)
(* leaves the FIFO, "filled" (near full, full) when a byte fills it up,    *)
(* and an event once cleared comes back only when that happens again.      *)
(* Bytes are counted: the FIFO keeps their order.                          *)
(***************************************************************************)
EXTENDS Integers

CONSTANTS
  FIFO_DEPTH,  \* bytes the FIFO holds
  MaxLen,      \* bound on the length of a write
  Modes        \* circumstances: prompt, that software acts within a character time;
               \* rx, that the handler is also called for receive interrupts of the
               \* same UART; drops, that a future may be dropped before it is ready

ASSUME UartAssumption ==
  /\ FIFO_DEPTH \in Nat \ (0 .. 3) /\ MaxLen \in Nat \ {0}
  /\ Modes \subseteq [prompt : BOOLEAN, rx : BOOLEAN, drops : BOOLEAN]

VARIABLES
  mode,      \* the member of Modes for this behaviour
  fifo,      \* bytes in the FIFO
  shifter,   \* a byte is being shifted out
  written,    \* bytes the constructor of the future has written
  taken,     \* bytes of this write the shifter has taken
  isr,       \* events in the interrupt status
  imr,       \* the transmit interrupts are enabled
  context,   \* TX_CONTEXTS: the length of the slice, 0 for a null slice, and progress
  TX_DONE,
  task,      \* how far the task is
  woken,     \* the task was woken since it last polled
  handler,   \* how far on_interrupt_tx is, "none" outside
  slack,     \* characters that may still end while this handler runs, when prompt
  left       \* history: events of before the write, and "empty" of the first fill,
             \* that the handler may take for events of its own

hwVars == <<fifo, shifter, written, taken>>
vars == <<mode, fifo, shifter, written, taken, isr, imr, context, TX_DONE, task, woken, handler,
          slack, left>>

smaller(a, b) == IF a < b THEN a ELSE b
Event == {"empty", "filled"}
filled_by(n) == IF n >= FIFO_DEPTH - 1 THEN {"filled"} ELSE {}
irq == imr /\ isr # {}

(* Blocking writes before TxAsync::new leave their events behind, and a    *)
(* character in the shifter; what is left of theirs in the FIFO makes no   *)
(* difference, as the first write discards it.                             *)
Init ==
  /\ mode \in Modes
  /\ fifo = 0 /\ shifter \in BOOLEAN /\ written = 0 /\ taken = 0
  /\ isr \in SUBSET Event /\ imr = FALSE
  /\ context = [slice |-> 0, progress |-> 0] /\ TX_DONE = FALSE
  /\ task = "idle" /\ woken = FALSE
  /\ handler = "none" /\ slack = 0 /\ left = {}

-----------------------------------------------------------------------------
(* The task, which does not run while the handler does.                    *)

(* Tx::enable with a reset: bytes in the FIFO are discarded, the byte in   *)
(* the shifter may be, and losing bytes may count as running empty.        *)
keep_bytes == UNCHANGED <<fifo, shifter, isr>>
soft_reset ==
  /\ fifo' = 0
  /\ shifter' \in {FALSE, shifter}
  /\ isr' \in {isr, IF fifo > 0 THEN isr \cup {"empty"} ELSE isr}

new(len) ==
  /\ task = "idle" /\ handler = "none"
  /\ TX_DONE' = FALSE
  /\ imr' = FALSE
  /\ context' = [slice |-> len, progress |-> smaller(len, FIFO_DEPTH)]
  /\ soft_reset
  /\ written' = 0 /\ taken' = 0
  /\ task' = "fill" /\ left' = isr'
  /\ UNCHANGED <<mode, woken, handler, slack>>

fill_fifo ==
  /\ task = "fill" /\ written < context.progress
  /\ written' = written + 1
  /\ fifo' = fifo + 1
  /\ isr' = isr \cup filled_by(fifo + 1)
  /\ UNCHANGED <<mode, shifter, taken, imr, context, TX_DONE, task, woken, handler, slack, left>>

enable_interrupts ==
  /\ task = "fill" /\ written = context.progress
  /\ imr' = TRUE /\ left' = left \cup (isr \cap {"empty"})
  /\ task' = "register"
  /\ UNCHANGED <<mode, hwVars, isr, context, TX_DONE, woken, handler, slack>>

(* poll: the waker is registered before TX_DONE is looked at.              *)
poll_register ==
  /\ task = "register" /\ handler = "none"
  /\ woken' = FALSE
  /\ task' = "check"
  /\ UNCHANGED <<mode, hwVars, isr, imr, context, TX_DONE, handler, slack, left>>

poll_check ==
  /\ task = "check" /\ handler = "none" /\ ~ TX_DONE
  /\ task' = "pending"
  /\ UNCHANGED <<mode, hwVars, isr, imr, context, TX_DONE, woken, handler, slack, left>>

irq_left_enabled == imr' = imr
irq_off == imr' = FALSE

(* The finished future is dropped after it has returned.                   *)
poll_ready ==
  /\ task = "check" /\ handler = "none" /\ TX_DONE
  /\ TX_DONE' = FALSE
  /\ context' = [context EXCEPT !.slice = 0]
  /\ irq_off
  /\ task' = "idle"
  /\ UNCHANGED <<mode, hwVars, isr, woken, handler, slack, left>>

(* The executor polls a task again when it was woken.                      *)
repoll ==
  /\ task = "pending" /\ woken /\ handler = "none"
  /\ task' = "register"
  /\ UNCHANGED <<mode, hwVars, isr, imr, context, TX_DONE, woken, handler, slack, left>>

(* A future is dropped early: the context keeps the slice that is gone.    *)
drop ==
  /\ mode.drops /\ task = "pending" /\ handler = "none"
  /\ irq_off
  /\ task' = "idle"
  /\ UNCHANGED <<mode, hwVars, isr, context, TX_DONE, woken, handler, slack, left>>

-----------------------------------------------------------------------------
transfer_done_past_end == context.progress > context.slice /\ "empty" \in isr
transfer_done == context.progress >= context.slice /\ "empty" \in isr

(* on_interrupt_tx.  A null slice or masked interrupts make it return.     *)
on_interrupt_tx ==
  /\ handler = "none" /\ imr /\ (mode.rx \/ isr # {})
  /\ context.slice # 0
  /\ handler' = IF transfer_done THEN "finish" ELSE "refill"
  /\ slack' = IF "empty" \in isr \ left THEN 0 ELSE 1
  /\ UNCHANGED <<mode, hwVars, isr, imr, context, TX_DONE, task, woken, left>>

finish ==
  /\ handler = "finish"
  /\ TX_DONE' = TRUE
  /\ imr' = FALSE /\ isr' = {}
  /\ woken' = TRUE
  /\ handler' = "none"
  /\ UNCHANGED <<mode, hwVars, context, task, slack, left>>

room == fifo < FIFO_DEPTH

refill ==
  /\ handler = "refill" /\ context.progress < context.slice /\ room
  /\ fifo' = fifo + 1
  /\ isr' = isr \cup filled_by(fifo + 1)
  /\ context' = [context EXCEPT !.progress = @ + 1]
  /\ UNCHANGED <<mode, shifter, written, taken, imr, TX_DONE, task, woken, handler, slack, left>>

(* The loop is left for the clearing of all events, new ones included.     *)
refill_stops == context.progress = context.slice \/ ~ room

clear_interrupts ==
  /\ handler = "refill" /\ refill_stops
  /\ isr' = {} /\ left' = left \ {"empty"}
  /\ handler' = "none"
  /\ UNCHANGED <<mode, hwVars, imr, context, TX_DONE, task, woken, slack>>

-----------------------------------------------------------------------------
(* The transmitter.  When software is prompt, the first fill is over       *)
(* before the shifter needs its second byte, and an interrupt served       *)
(* before it needs its next; a handler called for anything but the FIFO    *)
(* that just ran empty may see one character end.                          *)
take_byte ==
  /\ fifo > 0 /\ ~ shifter
  /\ mode.prompt => /\ task = "fill" => taken = 0
                    /\ IF handler = "none" THEN ~ irq ELSE slack > 0
  /\ fifo' = fifo - 1 /\ shifter' = TRUE /\ taken' = taken + 1
  /\ isr' = IF fifo = 1 THEN isr \cup {"empty"} ELSE isr
  /\ slack' = IF slack > 0 THEN slack - 1 ELSE 0
  /\ UNCHANGED <<mode, written, imr, context, TX_DONE, task, woken, handler, left>>

shift_out ==
  /\ shifter /\ shifter' = FALSE
  /\ UNCHANGED <<mode, fifo, written, taken, isr, imr, context, TX_DONE, task, woken, handler, slack, left>>

write == \E len \in 1 .. MaxLen : new(len)
Task == fill_fifo \/ enable_interrupts \/ poll_register \/ poll_check \/ poll_ready \/ repoll
Handler == on_interrupt_tx \/ finish \/ refill \/ clear_interrupts

Next == write \/ Task \/ drop \/ Handler \/ take_byte \/ shift_out

(* The executor runs a ready task, the core takes an enabled interrupt,    *)
(* and the transmitter goes on.                                            *)
Spec == /\ Init /\ [][Next]_vars
        /\ WF_vars(Task) /\ WF_vars(Handler) /\ WF_vars(take_byte) /\ WF_vars(shift_out)

-----------------------------------------------------------------------------
(* Types; write_fifo_unchecked never meets a full FIFO.                    *)
TypeOK ==
  /\ mode \in Modes
  /\ fifo \in 0 .. FIFO_DEPTH /\ shifter \in BOOLEAN /\ written \in 0 .. FIFO_DEPTH /\ taken \in 0 .. MaxLen
  /\ isr \subseteq Event /\ imr \in BOOLEAN
  /\ context \in [slice : 0 .. MaxLen, progress : 0 .. MaxLen]
  /\ TX_DONE \in BOOLEAN
  /\ task \in {"idle", "fill", "register", "check", "pending"}
  /\ woken \in BOOLEAN
  /\ handler \in {"none", "finish", "refill"} /\ slack \in 0 .. 1 /\ left \subseteq Event

Alive == task \in {"register", "check", "pending"}

(* The handler reads the slice only while the future that lent it exists,  *)
(* although a dropped future leaves its slice in the context.              *)
SliceAlive == handler # "none" => Alive

(* What is in the FIFO is the unsent rest of this write's first progress   *)
(* bytes: no byte of an earlier write that was dropped, none twice.        *)
BytesOfThisWrite == Alive => fifo + taken = context.progress

(* A write is reported done when every byte was put into the FIFO; and,    *)
(* unless an "empty" was there already when the interrupts were enabled,   *)
(* when the FIFO has run empty, so that the reset of the next write        *)
(* discards nothing of it.  With such an event, of a blocking write before *)
(* it say, a write is done at once: nothing clears it (tx_async.rs:126).   *)
DoneWhenSent ==
  TX_DONE /\ Alive => /\ context.progress = context.slice
                      /\ "empty" \notin left => fifo = 0

(* A write ends: no event that the handler waits for is cleared unseen, as *)
(* long as software is prompt, receive interrupts do not call the handler, *)
(* and no old event of a filled FIFO calls it at once: the bytes of a      *)
(* short write may go while that call runs, which then clears "empty".     *)
WriteEnds ==
  mode.prompt /\ ~ mode.rx => (task # "idle" /\ "filled" \notin left ~> task = "idle")

(* Both: a write ends, and not before it is done.                          *)
WriteCompletes == []DoneWhenSent /\ WriteEnds
=============================================================================
