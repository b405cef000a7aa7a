------------------------------ MODULE SpiAsync ------------------------------
(***************************************************************************)
(* The asynchronous SPI driver (spi/asynch.rs): a future that fills the    *)
(* transmit FIFO and arms the interrupts, the interrupt handler that       *)
(* empties and refills the FIFOs, and the task that polls the future, is   *)
(* woken, or drops it half way.  All runs on one core: the handler may     *)
(* come between any two steps of the task, and the controller moves words  *)
(* between any two steps of either.                                        *)
(*                                                                         *)
(* As in SpiBlocking words are counted.  The answer that the handler reads *)
(* as its n-th word is the answer to the n-th word of the transfer as long *)
(* as the counts agree (WordsAccountedFor), so of the read slice only the  *)
(* indices that were stored are kept.  An index past the end of the slice  *)
(* is a panic, in the handler: nothing else runs then but the controller.  *)
(***************************************************************************)
EXTENDS Integers

CONSTANTS
  FIFO_DEPTH,  \* words each FIFO holds
  MaxLen,      \* bound on the length of a transfer
  Modes        \* ways to use the driver: max_len, the longest transfer; prompt, that a full
               \* receive FIFO is served before the next word has been shifted;
               \* equal, that both slices of a transfer have the same length

ASSUME SpiAsyncAssumption ==
  /\ FIFO_DEPTH \in Nat \ {0} /\ MaxLen \in Nat \ {0}
  /\ Modes \subseteq [max_len : 1 .. MaxLen, prompt : BOOLEAN, equal : BOOLEAN]

VARIABLES
  mode,         \* the member of Modes for this behaviour
  tx, rx,       \* words in the transmit and in the receive FIFO
  rx_ovr,       \* the overflow bit of the interrupt status
  enabled,      \* the controller is enabled
  imr,          \* the interrupts are enabled
  rx_trig, tx_trig,  \* the thresholds of the FIFOs
  context,      \* TRANSFER_CONTEXTS: type, lengths of the slices and progress
  done,         \* DONE
  task,         \* how far the task is
  woken,        \* the task was woken since it last polled
  fill,         \* words the constructor of the future has written
  isr,          \* how far the interrupt handler is, "none" outside
  snapshot,     \* its copy of the interrupt status
  stored,       \* indices of the read slice written in this transfer
  lost          \* the controller dropped a word in this transfer

hwVars == <<mode, tx, rx, rx_ovr, enabled, imr, rx_trig, tx_trig>>
isrVars == <<isr, snapshot>>
taskVars == <<task, woken, fill>>
vars == <<mode, tx, rx, rx_ovr, enabled, imr, rx_trig, tx_trig, context, done,
          task, woken, fill, isr, snapshot, stored, lost>>

Type == {"Read", "Write", "Transfer", "TransferInPlace"}
smaller(a, b) == IF a < b THEN a ELSE b
larger(a, b) == IF a > b THEN a ELSE b

no_context == [type |-> "none", read_len |-> 0, write_len |-> 0,
               tx_progress |-> 0, rx_progress |-> 0]
transfer_len(c) == larger(c.read_len, c.write_len)

(* The words of the first fill: read() sends dummies for all its words.    *)
write_idx(c) == smaller(FIFO_DEPTH, IF c.type = "Read" THEN c.read_len ELSE c.write_len)

interrupt_status ==
  [rx_not_empty |-> rx >= rx_trig, rx_full |-> rx = FIFO_DEPTH, tx_full |-> tx = FIFO_DEPTH]

irq == imr /\ (rx >= rx_trig \/ rx = FIFO_DEPTH \/ rx_ovr \/ tx < tx_trig)

Init ==
  /\ mode \in Modes
  /\ tx = 0 /\ rx = 0 /\ rx_ovr = FALSE /\ enabled = TRUE /\ imr = FALSE
  /\ rx_trig = 1 /\ tx_trig = 1
  /\ context = no_context /\ done = FALSE
  /\ task = "idle" /\ woken = FALSE /\ fill = 0
  /\ isr = "none" /\ snapshot = [rx_not_empty |-> FALSE, rx_full |-> FALSE, tx_full |-> FALSE]
  /\ stored = {} /\ lost = FALSE

-----------------------------------------------------------------------------
(* The task.  It does not run while the handler does.                      *)

(* A new future: DONE is cleared, the interrupts and, but for a read, the  *)
(* controller are disabled; the slices are put into the context when the   *)
(* interrupts are armed, and no handler runs before.                       *)
new(type, read_len, write_len) ==
  /\ task = "idle" /\ isr = "none"
  /\ done' = FALSE
  /\ imr' = FALSE
  /\ enabled' = (enabled /\ type = "Read")
  /\ context' = [type |-> type, read_len |-> read_len, write_len |-> write_len,
                 tx_progress |-> 0, rx_progress |-> 0]
  /\ task' = "fill" /\ fill' = 0
  /\ stored' = {} /\ lost' = FALSE
  /\ UNCHANGED <<mode, tx, rx, rx_ovr, rx_trig, tx_trig, woken, isrVars>>

fill_fifo ==
  /\ task = "fill" /\ fill < write_idx(context)
  /\ tx' = tx + 1
  /\ fill' = fill + 1
  /\ UNCHANGED <<mode, rx, rx_ovr, enabled, imr, rx_trig, tx_trig, context, done,
                 task, woken, isrVars, stored, lost>>

arm ==
  /\ task = "fill" /\ fill = write_idx(context)
  /\ rx_trig' = fill
  /\ tx_trig' = IF (IF context.type = "Read" THEN context.read_len ELSE context.write_len)
                     > FIFO_DEPTH THEN 2 ELSE tx_trig
  /\ context' = [context EXCEPT !.tx_progress = fill]
  /\ rx_ovr' = FALSE /\ imr' = TRUE /\ enabled' = TRUE
  /\ task' = "register"
  /\ UNCHANGED <<mode, tx, rx, done, woken, fill, isrVars, stored, lost>>

(* poll: the waker is registered before DONE is looked at.                 *)
poll_register ==
  /\ task = "register" /\ isr = "none"
  /\ woken' = FALSE
  /\ task' = "check"
  /\ UNCHANGED <<hwVars, context, done, fill, isrVars, stored, lost>>

poll_check ==
  /\ task = "check" /\ isr = "none"
  /\ \/ done /\ task' = "idle" /\ done' = FALSE /\ context' = no_context
     \/ ~ done /\ task' = "pending" /\ UNCHANGED <<done, context>>
  /\ UNCHANGED <<hwVars, woken, fill, isrVars, stored, lost>>

(* The executor polls a task again when it was woken.                      *)
repoll ==
  /\ task = "pending" /\ woken /\ isr = "none"
  /\ task' = "register"
  /\ UNCHANGED <<hwVars, context, done, woken, fill, isrVars, stored, lost>>

reset_and_reconfigure ==
  /\ tx' = 0 /\ rx' = 0 /\ rx_ovr' = FALSE
  /\ enabled' = TRUE /\ imr' = FALSE
  /\ rx_trig' = 1 /\ tx_trig' = 1

no_reset == UNCHANGED <<tx, rx, rx_ovr, enabled, imr, rx_trig, tx_trig>>
reset_on_drop == reset_and_reconfigure

(* The future is dropped before it is ready: its slices are gone.          *)
drop ==
  /\ task = "pending" /\ isr = "none"
  /\ reset_on_drop
  /\ task' = "idle"
  /\ UNCHANGED <<mode, context, done, woken, fill, isrVars, stored, lost>>

-----------------------------------------------------------------------------
(* on_interrupt.  It finds a transfer active: the interrupts are enabled   *)
(* only while one is.                                                      *)

on_interrupt ==
  /\ isr = "none" /\ irq
  /\ imr' = FALSE
  /\ snapshot' = interrupt_status
  /\ rx_ovr' = FALSE
  /\ isr' = "read"
  /\ UNCHANGED <<mode, tx, rx, enabled, rx_trig, tx_trig, context, done, taskVars, stored, lost>>

calculate_read_len ==
  LET left == transfer_len(context) - context.rx_progress
  IN  IF snapshot.rx_full THEN smaller(FIFO_DEPTH, left)
      ELSE IF snapshot.rx_not_empty THEN smaller(left, rx_trig) ELSE 0

(* The indices of the read slice the batch of n words is to be stored at.  *)
(* For a transfer the name read_len is bound again to n before the         *)
(* progress is compared with it: the length of the read slice is not.      *)
kept(n) ==
  LET at == context.rx_progress .. context.rx_progress + n - 1
  IN  CASE context.type \in {"Read", "TransferInPlace"} -> at
        [] context.type = "Transfer" -> {i \in at : i < n}
        [] context.type = "Write" -> {}

(* The first of these indices that may be past the end of the slice.       *)
past_end == larger(context.rx_progress, context.read_len)
out_of_bounds(n) == context.type = "Transfer" /\ past_end < n

isr_read ==
  /\ isr = "read"
  /\ LET n == calculate_read_len
     IN  /\ ~ out_of_bounds(n)
         /\ rx' = rx - n
         /\ context' = [context EXCEPT !.rx_progress = @ + n]
         /\ stored' = stored \cup kept(n)
  /\ isr' = "pump"
  /\ UNCHANGED <<mode, tx, rx_ovr, enabled, imr, rx_trig, tx_trig, done, taskVars, snapshot, lost>>

(* The bounds check of the slice fails once the word is read from the      *)
(* FIFO.  The handler works on a copy of the context.                      *)
isr_panic ==
  /\ isr = "read"
  /\ out_of_bounds(calculate_read_len)
  /\ rx' = rx - (past_end - context.rx_progress + 1)
  /\ stored' = stored \cup (context.rx_progress .. past_end - 1)
  /\ isr' = "panicked"
  /\ UNCHANGED <<mode, tx, rx_ovr, enabled, imr, rx_trig, tx_trig, context, done, taskVars,
                 snapshot, lost>>

(* The panic handler of the programs loops.                                *)
panic_loop == isr = "panicked" /\ UNCHANGED vars

pumping == context.tx_progress < transfer_len(context) /\ ~ snapshot.tx_full

isr_pump ==
  /\ isr = "pump" /\ pumping
  /\ tx' = tx + 1
  /\ context' = [context EXCEPT !.tx_progress = @ + 1]
  /\ snapshot' = [interrupt_status EXCEPT !.tx_full = tx + 1 = FIFO_DEPTH]
  /\ UNCHANGED <<mode, rx, rx_ovr, enabled, imr, rx_trig, tx_trig, done, taskVars, isr, stored, lost>>

(* The threshold for the words that remain.                                *)
new_trig_of_depth == FIFO_DEPTH
new_trig_level == smaller(FIFO_DEPTH, transfer_len(context) - context.rx_progress)

finished == context.rx_progress = context.tx_progress /\ context.rx_progress = transfer_len(context)

finish_transfer ==
  /\ isr = "pump" /\ ~ pumping /\ finished
  /\ rx_trig' = 1 /\ tx_trig' = 1
  /\ done' = TRUE /\ woken' = TRUE
  /\ isr' = "none"
  /\ UNCHANGED <<mode, tx, rx, rx_ovr, enabled, imr, context, task, fill, snapshot, stored, lost>>

unfinished_transfer ==
  /\ isr = "pump" /\ ~ pumping /\ ~ finished
  /\ rx_trig' = new_trig_level
  /\ imr' = TRUE
  /\ isr' = "none"
  /\ UNCHANGED <<mode, tx, rx, rx_ovr, enabled, tx_trig, context, done, taskVars, snapshot,
                 stored, lost>>

-----------------------------------------------------------------------------
(* The controller.                                                         *)
spi_word ==
  /\ enabled /\ tx > 0
  /\ mode.prompt => rx < FIFO_DEPTH
  /\ tx' = tx - 1
  /\ \/ rx < FIFO_DEPTH /\ rx' = rx + 1 /\ UNCHANGED <<rx_ovr, lost>>
     \/ rx = FIFO_DEPTH /\ rx' = rx /\ rx_ovr' = TRUE /\ lost' = TRUE
  /\ UNCHANGED <<mode, enabled, imr, rx_trig, tx_trig, context, done, taskVars, isrVars, stored>>

New ==
  \E len \in 1 .. mode.max_len :
    \/ new("Read", len, 0) \/ new("Write", 0, len) \/ new("TransferInPlace", len, len)
    \/ \E read_len \in 1 .. len :
         \/ (mode.equal => read_len = len) /\ new("Transfer", read_len, len)
         \/ ~ mode.equal /\ new("Transfer", len, read_len)

Task == fill_fifo \/ arm \/ poll_register \/ poll_check \/ repoll
Handler ==
  \/ on_interrupt \/ isr_read \/ isr_panic \/ isr_pump \/ finish_transfer
  \/ unfinished_transfer

Next == New \/ Task \/ drop \/ Handler \/ panic_loop \/ spi_word

(* The executor runs a task that is ready, the core takes an interrupt     *)
(* that is enabled, and the controller shifts on.                          *)
Spec == Init /\ [][Next]_vars /\ WF_vars(Task) /\ WF_vars(Handler) /\ WF_vars(spi_word)

-----------------------------------------------------------------------------
Context == [type : Type \cup {"none"}, read_len : 0 .. MaxLen, write_len : 0 .. MaxLen,
            tx_progress : 0 .. MaxLen, rx_progress : 0 .. MaxLen]

TypeOK ==
  /\ mode \in Modes
  /\ tx \in 0 .. FIFO_DEPTH /\ rx \in 0 .. FIFO_DEPTH
  /\ rx_ovr \in BOOLEAN /\ enabled \in BOOLEAN /\ imr \in BOOLEAN
  /\ rx_trig \in 1 .. FIFO_DEPTH /\ tx_trig \in 1 .. 2
  /\ context \in Context /\ done \in BOOLEAN
  /\ task \in {"idle", "fill", "register", "check", "pending"}
  /\ woken \in BOOLEAN /\ fill \in 0 .. FIFO_DEPTH
  /\ isr \in {"none", "read", "pump", "panicked"}
  /\ snapshot \in [rx_not_empty : BOOLEAN, rx_full : BOOLEAN, tx_full : BOOLEAN]
  /\ stored \subseteq 0 .. MaxLen /\ lost \in BOOLEAN

(* The words on their way are those the transfer has written and not read: *)
(* a transfer never reads an answer left by one that was dropped or        *)
(* completed before, and never stores over a word it has still to send.    *)
WordsAccountedFor ==
  task \in {"register", "check", "pending"} /\ ~ lost /\ isr # "panicked"
    => context.tx_progress - context.rx_progress = tx + rx

(* The future is ready only when the whole read slice is stored: of reads, *)
(* writes and transfers in place, and of a transfer whose slices are of    *)
(* one length that fits the FIFO.  Other transfers store less              *)
(* (TransfersStoreAll).                                                    *)
fits_fifo(c) == c.read_len = c.write_len /\ c.read_len <= FIFO_DEPTH
StoredAll(c) == stored = 0 .. (IF c.type = "Write" THEN 0 ELSE c.read_len) - 1
ReadyWhenStored ==
  done /\ ~ lost => StoredAll(context) \/ (context.type = "Transfer" /\ ~ fits_fifo(context))

(* The handler panics only in a transfer whose read slice is the shorter.  *)
PanicsIfShort ==
  isr = "panicked" => context.type = "Transfer" /\ context.read_len < context.write_len

(* Every transfer stores its whole read slice: the driver "implements the  *)
(* [embedded_hal_async::spi::SpiBus] as well" (asynch.rs:454), which takes *)
(* slices of any two lengths.  The code does not: with slices of one       *)
(* length it loses the later batches, and with a read slice shorter than   *)
(* the batch the handler panics (PanicsIfShort).                           *)
TransfersStoreAll == done /\ ~ lost => StoredAll(context)

(* The handler touches the slices only while the future that lent them     *)
(* exists.                                                                 *)
SlicesAlive == isr \in {"read", "pump"} => task \in {"register", "check", "pending"}

(* A transfer ends, if no word is lost, or the handler panics: no          *)
(* threshold out of reach, no interrupt left disabled, no wake-up missed.  *)
TransferEnds ==
  mode.prompt \/ mode.max_len <= FIFO_DEPTH
    => (task # "idle" ~> task = "idle" \/ isr = "panicked")

(* All three: a transfer ends, and not before its slice is stored, but for *)
(* a panic over a shorter read slice.                                      *)
TransferCompletes == [](ReadyWhenStored /\ PanicsIfShort) /\ TransferEnds
=============================================================================
