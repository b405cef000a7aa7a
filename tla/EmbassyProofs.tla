---------------------------- MODULE EmbassyProofs ----------------------------
(***************************************************************************)
(* Proofs about what the tasks of an Embassy executor wait for.            *)
(*                                                                         *)
(* The asynchronous SPI driver, for every depth of the FIFOs, length of    *)
(* transfer and way of use.  The heart of it is a count.  Of the words a   *)
(* transfer has written, those it has not read are in the FIFOs, or fewer  *)
(* are there because the controller dropped some; then the transfer never  *)
(* finishes, and the future can only be dropped, which resets the          *)
(* controller.  So every transfer begins with empty FIFOs.                 *)
(*                                                                         *)
(* The time driver, for every number of tasks, width of the halves of the  *)
(* counter and scale of its ticks, as MCEmbassy instantiates it.  The      *)
(* counter is read in two halves while it counts.  The value that          *)
(* read_timer returns may be old, also when it took the lower half twice,  *)
(* but it is never ahead of the counter; so nothing expires too early.     *)
(***************************************************************************)
EXTENDS MCEmbassy, TLAPS, WellFoundedInduction

-----------------------------------------------------------------------------
(* The asynchronous SPI driver.                                            *)

Active == task \in {"register", "check", "pending"}

Flags ==
  /\ rx_ovr \in BOOLEAN /\ enabled \in BOOLEAN /\ imr \in BOOLEAN
  /\ done \in BOOLEAN /\ woken \in BOOLEAN /\ lost \in BOOLEAN
  /\ snapshot \in [rx_not_empty : BOOLEAN, rx_full : BOOLEAN, tx_full : BOOLEAN]

(* The rest of TypeOK: the provers treat Booleans apart from numbers.      *)
Ranges ==
  /\ mode \in Modes
  /\ tx \in 0 .. FIFO_DEPTH /\ rx \in 0 .. FIFO_DEPTH
  /\ rx_trig \in 1 .. FIFO_DEPTH /\ tx_trig \in 1 .. 2
  /\ context \in Context
  /\ task \in {"idle", "fill", "register", "check", "pending"}
  /\ fill \in 0 .. FIFO_DEPTH
  /\ isr \in {"none", "read", "pump", "panicked"}
  /\ stored \subseteq 0 .. MaxLen

(* The interrupts are masked, and no handler runs, unless a transfer is    *)
(* armed and not finished.                                                 *)
Masked ==
  /\ imr => Active /\ isr = "none" /\ ~ done
  /\ isr # "none" => Active /\ ~ done
  /\ task = "fill" => ~ done

(* What the lengths of a transfer are.                                     *)
Sized ==
  task # "idle" =>
    /\ context.type \in Type
    /\ context.type = "Read" => context.read_len >= 1 /\ context.write_len = 0
    /\ context.type = "Write" => context.write_len >= 1 /\ context.read_len = 0
    /\ context.type \in {"Transfer", "TransferInPlace"}
         => context.write_len >= 1 /\ context.read_len >= 1
    /\ context.type = "TransferInPlace" => context.read_len = context.write_len

Counts ==
  /\ task = "idle" => tx + rx = 0
  /\ task = "fill" => /\ tx + rx = fill /\ fill <= write_idx(context) /\ ~ lost
                      /\ context.tx_progress = 0 /\ context.rx_progress = 0
  /\ Active => /\ context.rx_progress <= context.tx_progress
               /\ context.tx_progress <= transfer_len(context)
               /\ isr # "panicked" =>
                  IF lost THEN tx + rx < context.tx_progress - context.rx_progress
                          ELSE tx + rx = context.tx_progress - context.rx_progress
  /\ Active /\ done => finished

(* What the copied status still says when the handler acts on it.          *)
Copied ==
  /\ isr = "read" => /\ snapshot.rx_full => rx = FIFO_DEPTH
                     /\ snapshot.rx_not_empty => rx >= rx_trig
  /\ isr # "none" /\ ~ snapshot.tx_full => tx < FIFO_DEPTH

(* The handler has stored a prefix of the read slice: batch after batch,   *)
(* or, for a transfer that fits the FIFO, all in one batch.                *)
whole_batch ==
  context.type = "Transfer" /\ context.read_len = context.write_len /\ context.read_len <= FIFO_DEPTH
Prefix ==
  task # "idle" \/ done =>
    /\ context.type = "Write" => stored = {}
    /\ context.type \in {"Read", "TransferInPlace"} \/ whole_batch
         => stored = 0 .. context.rx_progress - 1
    /\ done => /\ context.rx_progress = transfer_len(context)
               /\ context.type \in {"Read", "TransferInPlace"} \/ whole_batch
                    => transfer_len(context) = context.read_len
               /\ context.type \in Type
WholeBatch ==
  Active /\ whole_batch => \/ context.rx_progress = context.read_len
                           \/ context.rx_progress = 0 /\ rx_trig = context.read_len

Inv == Flags /\ Ranges /\ Masked /\ Sized /\ Counts /\ Copied /\ Prefix /\ WholeBatch

-----------------------------------------------------------------------------
LEMMA InitInv == Init => Inv
<1> SUFFICES ASSUME Init PROVE Inv
  OBVIOUS
<1>1. Flags
  BY DEF Init, Flags
<1>2. Ranges /\ Counts
  BY SpiAsyncAssumption DEF Init, Ranges, Counts, Active, Context, no_context, Type
<1>3. Masked /\ Sized /\ Copied /\ Prefix /\ WholeBatch
  BY DEF Init, Masked, Sized, Copied, Prefix, WholeBatch, Active
<1> QED BY <1>1, <1>2, <1>3 DEF Inv

LEMMA NextFlags == Flags /\ [Next]_vars => Flags'
<1> SUFFICES ASSUME Flags, [Next]_vars PROVE Flags'
  OBVIOUS
<1> USE DEF Flags
<1>1. ASSUME NEW t, NEW r, NEW w, new(t, r, w) PROVE Flags'
  BY <1>1 DEF new, isrVars
<1>2. CASE Task
  BY <1>2 DEF Task, fill_fifo, arm, poll_register, poll_check, repoll, hwVars, isrVars
<1>3. CASE drop
  BY <1>3 DEF drop, reset_on_drop, reset_and_reconfigure, isrVars
<1>4. CASE Handler
  <2>1. interrupt_status \in [rx_not_empty : BOOLEAN, rx_full : BOOLEAN, tx_full : BOOLEAN]
    BY DEF interrupt_status
  <2>2. \A b \in BOOLEAN : [interrupt_status EXCEPT !.tx_full = b]
                             \in [rx_not_empty : BOOLEAN, rx_full : BOOLEAN, tx_full : BOOLEAN]
    BY <2>1
  <2>3. CASE on_interrupt
    BY <2>3, <2>1 DEF on_interrupt, taskVars
  <2>4. CASE isr_read
    BY <2>4 DEF isr_read, taskVars
  <2>8. CASE isr_panic
    BY <2>8 DEF isr_panic, taskVars
  <2>5. CASE isr_pump
    <3>1. (tx + 1 = FIFO_DEPTH) \in BOOLEAN
      OBVIOUS
    <3> QED BY <2>5, <2>2, <3>1 DEF isr_pump, taskVars
  <2>6. CASE finish_transfer
    BY <2>6 DEF finish_transfer
  <2>7. CASE unfinished_transfer
    BY <2>7 DEF unfinished_transfer, taskVars
  <2> QED BY <1>4, <2>3, <2>4, <2>5, <2>6, <2>7, <2>8 DEF Handler
<1>5. CASE spi_word
  BY <1>5 DEF spi_word, taskVars, isrVars
<1>6. CASE UNCHANGED vars \/ panic_loop
  BY <1>6 DEF vars, panic_loop
<1> QED BY <1>1, <1>2, <1>3, <1>4, <1>5, <1>6 DEF Next, New

-----------------------------------------------------------------------------
(* The numbers of the transfer in progress.                                *)
LEMMA Numbers ==
  ASSUME Ranges
  PROVE  /\ FIFO_DEPTH \in Nat /\ FIFO_DEPTH >= 1 /\ MaxLen \in Nat
         /\ context.read_len \in 0 .. MaxLen /\ context.write_len \in 0 .. MaxLen
         /\ context.tx_progress \in 0 .. MaxLen /\ context.rx_progress \in 0 .. MaxLen
         /\ transfer_len(context) \in 0 .. MaxLen
         /\ context.read_len <= transfer_len(context)
         /\ context.write_len <= transfer_len(context)
         /\ transfer_len(context) \in {context.read_len, context.write_len}
         /\ write_idx(context) <= FIFO_DEPTH /\ write_idx(context) \in Nat
  BY SpiAsyncAssumption DEF Ranges, Context, transfer_len, larger, write_idx, smaller

(* A transfer that has sent and read all its words has left none behind.   *)
LEMMA NothingLeft ==
  ASSUME Ranges, Counts, Masked, Active, done
  PROVE  tx = 0 /\ rx = 0 /\ ~ lost
  BY Numbers DEF Ranges, Counts, Masked, finished

LEMMA NextNew ==
  ASSUME Inv, NEW type \in Type, NEW r \in 0 .. MaxLen, NEW w \in 0 .. MaxLen, new(type, r, w),
         type = "Read" => r >= 1 /\ w = 0,
         type = "Write" => w >= 1 /\ r = 0,
         type \in {"Transfer", "TransferInPlace"} => w >= 1 /\ r >= 1,
         type = "TransferInPlace" => r = w
  PROVE  Inv'
<1> USE SpiAsyncAssumption DEF Inv, new, isrVars
<1>1. Flags'
  BY DEF Flags
<1>2. /\ context'.type = type /\ context'.read_len = r /\ context'.write_len = w
      /\ context'.tx_progress = 0 /\ context'.rx_progress = 0 /\ context' \in Context
  BY DEF Context
<1>3. Ranges'
  BY <1>2 DEF Ranges
<1>4. Masked' /\ Copied'
  BY DEF Masked, Copied
<1>5. Sized'
  BY <1>2 DEF Sized
<1>6. Counts'
  <2>1. 0 <= write_idx(context')
    BY <1>2 DEF write_idx, smaller
  <2>2. write_idx(context)' = write_idx(context')
    BY DEF write_idx
  <2> QED BY <1>2, <2>1, <2>2 DEF Counts, Active, Ranges
<1>7. Prefix' /\ WholeBatch'
  BY <1>2 DEF Prefix, WholeBatch, Active
<1> QED BY <1>1, <1>3, <1>4, <1>5, <1>6, <1>7

LEMMA NextFill == Inv /\ fill_fifo => Inv'
<1> SUFFICES ASSUME Inv, fill_fifo PROVE Inv'
  OBVIOUS
<1> USE DEF Inv, fill_fifo, isrVars
<1>1. Flags'
  BY DEF Flags
<1>2. Ranges'
  BY Numbers DEF Ranges, Counts
<1>3. Counts'
  BY Numbers DEF Counts, Active, Ranges, write_idx
<1>4. Masked' /\ Sized' /\ Copied'
  BY DEF Masked, Sized, Copied, Active
<1>5. Prefix' /\ WholeBatch'
  BY DEF Prefix, WholeBatch, Active, whole_batch, transfer_len
<1> QED BY <1>1, <1>2, <1>3, <1>4, <1>5

LEMMA NextArm == Inv /\ arm => Inv'
<1> SUFFICES ASSUME Inv, arm PROVE Inv'
  OBVIOUS
<1> USE DEF Inv, arm, isrVars
<1>1. Flags'
  BY DEF Flags
<1>2. /\ context'.type = context.type /\ context'.read_len = context.read_len
      /\ context'.write_len = context.write_len /\ context'.tx_progress = fill
      /\ context'.rx_progress = 0
  BY DEF Ranges, Context, Counts
<1>3. fill >= 1 /\ fill <= transfer_len(context) /\ fill \in 0 .. MaxLen
  BY Numbers DEF Sized, Type, Ranges, write_idx, smaller
<1>4. transfer_len(context') = transfer_len(context)
  BY <1>2 DEF transfer_len
<1>5. Ranges'
  BY <1>2, <1>3, Numbers DEF Ranges, Context
<1>6. Masked' /\ Copied' /\ Sized'
  BY <1>2 DEF Masked, Copied, Sized, Active
<1>7. Counts'
  BY <1>2, <1>3, <1>4, Numbers DEF Counts, Active, Ranges, Masked, transfer_len
<1>8. Prefix'
  BY <1>2 DEF Prefix, Counts, Masked, whole_batch
<1>9. WholeBatch'
  BY <1>2, Numbers DEF WholeBatch, whole_batch, Sized, write_idx, smaller, Ranges
<1> QED BY <1>1, <1>5, <1>6, <1>7, <1>8, <1>9

LEMMA NextPoll == Inv /\ (poll_register \/ poll_check \/ repoll) => Inv'
<1> SUFFICES ASSUME Inv, poll_register \/ poll_check \/ repoll PROVE Inv'
  OBVIOUS
<1> USE DEF Inv, hwVars, isrVars
<1>1. Flags'
  BY DEF Flags, poll_register, poll_check, repoll
<1>2. ASSUME task' # "idle", task # "idle", task' # "fill", Active,
             UNCHANGED <<hwVars, isrVars, context, done, fill, stored, lost>>,
             task' \in {"register", "check", "pending"}
      PROVE  Inv'
  <2>1. Ranges'
    BY <1>2 DEF Ranges
  <2>2. Masked' /\ Sized' /\ Copied'
    BY <1>2 DEF Masked, Sized, Copied, Active
  <2>3. Counts'
    BY <1>2 DEF Counts, Active, transfer_len, finished
  <2>4. Prefix' /\ WholeBatch'
    BY <1>2 DEF Prefix, WholeBatch, Active, whole_batch, transfer_len
  <2> QED BY <1>1, <2>1, <2>2, <2>3, <2>4
<1>3. CASE poll_register \/ repoll
  BY <1>2, <1>3 DEF poll_register, repoll, Active
<1>4. CASE poll_check /\ ~ done
  BY <1>2, <1>4 DEF poll_check, Active
<1>5. CASE poll_check /\ done
  <2>1. tx = 0 /\ rx = 0
    BY <1>5, NothingLeft DEF poll_check, Active
  <2>2. Ranges'
    BY <1>5, Numbers DEF Ranges, poll_check, Context, no_context
  <2>3. Masked' /\ Sized' /\ Copied' /\ Prefix' /\ WholeBatch'
    BY <1>5 DEF Masked, Sized, Copied, Prefix, WholeBatch, Active, poll_check
  <2>4. Counts'
    BY <1>5, <2>1 DEF Counts, Active, poll_check
  <2> QED BY <1>1, <2>2, <2>3, <2>4
<1> QED BY <1>3, <1>4, <1>5

LEMMA NextDrop == Inv /\ drop => Inv'
<1> SUFFICES ASSUME Inv, drop PROVE Inv'
  OBVIOUS
<1> USE SpiAsyncAssumption DEF Inv, drop, reset_on_drop, reset_and_reconfigure, isrVars
<1>1. Flags'
  BY DEF Flags
<1>2. Ranges'
  BY DEF Ranges
<1>3. Masked' /\ Sized' /\ Copied' /\ WholeBatch' /\ Counts'
  BY DEF Masked, Sized, Copied, WholeBatch, Counts, Active
<1>4. Prefix'
  BY DEF Prefix, whole_batch, transfer_len
<1> QED BY <1>1, <1>2, <1>3, <1>4

-----------------------------------------------------------------------------
(* The handler.                                                            *)
LEMMA NextInterrupt == Inv /\ on_interrupt => Inv'
<1> SUFFICES ASSUME Inv, on_interrupt PROVE Inv'
  OBVIOUS
<1> USE DEF Inv, on_interrupt, taskVars
<1>1. Flags'
  BY NextFlags DEF Next, Handler
<1>2. Ranges'
  BY DEF Ranges
<1>3. Masked' /\ Sized'
  BY DEF Masked, Sized, Active, irq
<1>4. Copied'
  <2>1. /\ snapshot'.rx_full => rx = FIFO_DEPTH
        /\ snapshot'.rx_not_empty => rx >= rx_trig
        /\ tx # FIFO_DEPTH \/ snapshot'.tx_full
    BY DEF interrupt_status
  <2> QED BY <2>1, Numbers DEF Copied, Ranges
<1>5. Counts'
  BY DEF Counts, Active, transfer_len, finished, write_idx
<1>6. Prefix' /\ WholeBatch'
  BY DEF Prefix, WholeBatch, Active, whole_batch, transfer_len
<1> QED BY <1>1, <1>2, <1>3, <1>4, <1>5, <1>6

(* The handler reads no more than the receive FIFO holds, nor more than    *)
(* the transfer has left.                                                  *)
LEMMA ReadLen ==
  ASSUME Inv, isr = "read"
  PROVE  /\ calculate_read_len \in Nat /\ calculate_read_len <= rx
         /\ calculate_read_len <= transfer_len(context) - context.rx_progress
  BY Numbers DEF Inv, Ranges, Counts, Masked, Copied, calculate_read_len, smaller

LEMMA NextRead == Inv /\ isr_read => Inv'
<1> SUFFICES ASSUME Inv, isr_read PROVE Inv'
  OBVIOUS
<1> DEFINE n == calculate_read_len
<1> USE DEF Inv, taskVars
<1>1. /\ Active /\ ~ done /\ task # "idle" /\ isr = "read" /\ isr' = "pump" /\ rx' = rx - n
      /\ task' = task /\ tx' = tx /\ lost' = lost /\ done' = done /\ mode' = mode /\ rx_trig' = rx_trig
      /\ imr' = imr /\ ~ imr /\ snapshot' = snapshot /\ stored' = stored \cup kept(n)
  BY DEF Masked, isr_read, Active
<1>2. n \in Nat /\ n <= rx /\ n <= transfer_len(context) - context.rx_progress
  BY <1>1, ReadLen
<1>3. /\ context'.type = context.type /\ context'.read_len = context.read_len
      /\ context'.write_len = context.write_len /\ context'.tx_progress = context.tx_progress
      /\ context'.rx_progress = context.rx_progress + n
  BY DEF Ranges, Context, isr_read
<1>4. context'.rx_progress \in 0 .. MaxLen
  BY <1>2, <1>3, Numbers
<1>5. context.type \in Type
  BY <1>1 DEF Sized
<1> HIDE DEF n
<1>6. kept(n) \subseteq context.rx_progress .. context.rx_progress + n - 1
  BY <1>5 DEF kept, Type
<1>7. Flags'
  BY NextFlags DEF Next, Handler
<1>8. Ranges'
  <2>1. context' \in Context
    BY <1>4 DEF isr_read, n, Ranges, Context
  <2>2. rx' \in 0 .. FIFO_DEPTH
    BY <1>1, <1>2, Numbers DEF Ranges
  <2>3. stored' \subseteq 0 .. MaxLen
    <3>1. context.rx_progress .. context.rx_progress + n - 1 \subseteq 0 .. MaxLen
      BY <1>2, Numbers
    <3> QED BY <1>1, <1>6, <3>1 DEF Ranges
  <2> QED BY <2>1, <2>2, <2>3 DEF Ranges, isr_read
<1>9. Masked' /\ Sized' /\ Copied'
  BY <1>1, <1>3 DEF Masked, Sized, Copied, Active
<1>10. Counts'
  <2>1. transfer_len(context') = transfer_len(context)
    BY <1>3 DEF transfer_len
  <2>2. Active' /\ task' # "idle" /\ task' # "fill" /\ ~ done'
    BY <1>1 DEF Active
  <2> QED BY <1>1, <1>2, <1>3, <2>1, <2>2, Numbers DEF Counts, Ranges, transfer_len
<1>11. whole_batch => /\ transfer_len(context) = context.read_len
                      /\ n = 0 \/ (context.rx_progress = 0 /\ n = context.read_len)
  <2> SUFFICES ASSUME whole_batch
               PROVE  /\ transfer_len(context) = context.read_len
                      /\ n = 0 \/ (context.rx_progress = 0 /\ n = context.read_len)
    OBVIOUS
  <2>1. transfer_len(context) = context.read_len
    BY <1>1, Numbers DEF whole_batch, Sized
  <2>2. CASE context.rx_progress = context.read_len
    BY <1>2, <2>1, <2>2, Numbers
  <2>3. CASE context.rx_progress = 0 /\ rx_trig = context.read_len
    BY <2>1, <2>3, Numbers DEF n, calculate_read_len, smaller, whole_batch, Ranges
  <2> QED BY <1>1, <2>1, <2>2, <2>3 DEF WholeBatch
<1>12. WholeBatch'
  <2>1. whole_batch' = whole_batch
    BY <1>1, <1>3 DEF whole_batch
  <2> QED BY <1>1, <1>3, <1>11, <2>1, Numbers DEF WholeBatch
<1>13. Prefix'
  <2>1. CASE context.type = "Write"
    BY <1>1, <1>3, <2>1 DEF Prefix, kept, whole_batch
  <2>2. CASE context.type \in {"Read", "TransferInPlace"}
    <3>1. kept(n) = context.rx_progress .. context.rx_progress + n - 1
      BY <2>2 DEF kept
    <3>2. stored = 0 .. context.rx_progress - 1
      BY <1>1, <2>2 DEF Prefix
    <3>3. stored' = 0 .. context'.rx_progress - 1
      BY <1>1, <1>2, <1>3, <3>1, <3>2, Numbers
    <3> QED BY <1>1, <1>3, <2>2, <3>3 DEF Prefix, whole_batch
  <2>3. CASE context.type = "Transfer" /\ whole_batch
    <3>1. stored = 0 .. context.rx_progress - 1
      BY <1>1, <2>3 DEF Prefix
    <3>2. CASE n = 0
      <4>1. kept(n) = {}
        BY <1>6, <3>2, Numbers
      <4>2. stored' = 0 .. context'.rx_progress - 1
        BY <1>1, <1>3, <3>1, <3>2, <4>1, Numbers
      <4> QED BY <1>1, <1>3, <2>3, <4>2 DEF Prefix
    <3>3. CASE context.rx_progress = 0
      <4>1. kept(n) = 0 .. n - 1
        BY <1>2, <2>3, <3>3 DEF kept
      <4>2. stored' = 0 .. context'.rx_progress - 1
        BY <1>1, <1>2, <1>3, <3>1, <3>3, <4>1
      <4> QED BY <1>1, <1>3, <2>3, <4>2 DEF Prefix
    <3> QED BY <1>11, <2>3, <3>2, <3>3
  <2>4. CASE context.type = "Transfer" /\ ~ whole_batch
    BY <1>1, <1>3, <2>4 DEF Prefix, whole_batch
  <2> QED BY <1>5, <2>1, <2>2, <2>3, <2>4 DEF Type
<1> QED BY <1>7, <1>8, <1>9, <1>10, <1>12, <1>13

(* The handler that panics has read no more than the batch; it never ends. *)
LEMMA NextPanic == Inv /\ isr_panic => Inv'
<1> SUFFICES ASSUME Inv, isr_panic PROVE Inv'
  OBVIOUS
<1> DEFINE n == calculate_read_len
           words == past_end - context.rx_progress + 1
<1> USE DEF Inv, taskVars
<1>1. /\ Active /\ ~ done /\ task # "idle" /\ task # "fill" /\ isr = "read" /\ isr' = "panicked"
      /\ rx' = rx - words /\ stored' = stored \cup (context.rx_progress .. past_end - 1)
      /\ task' = task /\ tx' = tx /\ lost' = lost /\ done' = done /\ mode' = mode
      /\ context' = context /\ rx_trig' = rx_trig /\ imr' = imr /\ ~ imr /\ snapshot' = snapshot
      /\ context.type = "Transfer" /\ past_end < n
  BY DEF Masked, isr_panic, Active, out_of_bounds
<1>2. n \in Nat /\ n <= rx /\ n <= transfer_len(context) - context.rx_progress
  BY <1>1, ReadLen
<1> HIDE DEF n
<1>3. /\ past_end \in Nat /\ past_end >= context.rx_progress /\ past_end >= context.read_len
      /\ past_end \in 0 .. MaxLen
  BY <1>1, <1>2, Numbers DEF past_end, larger
<1>4. words \in Nat /\ words <= n
  BY <1>1, <1>2, <1>3, Numbers
<1>5. ~ whole_batch
  BY <1>1, <1>2, <1>3, Numbers DEF whole_batch, transfer_len, larger
<1>6. Flags'
  BY NextFlags DEF Next, Handler
<1>7. Ranges'
  <2>1. rx' \in 0 .. FIFO_DEPTH
    BY <1>1, <1>2, <1>4, Numbers DEF Ranges
  <2>2. stored' \subseteq 0 .. MaxLen
    <3>1. context.rx_progress .. past_end - 1 \subseteq 0 .. MaxLen
      BY <1>3, Numbers
    <3> QED BY <1>1, <3>1 DEF Ranges
  <2> QED BY <2>1, <2>2 DEF Ranges, isr_panic
<1>8. Masked' /\ Sized' /\ Copied'
  BY <1>1 DEF Masked, Sized, Copied, Active
<1>9. Counts'
  BY <1>1, Numbers DEF Counts, Active, Ranges, transfer_len, finished
<1>10. Prefix' /\ WholeBatch'
  BY <1>1, <1>5 DEF Prefix, WholeBatch, Active, whole_batch, transfer_len
<1> QED BY <1>6, <1>7, <1>8, <1>9, <1>10

LEMMA NextPump == Inv /\ isr_pump => Inv'
<1> SUFFICES ASSUME Inv, isr_pump PROVE Inv'
  OBVIOUS
<1> USE DEF Inv, taskVars
<1>1. /\ Active /\ ~ done /\ ~ imr /\ task # "idle" /\ task # "fill" /\ isr = "pump" /\ isr' = isr
      /\ task' = task /\ tx' = tx + 1 /\ rx' = rx /\ lost' = lost /\ done' = done /\ mode' = mode
      /\ rx_trig' = rx_trig /\ imr' = imr /\ stored' = stored
  BY DEF Masked, isr_pump, Active
<1>2. tx < FIFO_DEPTH /\ context.tx_progress < transfer_len(context)
  BY DEF isr_pump, pumping, Copied
<1>3. /\ context'.type = context.type /\ context'.read_len = context.read_len
      /\ context'.write_len = context.write_len /\ context'.rx_progress = context.rx_progress
      /\ context'.tx_progress = context.tx_progress + 1
  BY DEF Ranges, Context, isr_pump
<1>4. transfer_len(context') = transfer_len(context)
  BY <1>3 DEF transfer_len
<1>5. Flags'
  BY NextFlags DEF Next, Handler
<1>6. Ranges'
  <2>1. context.tx_progress + 1 \in 0 .. MaxLen
    BY <1>2, Numbers
  <2>2. context' \in Context
    BY <2>1 DEF isr_pump, Ranges, Context
  <2>3. tx' \in 0 .. FIFO_DEPTH
    BY <1>1, <1>2, Numbers DEF Ranges
  <2> QED BY <2>2, <2>3 DEF Ranges, isr_pump
<1>7. Masked' /\ Sized'
  BY <1>1, <1>3 DEF Masked, Sized, Active
<1>8. Copied'
  <2>1. tx + 1 # FIFO_DEPTH \/ snapshot'.tx_full
    BY DEF isr_pump, interrupt_status
  <2> QED BY <1>1, <1>2, <2>1, Numbers DEF Copied, Ranges
<1>9. Counts'
  BY <1>1, <1>2, <1>3, <1>4, Numbers DEF Counts, Active, Ranges, transfer_len
<1>10. Prefix' /\ WholeBatch'
  BY <1>1, <1>3 DEF Prefix, WholeBatch, Active, whole_batch
<1> QED BY <1>5, <1>6, <1>7, <1>8, <1>9, <1>10

LEMMA NextFinish == Inv /\ finish_transfer => Inv'
<1> SUFFICES ASSUME Inv, finish_transfer PROVE Inv'
  OBVIOUS
<1> USE DEF Inv
<1>1. /\ Active /\ ~ done /\ ~ imr /\ task # "idle" /\ task # "fill" /\ isr = "pump"
      /\ context.type \in Type /\ finished
  BY DEF Masked, Sized, finish_transfer, Active
<1>2. Flags'
  BY DEF Flags, finish_transfer
<1>3. Ranges'
  BY Numbers DEF Ranges, finish_transfer
<1>4. Masked' /\ Sized' /\ Copied'
  BY <1>1 DEF Masked, Sized, Copied, Active, finish_transfer
<1>5. Counts'
  BY <1>1 DEF Counts, Active, finish_transfer, finished, transfer_len
<1>6. WholeBatch'
  BY <1>1, Numbers DEF WholeBatch, whole_batch, finish_transfer, finished, Sized
<1>7. Prefix'
  <2>1. context.type \in {"Read", "TransferInPlace"} \/ whole_batch
          => transfer_len(context) = context.read_len
    BY <1>1, Numbers DEF Sized, whole_batch
  <2>2. transfer_len(context)' = transfer_len(context) /\ whole_batch' = whole_batch
    BY DEF transfer_len, whole_batch, finish_transfer
  <2> QED BY <1>1, <2>1, <2>2 DEF Prefix, finish_transfer, finished
<1> QED BY <1>2, <1>3, <1>4, <1>5, <1>6, <1>7

LEMMA NextUnfinished == Inv /\ unfinished_transfer => Inv'
<1> SUFFICES ASSUME Inv, unfinished_transfer PROVE Inv'
  OBVIOUS
<1> USE DEF Inv, taskVars
<1>1. /\ Active /\ ~ done /\ task # "idle" /\ task # "fill" /\ context.type \in Type
  BY DEF Masked, Sized, unfinished_transfer, Active
<1>2. context.rx_progress < transfer_len(context)
  BY <1>1, Numbers DEF unfinished_transfer, finished, Counts
<1>3. Flags'
  BY DEF Flags, unfinished_transfer
<1>4. Ranges'
  BY <1>2, Numbers DEF Ranges, unfinished_transfer, new_trig_level, smaller
<1>5. Masked' /\ Sized' /\ Copied'
  BY <1>1 DEF Masked, Sized, Copied, Active, unfinished_transfer
<1>6. Counts'
  BY <1>1 DEF Counts, Active, unfinished_transfer, finished, transfer_len
<1>7. Prefix'
  BY <1>1 DEF Prefix, unfinished_transfer, whole_batch, transfer_len
<1>8. WholeBatch'
  BY <1>1, Numbers DEF WholeBatch, whole_batch, unfinished_transfer, new_trig_level, smaller, Sized
<1> QED BY <1>3, <1>4, <1>5, <1>6, <1>7, <1>8

-----------------------------------------------------------------------------
(* A word the controller drops makes the FIFOs fall behind the count.      *)
LEMMA NextWord == Inv /\ spi_word => Inv'
<1> SUFFICES ASSUME Inv, spi_word PROVE Inv'
  OBVIOUS
<1> USE DEF Inv, taskVars, isrVars
<1>1. task # "idle" /\ tx' = tx - 1 /\ (Active => ~ done)
  <2>1. tx \in Nat /\ rx \in Nat
    BY Numbers DEF Ranges
  <2>2. tx > 0 /\ tx' = tx - 1
    BY DEF spi_word
  <2> QED BY <2>1, <2>2, NothingLeft DEF Counts
<1>2. task = "fill" => rx < FIFO_DEPTH
  BY Numbers DEF Counts, Ranges, spi_word
<1>3. /\ rx' \in 0 .. FIFO_DEPTH /\ rx' >= rx
      /\ \/ rx' = rx + 1 /\ lost' = lost
         \/ rx' = rx /\ lost' /\ rx = FIFO_DEPTH
  BY Numbers DEF Ranges, spi_word
<1>4. Flags'
  BY DEF Flags, spi_word
<1>5. Ranges'
  BY <1>3, Numbers DEF Ranges, spi_word
<1>6. Masked' /\ Sized'
  BY DEF Masked, Sized, Active, spi_word
<1>7. Copied'
  BY <1>1, <1>3, Numbers DEF Copied, Ranges, spi_word
<1>8. Counts'
  <2>1. /\ transfer_len(context)' = transfer_len(context) /\ write_idx(context)' = write_idx(context)
        /\ task' = task /\ context' = context /\ fill' = fill /\ done' = done /\ isr' = isr
    BY DEF transfer_len, write_idx, spi_word
  <2>2. /\ tx \in Nat /\ rx \in Nat
        /\ rx' = rx + 1 => tx' + rx' = tx + rx
        /\ rx' = rx => tx' + rx' = tx + rx - 1
    BY <1>1, Numbers DEF Ranges
  <2>3. CASE task = "fill"
    <3>1. rx' = rx + 1 /\ lost' = lost
      BY <1>2, <1>3, <2>2, <2>3, Numbers
    <3> QED BY <1>1, <2>1, <2>2, <2>3, <3>1 DEF Counts, Active
  <2>4. CASE Active /\ isr # "panicked"
    <3>1. IF lost THEN tx + rx < context.tx_progress - context.rx_progress
                  ELSE tx + rx = context.tx_progress - context.rx_progress
      BY <2>4 DEF Counts
    <3>2. CASE rx' = rx + 1 /\ lost' = lost
      <4>1. tx' + rx' = tx + rx
        BY <2>2, <3>2
      <4>2. IF lost' THEN tx' + rx' < context.tx_progress - context.rx_progress
                     ELSE tx' + rx' = context.tx_progress - context.rx_progress
        BY <3>1, <3>2, <4>1
      <4> QED BY <1>1, <2>1, <2>4, <4>2 DEF Counts, Active
    <3>3. CASE rx' = rx /\ lost'
      <4>1. tx + rx <= context.tx_progress - context.rx_progress
        BY <2>2, <3>1, Numbers
      <4>2. tx' + rx' < context.tx_progress - context.rx_progress
        BY <2>2, <3>3, <4>1, Numbers
      <4> QED BY <1>1, <2>1, <2>4, <3>3, <4>2 DEF Counts, Active
    <3> QED BY <1>3, <3>2, <3>3
  <2>5. CASE Active /\ isr = "panicked"
    BY <1>1, <2>1, <2>5 DEF Counts, Active
  <2> QED BY <1>1, <2>3, <2>4, <2>5 DEF Ranges, Active
<1>9. Prefix' /\ WholeBatch'
  BY DEF Prefix, WholeBatch, Active, whole_batch, transfer_len, spi_word
<1> QED BY <1>4, <1>5, <1>6, <1>7, <1>8, <1>9

-----------------------------------------------------------------------------
LEMMA NextInv == Inv /\ [Next]_vars => Inv'
<1> SUFFICES ASSUME Inv, [Next]_vars PROVE Inv'
  OBVIOUS
<1>1. CASE New
  <2>1. PICK len \in 1 .. mode.max_len :
          \/ new("Read", len, 0) \/ new("Write", 0, len) \/ new("TransferInPlace", len, len)
          \/ \E read_len \in 1 .. len :
               \/ (mode.equal => read_len = len) /\ new("Transfer", read_len, len)
               \/ ~ mode.equal /\ new("Transfer", len, read_len)
    BY <1>1 DEF New
  <2>2. mode.max_len \in 1 .. MaxLen
    BY SpiAsyncAssumption DEF Inv, Ranges
  <2>3. len \in 0 .. MaxLen /\ len >= 1 /\ 0 \in 0 .. MaxLen
    BY <2>2, SpiAsyncAssumption
  <2>4. CASE new("Read", len, 0)
    BY <2>3, <2>4, NextNew DEF Type
  <2>5. CASE new("Write", 0, len)
    BY <2>3, <2>5, NextNew DEF Type
  <2>6. CASE new("TransferInPlace", len, len)
    BY <2>3, <2>6, NextNew DEF Type
  <2>7. ASSUME NEW r \in 1 .. len,
               \/ (mode.equal => r = len) /\ new("Transfer", r, len)
               \/ ~ mode.equal /\ new("Transfer", len, r)
        PROVE  Inv'
    <3>1. r \in 0 .. MaxLen /\ r >= 1
      BY <2>3, SpiAsyncAssumption
    <3> QED BY <2>3, <2>7, <3>1, NextNew DEF Type
  <2> QED BY <2>1, <2>4, <2>5, <2>6, <2>7
<1>2. CASE Task
  BY <1>2, NextFill, NextArm, NextPoll DEF Task
<1>3. CASE drop
  BY <1>3, NextDrop
<1>4. CASE Handler
  BY <1>4, NextInterrupt, NextRead, NextPanic, NextPump, NextFinish, NextUnfinished DEF Handler
<1>5. CASE spi_word
  BY <1>5, NextWord
<1>6. CASE UNCHANGED vars \/ panic_loop
  <2>3. UNCHANGED vars
    BY <1>6 DEF panic_loop
  <2> USE <2>3 DEF vars, Inv
  <2>1. Flags' /\ Ranges' /\ Masked' /\ Sized' /\ Copied'
    BY DEF Flags, Ranges, Masked, Sized, Copied, Active
  <2>2. Counts' /\ Prefix' /\ WholeBatch'
    BY DEF Counts, Prefix, WholeBatch, Active, whole_batch, transfer_len, write_idx, finished
  <2> QED BY <2>1, <2>2
<1> QED BY <1>1, <1>2, <1>3, <1>4, <1>5, <1>6 DEF Next

LEMMA Invariance == Spec => []Inv
  BY InitInv, NextInv, PTL DEF Spec

(* Types; the handler's unchecked writes never meet a full FIFO, and it    *)
(* never reads more words than the receive FIFO holds.                     *)
THEOREM TypeCorrect == Spec => []TypeOK
<1>1. Inv => TypeOK
  BY DEF Inv, Flags, Ranges, TypeOK
<1> QED BY <1>1, Invariance, PTL

(* As long as the controller drops no word, those in the FIFOs are exactly *)
(* the words this transfer has written and not read.                       *)
THEOREM WordsCounted == Spec => []WordsAccountedFor
<1>1. Inv => WordsAccountedFor
  BY DEF Inv, Counts, Active, WordsAccountedFor, Ranges
<1> QED BY <1>1, Invariance, PTL

(* on_interrupt never acts on slices whose future is dropped or ready.     *)
THEOREM SlicesOutlived == Spec => []SlicesAlive
<1>1. Inv => SlicesAlive
  BY DEF Inv, Masked, Active, SlicesAlive
<1> QED BY <1>1, Invariance, PTL

(* A future is ready only with its whole read slice stored: read, write    *)
(* and transfer_in_place of any length, and a transfer of equal slices     *)
(* that fit the FIFO.                                                      *)
THEOREM ReadyWhenComplete == Spec => []ReadyWhenStored
<1>1. Inv => ReadyWhenStored
  <2> SUFFICES ASSUME Inv, done,
                      context.type # "Transfer" \/ whole_batch
               PROVE  StoredAll(context)
    BY DEF ReadyWhenStored, whole_batch, fits_fifo
  <2>1. context.type \in Type
    BY DEF Inv, Prefix
  <2>2. CASE context.type = "Write"
    BY <2>2 DEF Inv, Prefix, StoredAll
  <2>3. CASE context.type # "Write"
    BY <2>1, <2>3 DEF Inv, Prefix, StoredAll, Type
  <2> QED BY <2>2, <2>3
<1> QED BY <1>1, Invariance, PTL

(* The handler panics, over an index past the end of the read slice, in no *)
(* other transfer than one whose read slice is the shorter: never in a     *)
(* read, a write or a transfer between slices of one length.               *)
THEOREM PanicsOnlyIfShort == Spec => []PanicsIfShort
<1>1. Init => PanicsIfShort
  BY DEF Init, PanicsIfShort
<1>2. Inv /\ PanicsIfShort /\ [Next]_vars => PanicsIfShort'
  <2> SUFFICES ASSUME Inv, PanicsIfShort, [Next]_vars, isr' = "panicked"
               PROVE  context'.type = "Transfer" /\ context'.read_len < context'.write_len
    BY DEF PanicsIfShort
  <2> USE DEF Inv, isrVars, taskVars, hwVars
  <2>1. CASE isr_panic
    <3>1. past_end < transfer_len(context) /\ context.type = "Transfer" /\ context' = context
      <4>1. isr = "read" /\ past_end < calculate_read_len /\ context.type = "Transfer" /\ context' = context
        BY <2>1 DEF isr_panic, out_of_bounds
      <4>2. /\ calculate_read_len \in Nat
            /\ calculate_read_len <= transfer_len(context) - context.rx_progress
        BY <4>1, ReadLen
      <4>3. past_end \in Nat
        BY Numbers DEF past_end, larger
      <4> QED BY <4>1, <4>2, <4>3, Numbers
    <3> QED BY <3>1, Numbers DEF past_end, transfer_len, larger
  <2>2. CASE isr = "panicked"
    <3>1. context' = context
      <4>1. task # "fill" \/ ~ arm
        BY <2>2 DEF Masked, Active
      <4>2. CASE New
        BY <2>2, <4>2 DEF New, new
      <4>3. CASE Task
        BY <2>2, <4>1, <4>3 DEF Task, fill_fifo, arm, poll_register, poll_check, repoll
      <4>4. CASE drop
        BY <2>2, <4>4 DEF drop
      <4>5. CASE Handler
        BY <2>2, <4>5 DEF Handler, on_interrupt, isr_read, isr_panic, isr_pump, finish_transfer,
                          unfinished_transfer
      <4>6. CASE spi_word \/ panic_loop \/ UNCHANGED vars
        BY <4>6 DEF spi_word, panic_loop, vars
      <4> QED BY <4>2, <4>3, <4>4, <4>5, <4>6 DEF Next
    <3> QED BY <2>2, <3>1 DEF PanicsIfShort
  <2>3. CASE isr # "panicked" /\ ~ isr_panic
    <3>1. isr' # "panicked"
      BY <2>3 DEF Next, New, new, Task, fill_fifo, arm, poll_register, poll_check, repoll, drop,
                  Handler, on_interrupt, isr_read, isr_pump, finish_transfer, unfinished_transfer,
                  panic_loop, spi_word, vars
    <3> QED BY <3>1
  <2> QED BY <2>1, <2>2, <2>3
<1> QED BY <1>1, <1>2, Invariance, PTL DEF Spec

-----------------------------------------------------------------------------
(* The time driver.                                                        *)
USE MCEmbassyAssumption

Range == 0 .. Time!Never

TimeTypeOK ==
  /\ count \in Nat /\ initialised \in BOOLEAN /\ time_mode \in TimeModes
  /\ queue \in [Waker -> Range] /\ next \in Range
  /\ pc \in {"idle", "expire", "alarm", "program"}
  /\ reading \in {"start", "upper", "lower"} /\ upper \in Nat /\ lower \in Nat
  /\ comparator \in Nat /\ comparing \in BOOLEAN /\ irq_enabled \in BOOLEAN

(* The counter has been at least where its halves are put together, if     *)
(* they can be.                                                            *)
ReadNotAhead ==
  /\ ~ initialised => count = 0
  /\ reading # "start" => upper <= count \div WIDTH
  /\ reading = "lower" /\ Time!same_upper => upper * WIDTH + lower <= count

(* What set_alarm is asked for is the earliest time, and what it programs  *)
(* is that or at most two ticks later.                                     *)
AlarmIsEarliest ==
  /\ pc \in {"alarm", "program"} => next = Time!earliest(queue)
  /\ pc = "program" => initialised /\ next < Time!Never /\ comparator >= next * SCALE
                       /\ comparator <= (next + 2) * SCALE
  /\ ~ initialised => ~ irq_enabled
  /\ ~ initialised /\ ~ time_mode.early =>
       pc = "idle" /\ \A w \in Waker : queue[w] = Time!Never

TimeInv == TimeTypeOK /\ ReadNotAhead /\ AlarmIsEarliest /\ Time!AlarmCovers

-----------------------------------------------------------------------------
(* Numbers.                                                                *)

LEMMA Constants ==
  /\ WIDTH \in Nat \ {0} /\ SCALE \in Nat \ {0} /\ MaxAt \in Nat
  /\ Time!Never = MaxAt + 1 /\ Time!Never \in Nat
BY DEF Time!TimeAssumption, Time!Never

LEMMA DivMod ==
  ASSUME NEW n \in Nat, NEW d \in Nat \ {0}
  PROVE  /\ n \div d \in Nat /\ n % d \in Nat
         /\ n = (n \div d) * d + (n % d) /\ n \div d <= (n + 1) \div d
OBVIOUS

LEMMA DivBelow ==
  ASSUME NEW n \in Nat, NEW d \in Nat \ {0}, NEW k \in Nat, k <= n \div d
  PROVE  k * d <= n
OBVIOUS

LEMMA Scaled ==
  ASSUME NEW a \in Int, NEW b \in Int, NEW d \in Nat, a <= b
  PROVE  a * d <= b * d /\ a * d \in Int /\ b * d \in Int
OBVIOUS

(* Every set of numbers that is not empty has a least one.                 *)
LEMMA NaturalsHaveMin ==
  ASSUME NEW S, S \subseteq Nat, S # {}
  PROVE  \E m \in S : \A k \in S : m <= k
<1>1. PICK m \in S : \A k \in S : <<k, m>> \notin OpToRel(<, Nat)
  BY NatLessThanWellFounded, WFMin
<1>2. \A k \in S : ~ (k < m)
  BY <1>1, Zenon DEF OpToRel
<1> QED
  BY <1>2

(* earliest is a time, and the largest when nobody waits.                  *)
LEMMA EarliestIsTime ==
  ASSUME NEW q \in [Waker -> Range]
  PROVE  /\ Time!earliest(q) \in Range
         /\ (\A w \in Waker : q[w] = Time!Never) => Time!earliest(q) = Time!Never
<1> DEFINE S == {q[w] : w \in Waker} \cup {Time!Never}
<1>1. S \subseteq Range /\ S \subseteq Nat /\ S # {}
  BY Constants DEF Range
<1>2. \E m \in S : \A k \in S : m <= k
  BY <1>1, NaturalsHaveMin
<1>3. Time!earliest(q) = CHOOSE m \in S : \A k \in S : m <= k
  BY DEF Time!earliest, Time!Min
<1>4. Time!earliest(q) \in S
  <2> HIDE DEF S
  <2> QED
    BY <1>2, <1>3
<1>5. (\A w \in Waker : q[w] = Time!Never) => S = {Time!Never}
  OBVIOUS
<1> HIDE DEF S
<1>6. Time!earliest(q) \in Range
  BY <1>1, <1>4
<1>7. (\A w \in Waker : q[w] = Time!Never) => Time!earliest(q) = Time!Never
  BY <1>4, <1>5
<1> QED
  BY <1>6, <1>7

-----------------------------------------------------------------------------
(* What the driver knows of the time.                                      *)

(* now is no later than the counter, also before init, when it is zero.    *)
LEMMA NowNotAhead ==
  ASSUME TimeTypeOK, ReadNotAhead, Time!now_known
  PROVE  /\ Time!now \in Nat
         /\ \A t \in Nat : t <= Time!now => t * SCALE <= count
<1>1. CASE ~ initialised
  BY <1>1, Constants DEF Time!now, TimeTypeOK
<1>2. CASE initialised
  <2> DEFINE read == upper * WIDTH + lower
  <2>1. read <= count /\ Time!now = read \div SCALE
    BY <1>2 DEF Time!now_known, Time!now, ReadNotAhead
  <2>2. read \in Nat
    BY Constants, Scaled DEF TimeTypeOK
  <2> HIDE DEF read
  <2>3. read \div SCALE \in Nat
    BY <2>2, Constants, DivMod
  <2>4. ASSUME NEW t \in Nat, t <= read \div SCALE PROVE t * SCALE <= count
    <3>1. t * SCALE <= read /\ t * SCALE \in Int
      BY <2>2, <2>4, Constants, DivBelow
    <3> QED
      BY <2>1, <2>2, <3>1 DEF TimeTypeOK
  <2> QED
    BY <2>1, <2>3, <2>4
<1> QED
  BY <1>1, <1>2 DEF TimeTypeOK

(* The halves: the lower one goes with the upper one that is read last if  *)
(* it equals the first.                                                    *)
LEMMA ReadTimerStep ==
  ASSUME TimeInv, Time!read_timer
  PROVE  TimeInv'
<1>1. /\ UNCHANGED <<time_mode, count, initialised, queue, pc, next, comparator, comparing,
                     event_flag, irq_enabled>>
      /\ TimeTypeOK /\ ReadNotAhead /\ WIDTH \in Nat \ {0}
  BY Constants DEF TimeInv, Time!read_timer, Time!read_upper, Time!read_lower, Time!read_again,
    Time!timer
<1>2. /\ count \div WIDTH \in Nat /\ count % WIDTH \in Nat /\ count \in Nat
      /\ count = (count \div WIDTH) * WIDTH + (count % WIDTH)
  BY <1>1, DivMod DEF TimeTypeOK
<1>3. AlarmIsEarliest' /\ Time!AlarmCovers'
  BY <1>1 DEF TimeInv, AlarmIsEarliest, Time!AlarmCovers
<1>4. CASE Time!read_upper
  <2>1. upper' = count \div WIDTH /\ reading' = "upper" /\ lower' = lower
    BY <1>4 DEF Time!read_upper
  <2>2. TimeTypeOK' /\ ReadNotAhead'
    BY <1>1, <1>2, <2>1 DEF TimeTypeOK, ReadNotAhead
  <2> QED
    BY <1>3, <2>2 DEF TimeInv
<1>5. CASE Time!read_lower
  <2>1. /\ reading = "upper" /\ reading' = "lower" /\ lower' = count % WIDTH /\ upper' = upper
    BY <1>5 DEF Time!read_lower
  <2>2. Time!same_upper' => upper' * WIDTH + lower' <= count'
    BY <1>1, <1>2, <2>1 DEF Time!same_upper
  <2>3. TimeTypeOK' /\ ReadNotAhead'
    BY <1>1, <1>2, <2>1, <2>2 DEF TimeTypeOK, ReadNotAhead
  <2> QED
    BY <1>3, <2>3 DEF TimeInv
<1>6. CASE Time!read_again
  <2>1. reading = "lower" /\ reading' = "upper" /\ UNCHANGED <<upper, lower>>
    BY <1>6 DEF Time!read_again
  <2>2. TimeTypeOK' /\ ReadNotAhead'
    BY <1>1, <2>1 DEF TimeTypeOK, ReadNotAhead
  <2> QED
    BY <1>3, <2>2 DEF TimeInv
<1> QED
  BY <1>4, <1>5, <1>6 DEF Time!read_timer

(* The counter counts on: if the upper half is still the one read, it was  *)
(* before.                                                                 *)
LEMMA TickStep ==
  ASSUME TimeInv, Time!tick
  PROVE  TimeInv'
<1>1. /\ initialised /\ count' = count + 1
      /\ UNCHANGED <<time_mode, initialised, queue, pc, reading, upper, lower, next, comparator,
                     comparing, event_flag, irq_enabled>>
  BY DEF Time!tick, Time!timer
<1>2. TimeTypeOK /\ ReadNotAhead /\ WIDTH \in Nat \ {0} /\ count \in Nat /\ upper \in Nat
  BY Constants DEF TimeInv, TimeTypeOK
<1>3. /\ count \div WIDTH \in Nat /\ (count + 1) \div WIDTH \in Nat
      /\ count \div WIDTH <= (count + 1) \div WIDTH
  BY <1>2, DivMod
<1>4. reading # "start" /\ Time!same_upper' => Time!same_upper
  BY <1>1, <1>2, <1>3 DEF ReadNotAhead, Time!same_upper
<1>5. upper * WIDTH + lower \in Int
  BY <1>2, Scaled DEF TimeTypeOK
<1>6. ReadNotAhead'
  BY <1>1, <1>2, <1>3, <1>4, <1>5 DEF ReadNotAhead
<1> QED
  BY <1>1, <1>2, <1>6 DEF TimeInv, TimeTypeOK, AlarmIsEarliest, Time!AlarmCovers

-----------------------------------------------------------------------------
(* The other steps.                                                        *)

LEMMA NextExpirationStep ==
  ASSUME TimeInv, Time!next_expiration
  PROVE  TimeInv'
<1>1. /\ pc = "expire" /\ pc' = "alarm" /\ reading' = "start" /\ next' = Time!earliest(queue')
      /\ queue' = [w \in Waker |-> IF queue[w] <= Time!now THEN Time!Never ELSE queue[w]]
      /\ UNCHANGED <<time_mode, count, initialised, upper, lower, comparator, comparing,
                     event_flag, irq_enabled>>
  BY DEF Time!next_expiration, Time!timer
<1>2. queue' \in [Waker -> Range]
  BY <1>1, Constants DEF TimeInv, TimeTypeOK, Range
<1>3. next' \in Range
  BY <1>1, <1>2, EarliestIsTime
<1> QED
  BY <1>1, <1>2, <1>3 DEF TimeInv, TimeTypeOK, ReadNotAhead, AlarmIsEarliest, Time!AlarmCovers

LEMMA SetAlarmStep ==
  ASSUME TimeInv, Time!set_alarm
  PROVE  TimeInv'
<1>1. TimeTypeOK /\ ReadNotAhead /\ AlarmIsEarliest
  BY DEF TimeInv
<1>2. CASE Time!alarm_too_late
  BY <1>1, <1>2 DEF Time!alarm_too_late, TimeInv, TimeTypeOK, ReadNotAhead, AlarmIsEarliest,
    Time!AlarmCovers
<1>3. CASE Time!alarm_overflows
  <2>1. Time!earliest(queue') = Time!Never
    BY <1>1, <1>3 DEF Time!alarm_overflows, AlarmIsEarliest
  <2>2. Time!AlarmCovers'
    BY <2>1, Constants DEF Time!AlarmCovers
  <2> QED
    BY <1>1, <1>3, <2>2 DEF Time!alarm_overflows, TimeInv, TimeTypeOK, ReadNotAhead,
      AlarmIsEarliest, Time!timer
<1>4. CASE Time!alarm_ahead
  <2>1. /\ pc = "alarm" /\ initialised /\ Time!now_known /\ Time!now < next /\ next < Time!Never
        /\ comparing' = FALSE /\ comparator' = Time!safe_timestamp * SCALE
        /\ pc' = "program" /\ reading' = "start"
        /\ UNCHANGED <<time_mode, count, initialised, queue, upper, lower, next, irq_enabled>>
    BY <1>4 DEF Time!alarm_ahead
  <2>2. Time!now \in Nat /\ next \in Nat /\ SCALE \in Nat
    BY <1>1, <2>1, NowNotAhead, Constants DEF TimeTypeOK, Range
  <2> DEFINE now == Time!now
             safe == IF next >= now + 3 THEN next ELSE now + 3
  <2>3. Time!safe_timestamp = safe
    <3>1. safe \in {next, now + 3} /\ \A t \in {next, now + 3} : safe >= t
      BY <2>2
    <3>2. \A s \in {next, now + 3} : (\A t \in {next, now + 3} : s >= t) => s = safe
      BY <2>2
    <3>3. Time!safe_timestamp =
            CHOOSE s \in {next, now + 3} : \A t \in {next, now + 3} : s >= t
      BY DEF Time!safe_timestamp, Time!Max
    <3> HIDE DEF safe, now
    <3> QED
      BY <3>1, <3>2, <3>3
  <2>4. safe \in Nat /\ next <= safe /\ safe <= next + 2
    BY <2>1, <2>2
  <2> HIDE DEF safe, now
  <2>5. /\ comparator' \in Nat /\ comparator' >= next * SCALE
        /\ comparator' <= (next + 2) * SCALE
    <3>1. comparator' = safe * SCALE
      BY <2>1, <2>3
    <3> QED
      BY <2>2, <2>4, <3>1, Scaled
  <2> QED
    BY <1>1, <2>1, <2>5 DEF TimeInv, TimeTypeOK, ReadNotAhead, AlarmIsEarliest,
      Time!AlarmCovers
<1>5. CASE Time!set_comparator
  <2>1. /\ pc = "program" /\ comparing' = TRUE /\ irq_enabled' = TRUE /\ pc' = "idle"
        /\ UNCHANGED <<time_mode, count, initialised, queue, reading, upper, lower, next,
                       comparator, event_flag>>
    BY <1>5 DEF Time!set_comparator, Time!enable_interrupt
  <2> QED
    BY <1>1, <2>1 DEF TimeInv, TimeTypeOK, ReadNotAhead, AlarmIsEarliest, Time!AlarmCovers,
      Time!same_upper
<1> QED
  BY <1>2, <1>3, <1>4, <1>5 DEF Time!set_alarm

LEMMA EntryStep ==
  ASSUME TimeInv,
         \/ Time!init \/ Time!on_interrupt \/ Time!match
         \/ \E w \in Waker, t \in 0 .. MaxAt : Time!schedule_wake(w, t)
  PROVE  TimeInv'
<1>1. CASE Time!init
  <2>1. ~ time_mode.early => Time!earliest(queue) = Time!Never
    BY <1>1, EarliestIsTime DEF Time!init, TimeInv, TimeTypeOK, AlarmIsEarliest
  <2>2. Time!AlarmCovers'
    BY <1>1, <2>1, Constants DEF Time!init, Time!AlarmCovers
  <2> QED
    BY <1>1, <2>2 DEF Time!init, TimeInv, TimeTypeOK, ReadNotAhead, AlarmIsEarliest,
      Time!same_upper, Time!timer
<1>2. CASE Time!on_interrupt
  BY <1>2 DEF Time!on_interrupt, TimeInv, TimeTypeOK, ReadNotAhead, AlarmIsEarliest,
    Time!same_upper, Time!AlarmCovers
<1>3. CASE Time!match
  BY <1>3 DEF Time!match, TimeInv, TimeTypeOK, ReadNotAhead, AlarmIsEarliest,
    Time!same_upper, Time!AlarmCovers
<1>4. CASE \E w \in Waker, t \in 0 .. MaxAt : Time!schedule_wake(w, t)
  <2>1. PICK w \in Waker, t \in 0 .. MaxAt :
          /\ pc = "idle" /\ (initialised \/ time_mode.early) /\ pc' = "expire"
          /\ queue' = [queue EXCEPT ![w] = t]
          /\ UNCHANGED <<time_mode, count, initialised, reading, upper, lower, next, comparator,
                         comparing, event_flag, irq_enabled>>
    BY <1>4 DEF Time!schedule_wake, Time!timer
  <2>2. queue' \in [Waker -> Range]
    BY <2>1, Constants DEF TimeInv, TimeTypeOK, Range
  <2> QED
    BY <2>1, <2>2 DEF TimeInv, TimeTypeOK, ReadNotAhead, AlarmIsEarliest, Time!same_upper,
      Time!AlarmCovers
<1> QED
  BY <1>1, <1>2, <1>3, <1>4

(* What is read of the counter is never ahead of it, and the comparator is *)
(* set to the earliest time or at most two ticks later.                    *)
THEOREM TimeInvariant == Time!Spec => []TimeInv
<1>1. Time!Init => TimeInv
  <2> SUFFICES ASSUME Time!Init PROVE TimeInv
    OBVIOUS
  <2>1. queue \in [Waker -> Range] /\ next \in Range
    BY Constants DEF Time!Init, Range
  <2>2. Time!earliest(queue) = Time!Never
    BY <2>1, EarliestIsTime DEF Time!Init
  <2> QED
    BY <2>1, <2>2, Constants DEF Time!Init, TimeInv, TimeTypeOK, ReadNotAhead,
      AlarmIsEarliest, Time!AlarmCovers
<1>2. TimeInv /\ [Time!Next]_(Time!vars) => TimeInv'
  <2> SUFFICES ASSUME TimeInv, [Time!Next]_(Time!vars) PROVE TimeInv'
    OBVIOUS
  <2>1. CASE UNCHANGED Time!vars
    BY <2>1 DEF Time!vars, TimeInv, TimeTypeOK, ReadNotAhead, AlarmIsEarliest,
      Time!same_upper, Time!AlarmCovers
  <2> QED
    BY <2>1, ReadTimerStep, TickStep, NextExpirationStep, SetAlarmStep, EntryStep
    DEF Time!Next, Time!Driver
<1> QED
  BY <1>1, <1>2, PTL DEF Time!Spec

(* No task is woken before its time, with any number of tasks, wherever    *)
(* the counter counts between the steps of reading it, and also by         *)
(* wake-ups scheduled before init.                                         *)
THEOREM WokenNotEarly == Time!Spec => NeverEarly
<1>1. TimeInv /\ [Time!Next]_(Time!vars) =>
        [\A w \in Waker : queue[w] < Time!Never /\ queue'[w] = Time!Never
           => count >= queue[w] * SCALE]_(Time!vars)
  <2> SUFFICES ASSUME TimeInv, Time!Next, NEW w \in Waker,
                      queue[w] < Time!Never, queue'[w] = Time!Never
               PROVE  count >= queue[w] * SCALE
    OBVIOUS
  <2>1. queue \in [Waker -> Range] /\ queue[w] \in Nat
    BY Constants DEF TimeInv, TimeTypeOK, Range
  <2>2. queue' # queue
    BY Constants, <2>1
  <2>3. CASE Time!next_expiration
    <3>1. Time!now_known /\ queue[w] <= Time!now
      BY <2>1, <2>3, Constants DEF Time!next_expiration
    <3>2. queue[w] * SCALE <= count /\ queue[w] * SCALE \in Int /\ count \in Nat
      BY <2>1, <3>1, NowNotAhead, Scaled, Constants DEF TimeInv, TimeTypeOK
    <3> QED
      BY <3>2
  <2>4. CASE \E v \in Waker, t \in 0 .. MaxAt : Time!schedule_wake(v, t)
    <3>1. PICK v \in Waker, t \in 0 .. MaxAt : queue' = [queue EXCEPT ![v] = t]
      BY <2>4 DEF Time!schedule_wake
    <3> QED
      BY <2>1, <3>1, Constants
  <2>5. CASE \/ Time!init \/ Time!read_timer \/ Time!set_alarm \/ Time!on_interrupt
             \/ Time!tick \/ Time!match
    BY <2>2, <2>5 DEF Time!init, Time!read_timer, Time!read_upper, Time!read_lower,
      Time!read_again, Time!set_alarm, Time!alarm_too_late, Time!alarm_overflows,
      Time!alarm_ahead, Time!set_comparator, Time!on_interrupt, Time!tick, Time!match
  <2> QED
    BY <2>3, <2>4, <2>5 DEF Time!Next, Time!Driver
<1> QED
  BY TimeInvariant, <1>1, PTL DEF Time!Spec, NeverEarly, Time!NeverEarly

(* While a task waits and no handler runs, the interrupt and the           *)
(* comparator are enabled, and the comparator is at the earliest time or   *)
(* at most two ticks behind it.                                            *)
THEOREM AlarmIsSet == Time!Spec => []Time!AlarmCovers
<1>1. TimeInv => Time!AlarmCovers
  BY DEF TimeInv
<1> QED
  BY TimeInvariant, <1>1, PTL
=============================================================================
