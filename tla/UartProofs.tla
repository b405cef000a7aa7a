----------------------------- MODULE UartProofs -----------------------------
(***************************************************************************)
(* Proofs about the UART: the asynchronous transmitter, for every FIFO     *)
(* depth, length of write and set of circumstances, the receiver, for      *)
(* every FIFO depth and trigger level and any number of bytes, the logger  *)
(* and its reader, for every size of its buffers, and the search for a     *)
(* baud rate, for every ratio of clock and rate.                           *)
(***************************************************************************)
EXTENDS MCUart, SequenceTheorems, TLAPS

-----------------------------------------------------------------------------
(* The asynchronous transmitter.                                           *)

Flags == shifter \in BOOLEAN /\ imr \in BOOLEAN /\ TX_DONE \in BOOLEAN /\ woken \in BOOLEAN

(* The rest of TypeOK: the provers treat Booleans apart from numbers.      *)
Ranges ==
  /\ mode \in Modes
  /\ fifo \in 0 .. FIFO_DEPTH /\ written \in 0 .. FIFO_DEPTH /\ taken \in 0 .. MaxLen
  /\ isr \subseteq Event /\ left \subseteq Event
  /\ context \in [slice : 0 .. MaxLen, progress : 0 .. MaxLen]
  /\ task \in {"idle", "fill", "register", "check", "pending"}
  /\ handler \in {"none", "finish", "refill"} /\ slack \in 0 .. 1

(* The bytes are counted from the start of the first fill.                 *)
Counts ==
  /\ fifo + taken <= MaxLen
  /\ task = "fill" => /\ fifo + taken = written
                      /\ written <= context.progress
                      /\ context.progress <= FIFO_DEPTH
  /\ Alive => fifo + taken = context.progress
  /\ context.progress <= context.slice \/ context.slice = 0

(* The interrupts are enabled, and the handler runs, only between the end  *)
(* of the first fill and the drop of the future.                           *)
Masked ==
  /\ imr => Alive
  /\ handler # "none" => Alive

Inv == Flags /\ Ranges /\ Counts /\ Masked

LEMMA InitInv == Init => Inv
<1> SUFFICES ASSUME Init PROVE Inv
  OBVIOUS
<1>1. Flags
  BY DEF Init, Flags
<1>2. Ranges /\ Counts
  BY UartAssumption DEF Init, Ranges, Counts, Alive, Event
<1>3. Masked
  BY DEF Init, Masked
<1> QED BY <1>1, <1>2, <1>3 DEF Inv

(* Every step keeps the flags Boolean.                                     *)
LEMMA NextFlags == Flags /\ [Next]_vars => Flags'
<1> SUFFICES ASSUME Flags, [Next]_vars PROVE Flags'
  OBVIOUS
<1> USE DEF Flags
<1>1. CASE write
  BY <1>1 DEF write, new, soft_reset
<1>2. CASE Task
  BY <1>2 DEF Task, fill_fifo, enable_interrupts, poll_register, poll_check, poll_ready, repoll,
              irq_off, hwVars
<1>3. CASE Handler
  BY <1>3 DEF Handler, on_interrupt_tx, finish, refill, clear_interrupts, hwVars
<1>4. CASE drop \/ take_byte \/ shift_out \/ UNCHANGED vars
  BY <1>4 DEF drop, take_byte, shift_out, irq_off, hwVars, vars
<1> QED BY <1>1, <1>2, <1>3, <1>4 DEF Next

(* Every step preserves the invariant.                                     *)
LEMMA NextInv == Inv /\ [Next]_vars => Inv'
<1> SUFFICES ASSUME Ranges, Counts, Masked, [Next]_vars PROVE Ranges' /\ Counts' /\ Masked'
  BY NextFlags DEF Inv
<1> USE UartAssumption DEF Alive, Event
<1>1. CASE write
  <2>1. PICK len \in 1 .. MaxLen : new(len)
    BY <1>1 DEF write
  <2>2. Ranges'
    BY <2>1 DEF new, soft_reset, Ranges, smaller
  <2>3. Counts'
    BY <2>1 DEF new, soft_reset, Ranges, Counts, smaller
  <2>4. Masked'
    BY <2>1 DEF new, Masked
  <2> QED BY <2>2, <2>3, <2>4
<1>2. CASE fill_fifo
  <2>1. Ranges'
    BY <1>2 DEF fill_fifo, filled_by, Ranges, Counts
  <2>2. Counts' /\ Masked'
    BY <1>2 DEF fill_fifo, Ranges, Counts, Masked
  <2> QED BY <2>1, <2>2
<1>3. CASE enable_interrupts
  BY <1>3 DEF enable_interrupts, Ranges, Counts, Masked, hwVars
<1>4. CASE poll_register \/ poll_check \/ repoll
  BY <1>4 DEF poll_register, poll_check, repoll, Ranges, Counts, Masked, hwVars
<1>5. CASE poll_ready \/ drop
  <2>1. Ranges'
    BY <1>5 DEF poll_ready, drop, Ranges, hwVars
  <2>2. Counts'
    BY <1>5 DEF poll_ready, drop, Ranges, Counts, hwVars
  <2>3. Masked'
    BY <1>5 DEF poll_ready, drop, irq_off, Masked
  <2> QED BY <2>1, <2>2, <2>3
<1>6. CASE on_interrupt_tx
  BY <1>6 DEF on_interrupt_tx, Ranges, Counts, Masked, hwVars
<1>7. CASE finish \/ clear_interrupts
  BY <1>7 DEF finish, clear_interrupts, Ranges, Counts, Masked, hwVars
<1>8. CASE refill
  <2>1. Ranges'
    BY <1>8 DEF refill, room, filled_by, Ranges
  <2>2. Counts' /\ Masked'
    BY <1>8 DEF refill, Ranges, Counts, Masked
  <2> QED BY <2>1, <2>2
<1>9. CASE take_byte
  <2>1. Ranges'
    BY <1>9 DEF take_byte, Ranges, Counts
  <2>2. Counts' /\ Masked'
    BY <1>9 DEF take_byte, Ranges, Counts, Masked
  <2> QED BY <2>1, <2>2
<1>10. CASE shift_out \/ UNCHANGED vars
  <2>1. UNCHANGED <<mode, fifo, written, taken, isr, imr, context, TX_DONE, task, woken, handler,
                    slack, left>>
    BY <1>10 DEF shift_out, vars
  <2> QED BY <2>1 DEF Ranges, Counts, Masked
<1> QED
  BY <1>1, <1>2, <1>3, <1>4, <1>5, <1>6, <1>7, <1>8, <1>9, <1>10 DEF Next, Task, Handler

LEMMA Invariance == Spec => []Inv
BY InitInv, NextInv, PTL DEF Spec

(* The transmit FIFO never overflows, and every variable keeps its type.   *)
THEOREM TypeCorrect == Spec => []TypeOK
<1>1. Inv => TypeOK
  BY DEF Inv, Flags, Ranges, TypeOK
<1> QED BY <1>1, Invariance, PTL

(* The handler never touches the slice of a future that is gone, however   *)
(* interrupts, polls and drops interleave.                                 *)
THEOREM SlicesOutlived == Spec => []SliceAlive
<1>1. Inv => SliceAlive
  BY DEF Inv, Masked, SliceAlive
<1> QED BY <1>1, Invariance, PTL

(* No byte of another write is ever between the progress of a write and    *)
(* the wire, and none is put there twice.                                  *)
THEOREM NoForeignBytes == Spec => []BytesOfThisWrite
<1>1. Inv => BytesOfThisWrite
  BY DEF Inv, Counts, BytesOfThisWrite
<1> QED BY <1>1, Invariance, PTL

(* The empty-FIFO event, if it was not left from before the interrupts     *)
(* were enabled, means that the FIFO is empty, until the handler fills it  *)
(* again.                                                                  *)
EmptyIsEmpty ==
  Alive /\ "empty" \notin left =>
    /\ "empty" \in isr /\ handler # "refill" => fifo = 0
    /\ handler = "finish" => fifo = 0

(* The handler finishes, and TX_DONE is set, with the whole slice taken.   *)
DoneIsWhole ==
  /\ handler = "finish" => context.progress >= context.slice
  /\ TX_DONE /\ Alive => /\ context.progress >= context.slice /\ ~ imr /\ handler = "none"
                         /\ "empty" \notin left => fifo = 0
  /\ task = "fill" => ~ TX_DONE
  /\ task # "idle" => context.slice # 0
  /\ EmptyIsEmpty

LEMMA InitDone == Init => DoneIsWhole
BY DEF Init, DoneIsWhole, EmptyIsEmpty, Alive

LEMMA NextDone == Inv /\ DoneIsWhole /\ [Next]_vars => DoneIsWhole'
<1> SUFFICES ASSUME Inv, DoneIsWhole, [Next]_vars PROVE DoneIsWhole'
  OBVIOUS
<1> USE DEF Inv, DoneIsWhole, EmptyIsEmpty, Alive, Masked
<1>1. ASSUME NEW len \in 1 .. MaxLen, new(len) PROVE DoneIsWhole'
  BY <1>1 DEF new, soft_reset
<1>2. CASE fill_fifo
  BY <1>2 DEF fill_fifo, filled_by
<1>3. CASE enable_interrupts
  BY <1>3 DEF enable_interrupts, hwVars
<1>4. CASE poll_register \/ poll_check \/ repoll
  BY <1>4 DEF poll_register, poll_check, repoll, hwVars
<1>5. CASE poll_ready
  BY <1>5 DEF poll_ready, irq_off, hwVars
<1>6. CASE drop
  BY <1>6 DEF drop, irq_off, hwVars
<1>7. CASE on_interrupt_tx
  BY <1>7 DEF on_interrupt_tx, transfer_done, hwVars
<1>8. CASE finish
  <2>0. handler = "finish" /\ handler # "none"
    BY <1>8 DEF finish
  <2>1. Alive
    BY <2>0
  <2>4. context.progress >= context.slice
    BY <2>0
  <2>5. "empty" \notin left => fifo = 0
    BY <2>0, <2>1
  <2>2. context' = context /\ fifo' = fifo /\ left' = left /\ task' = task
    BY <1>8 DEF finish, hwVars
  <2>3. isr' = {} /\ imr' = FALSE /\ handler' = "none"
    BY <1>8 DEF finish
  <2> QED BY <2>1, <2>2, <2>3, <2>4, <2>5
<1>9. CASE refill
  BY <1>9 DEF refill, filled_by
<1>10. CASE clear_interrupts
  BY <1>10 DEF clear_interrupts, hwVars
<1>11. CASE take_byte
  BY <1>11 DEF take_byte, irq
<1>12. CASE shift_out
  BY <1>12 DEF shift_out
<1>13. CASE UNCHANGED vars
  BY <1>13 DEF vars
<1> QED
  BY <1>1, <1>2, <1>3, <1>4, <1>5, <1>6, <1>7, <1>8, <1>9, <1>10, <1>11, <1>12, <1>13
     DEF Next, write, Task, Handler

(* A write is reported done only when all its bytes are in the FIFO, and,  *)
(* unless an event of an empty FIFO was left from before the interrupts    *)
(* were enabled, have left it.                                             *)
THEOREM DoneWhenEmptied == Spec => []DoneWhenSent
<1>1. Inv /\ DoneIsWhole => DoneWhenSent
  <2> SUFFICES ASSUME Ranges, Counts, DoneIsWhole, TX_DONE, Alive
               PROVE  context.progress = context.slice /\ ("empty" \notin left => fifo = 0)
    BY DEF Inv, DoneWhenSent
  <2>1. context.slice # 0 /\ context.progress >= context.slice
    BY DEF DoneIsWhole, Alive
  <2>2. context.progress \in Nat /\ context.slice \in Nat
    BY UartAssumption DEF Ranges
  <2>3. context.progress <= context.slice
    BY <2>1 DEF Counts
  <2>4. "empty" \notin left => fifo = 0
    BY DEF DoneIsWhole
  <2> QED  BY <2>1, <2>2, <2>3, <2>4
<1> QED  BY <1>1, InitDone, NextDone, InitInv, NextInv, PTL DEF Spec

-----------------------------------------------------------------------------
(* The receiver.                                                           *)

LEMMA Associative ==
  ASSUME NEW p \in Seq(Nat), NEW q \in Seq(Nat), NEW r \in Seq(Nat)
  PROVE  (p \o q) \o r = p \o (q \o r)
BY ConcatAssociative

USE MCUartAssumption

RxTypeOK ==
  /\ rx_mode \in [by : {"interrupt", "blocking"}, reset_rx_timeout : BOOLEAN, rto : BOOLEAN]
  /\ rx_fifo \in Seq(Nat) /\ Len(rx_fifo) <= RX_DEPTH
  /\ buf \in Seq(Nat) /\ delivered \in Seq(Nat)
  /\ line \in Nat /\ overrun \subseteq 1 .. line
  /\ rx_enabled \in BOOLEAN /\ rx_handler \in {"none", "read", "finish", "clear"}

(* Only the handler reads when reception is driven by interrupts.          *)
OneReader ==
  /\ rx_enabled => rx_mode.by = "interrupt"
  /\ rx_handler # "none" => rx_enabled

(* An event that is seen stands for as many bytes as are read unchecked.   *)
EnoughBytes ==
  /\ rx_enabled /\ rx_handler = "none" =>
       /\ "rx_full" \in rx_isr => Len(rx_fifo) >= RX_DEPTH
       /\ "rx_trg" \in rx_isr => Len(rx_fifo) >= RX_TRIGGER
  /\ rx_handler = "read" => Len(buf) + Len(rx_fifo) >= Receiver!unchecked

RxInv == RxTypeOK /\ OneReader /\ EnoughBytes /\ BytesInOrder

(* The stream of bytes is what is the case at its places.                  *)
LEMMA StreamAt ==
  ASSUME RxTypeOK
  PROVE  /\ Receiver!Stream \in Seq(Nat) /\ Receiver!InHandler \in Seq(Nat)
         /\ Receiver!Stream = delivered \o (Receiver!InHandler \o rx_fifo)
<1>1. Receiver!InHandler \in Seq(Nat) /\ delivered \in Seq(Nat) /\ rx_fifo \in Seq(Nat)
  BY EmptySeq DEF Receiver!InHandler, RxTypeOK
<1>2. delivered \o Receiver!InHandler \in Seq(Nat)
  BY <1>1, ConcatProperties
<1>3. (delivered \o Receiver!InHandler) \o rx_fifo \in Seq(Nat)
  BY <1>1, <1>2, ConcatProperties
<1>4. (delivered \o Receiver!InHandler) \o rx_fifo = delivered \o (Receiver!InHandler \o rx_fifo)
  BY <1>1, Associative
<1> QED
  BY <1>1, <1>3, <1>4 DEF Receiver!Stream

(* A byte moved from one end to another of two sequences.                  *)
LEMMA MoveHead ==
  ASSUME NEW b \in Seq(Nat), NEW f \in Seq(Nat), f # <<>>
  PROVE  /\ Append(b, Head(f)) \o Tail(f) = b \o f
         /\ Append(b, Head(f)) \in Seq(Nat) /\ Tail(f) \in Seq(Nat)
         /\ Len(Append(b, Head(f))) = Len(b) + 1 /\ Len(Tail(f)) = Len(f) - 1
<1>1. /\ Head(f) \in Nat /\ Tail(f) \in Seq(Nat) /\ Len(Tail(f)) = Len(f) - 1
      /\ Head(f) = f[1] /\ Len(f) \in Nat \ {0}
      /\ \A i \in 1 .. Len(Tail(f)) : Tail(f)[i] = f[i + 1]
  BY HeadTailProperties, EmptySeq
<1>2. Append(b, Head(f)) \in Seq(Nat) /\ Len(Append(b, Head(f))) = Len(b) + 1 /\ Len(b) \in Nat
      /\ \A i \in 1 .. Len(b) + 1 : Append(b, Head(f))[i] = IF i = Len(b) + 1 THEN f[1] ELSE b[i]
  BY <1>1
<1>3. Append(b, Head(f)) \o Tail(f) = b \o f
  <2> DEFINE s == Append(b, Head(f))
             t == Tail(f)
  <2>1. /\ s \o t \in Seq(Nat) /\ b \o f \in Seq(Nat)
        /\ Len(s \o t) = Len(s) + Len(t) /\ Len(b \o f) = Len(b) + Len(f)
    BY <1>1, <1>2, ConcatProperties
  <2>2. ASSUME NEW i \in 1 .. Len(s \o t) PROVE (s \o t)[i] = (b \o f)[i]
    <3>1. (s \o t)[i] = IF i <= Len(s) THEN s[i] ELSE t[i - Len(s)]
      BY <1>1, <1>2, <2>1, ConcatProperties
    <3>2. (b \o f)[i] = IF i <= Len(b) THEN b[i] ELSE f[i - Len(b)]
      BY <1>1, <1>2, <2>1, ConcatProperties
    <3> HIDE DEF s, t
    <3> QED
      BY <1>1, <1>2, <2>1, <3>1, <3>2 DEF s, t
  <2> HIDE DEF s, t
  <2>3. Len(s \o t) = Len(b \o f)
    BY <1>1, <1>2, <2>1 DEF s, t
  <2>4. s \o t = b \o f
    BY <2>1, <2>2, <2>3, SeqEqual
  <2> QED
    BY <2>4 DEF s, t
<1> QED
  BY <1>1, <1>2, <1>3

Sorted(s) == \A i, j \in DOMAIN s : i < j => s[i] < s[j]
Bytes(s) == {s[i] : i \in DOMAIN s}

(* The two parts of a sorted sequence have no byte in common.              *)
LEMMA SortedParts ==
  ASSUME NEW p \in Seq(Nat), NEW f \in Seq(Nat), Sorted(p \o f)
  PROVE  Sorted(p) /\ Bytes(p \o f) = Bytes(p) \cup Bytes(f) /\ Bytes(p) \cap Bytes(f) = {}
<1> DEFINE w == p \o f
<1>1. /\ DOMAIN p = 1 .. Len(p) /\ DOMAIN f = 1 .. Len(f) /\ Len(p) \in Nat /\ Len(f) \in Nat
      /\ DOMAIN w = 1 .. Len(p) + Len(f)
      /\ \A i \in 1 .. Len(p) + Len(f) : w[i] = IF i <= Len(p) THEN p[i] ELSE f[i - Len(p)]
  BY ConcatProperties, LenProperties
<1>2. \A i \in 1 .. Len(p) : i \in DOMAIN w /\ w[i] = p[i]
  BY <1>1
<1>3. \A i \in 1 .. Len(f) :
        i + Len(p) \in DOMAIN w /\ w[i + Len(p)] = f[i] /\ i + Len(p) > Len(p)
  <2> SUFFICES ASSUME NEW i \in 1 .. Len(f)
               PROVE  i + Len(p) \in DOMAIN w /\ w[i + Len(p)] = f[i] /\ i + Len(p) > Len(p)
    OBVIOUS
  <2>1. i + Len(p) \in 1 .. Len(p) + Len(f) /\ ~ (i + Len(p) <= Len(p)) /\ i + Len(p) - Len(p) = i
    BY <1>1
  <2> HIDE DEF w
  <2>2. w[i + Len(p)] = f[i + Len(p) - Len(p)]
    BY <1>1, <2>1
  <2>3. i + Len(p) > Len(p)
    BY <1>1
  <2> QED
    BY <1>1, <2>1, <2>2, <2>3
<1>4. \A i \in DOMAIN w : i \in 1 .. Len(p) \/ \E k \in 1 .. Len(f) : i = k + Len(p)
  <2> SUFFICES ASSUME NEW i \in DOMAIN w, i \notin 1 .. Len(p)
               PROVE  \E k \in 1 .. Len(f) : i = k + Len(p)
    OBVIOUS
  <2> HIDE DEF w
  <2>1. i - Len(p) \in 1 .. Len(f) /\ i = (i - Len(p)) + Len(p)
    BY <1>1
  <2> QED
    BY <2>1
<1>5. Sorted(w)
  OBVIOUS
<1> HIDE DEF w
<1>6. Sorted(p)
  BY <1>1, <1>2, <1>5 DEF Sorted
<1>7. Bytes(w) = Bytes(p) \cup Bytes(f)
  <2>1. Bytes(p) \subseteq Bytes(w)
    BY <1>1, <1>2 DEF Bytes
  <2>2. Bytes(f) \subseteq Bytes(w)
    BY <1>1, <1>3 DEF Bytes
  <2>3. ASSUME NEW i \in DOMAIN w PROVE w[i] \in Bytes(p) \cup Bytes(f)
    <3>1. CASE i \in 1 .. Len(p)
      BY <1>1, <1>2, <3>1 DEF Bytes
    <3>2. CASE \E k \in 1 .. Len(f) : i = k + Len(p)
      BY <1>1, <1>3, <3>2 DEF Bytes
    <3> QED
      BY <1>4, <2>3, <3>1, <3>2
  <2>4. Bytes(w) \subseteq Bytes(p) \cup Bytes(f)
    BY <2>3 DEF Bytes
  <2> QED
    BY <2>1, <2>2, <2>4
<1>8. ASSUME NEW i \in 1 .. Len(p), NEW k \in 1 .. Len(f) PROVE p[i] # f[k]
  <2>1. i < k + Len(p)
    BY <1>1
  <2>2. w[i] < w[k + Len(p)] /\ w[i] = p[i] /\ w[k + Len(p)] = f[k]
    BY <1>2, <1>3, <1>5, <2>1 DEF Sorted
  <2>3. p[i] \in Nat /\ f[k] \in Nat
    BY <1>1
  <2> QED
    BY <2>2, <2>3
<1>9. Bytes(p) \cap Bytes(f) = {}
  BY <1>1, <1>8 DEF Bytes
<1> QED
  BY <1>6, <1>7, <1>9 DEF w

(* A byte after all the others keeps a sequence sorted.                    *)
LEMMA SortedAppend ==
  ASSUME NEW s \in Seq(Nat), NEW n \in Nat, Sorted(s), \A x \in Bytes(s) : x < n
  PROVE  Sorted(Append(s, n)) /\ Bytes(Append(s, n)) = Bytes(s) \cup {n}
<1>1. /\ DOMAIN s = 1 .. Len(s) /\ Len(s) \in Nat
      /\ DOMAIN Append(s, n) = 1 .. Len(s) + 1
      /\ \A i \in 1 .. Len(s) : Append(s, n)[i] = s[i]
      /\ Append(s, n)[Len(s) + 1] = n
  BY AppendProperties, LenProperties
<1> DEFINE r == Append(s, n)
<1>2. /\ DOMAIN r = 1 .. Len(s) + 1 /\ \A i \in 1 .. Len(s) : r[i] = s[i]
      /\ r[Len(s) + 1] = n
  BY <1>1
<1> HIDE DEF r
<1>3. ASSUME NEW i \in DOMAIN r, NEW j \in DOMAIN r, i < j PROVE r[i] < r[j]
  <2>1. i \in 1 .. Len(s) /\ s[i] \in Bytes(s)
    BY <1>1, <1>2, <1>3 DEF Bytes
  <2>2. CASE j = Len(s) + 1
    BY <1>1, <1>2, <2>1, <2>2
  <2>3. CASE j # Len(s) + 1
    <3>1. j \in DOMAIN s /\ i \in DOMAIN s
      BY <1>1, <1>2, <2>1, <2>3
    <3> QED
      BY <1>1, <1>2, <1>3, <3>1 DEF Sorted
  <2> QED
    BY <2>2, <2>3
<1>4. Bytes(r) = Bytes(s) \cup {n}
  BY <1>1, <1>2 DEF Bytes
<1> QED
  BY <1>3, <1>4 DEF r, Sorted

LEMMA RxInitHolds == Receiver!RxInit => RxInv
<1> SUFFICES ASSUME Receiver!RxInit PROVE RxInv
  OBVIOUS
<1> USE DEF Receiver!RxInit
<1>1. RxTypeOK
  <2>1. rx_mode \in [by : {"interrupt", "blocking"}, reset_rx_timeout : BOOLEAN, rto : BOOLEAN]
    OBVIOUS
  <2>2. <<>> \in Seq(Nat) /\ Len(<<>>) = 0 /\ RX_DEPTH \in Nat
    BY EmptySeq DEF Receiver!UartRxAssumption
  <2>3. /\ rx_fifo \in Seq(Nat) /\ buf \in Seq(Nat) /\ delivered \in Seq(Nat)
        /\ Len(rx_fifo) <= RX_DEPTH
    BY <2>2
  <2>4. line \in Nat /\ overrun \subseteq 1 .. line /\ rx_enabled \in BOOLEAN
        /\ rx_handler \in {"none", "read", "finish", "clear"}
    OBVIOUS
  <2> QED
    BY <2>1, <2>3, <2>4 DEF RxTypeOK
<1>2. OneReader /\ EnoughBytes
  BY DEF OneReader, EnoughBytes
<1>3. Receiver!Stream = <<>>
  BY DEF Receiver!Stream, Receiver!InHandler
<1>4. DOMAIN Receiver!Stream = {} /\ line = 0 /\ overrun = {}
  BY <1>3
<1>5. BytesInOrder
  BY <1>4 DEF BytesInOrder, Receiver!BytesInOrder
<1> QED
  BY <1>1, <1>2, <1>5 DEF RxInv

(* What the stream is and what was lost decide whether bytes are in order. *)
LEMMA OrderBySorted ==
  BytesInOrder <=> Sorted(Receiver!Stream) /\ Bytes(Receiver!Stream) = 1 .. line \ overrun
BY DEF BytesInOrder, Receiver!BytesInOrder, Sorted, Bytes

LEMMA SameStream ==
  ASSUME BytesInOrder, Receiver!Stream' = Receiver!Stream, UNCHANGED <<line, overrun>>
  PROVE  BytesInOrder'
BY DEF BytesInOrder, Receiver!BytesInOrder

LEMMA RxStart ==
  ASSUME RxInv, Receiver!start_interrupt_driven_reception PROVE RxInv'
<1> USE DEF RxInv
<1>1. RxTypeOK'
  <2>1. {rx_fifo[i] : i \in DOMAIN rx_fifo} \subseteq 1 .. line
    <3>1. rx_fifo \in Seq(Nat) /\ delivered \o Receiver!InHandler \in Seq(Nat)
      BY StreamAt, ConcatProperties DEF RxTypeOK
    <3> DEFINE p == delivered \o Receiver!InHandler
    <3> HIDE DEF p
    <3>2. Receiver!Stream = p \o rx_fifo /\ p \in Seq(Nat)
      BY <3>1 DEF Receiver!Stream, p
    <3>3. Bytes(rx_fifo) \subseteq Bytes(Receiver!Stream)
      BY <3>1, <3>2, SortedParts, OrderBySorted
    <3> QED
      BY <3>3, OrderBySorted DEF Bytes
  <2>2. RxTypeOK'
    <3>1. <<>> \in Seq(Nat) /\ Len(<<>>) = 0 /\ RX_DEPTH \in Nat
      BY EmptySeq DEF Receiver!UartRxAssumption
    <3>2. rx_fifo' \in Seq(Nat) /\ Len(rx_fifo') <= RX_DEPTH
      BY <3>1 DEF Receiver!start_interrupt_driven_reception
    <3>3. overrun' \subseteq 1 .. line'
      BY <2>1 DEF RxTypeOK, Receiver!start_interrupt_driven_reception
    <3> QED
      BY <3>2, <3>3 DEF RxTypeOK, Receiver!start_interrupt_driven_reception
  <2> QED
    BY <2>2
<1>2. OneReader' /\ EnoughBytes'
  BY DEF OneReader, EnoughBytes, Receiver!start_interrupt_driven_reception
<1>3. BytesInOrder'
  <2> DEFINE p == delivered \o Receiver!InHandler
  <2>1. rx_fifo \in Seq(Nat) /\ p \in Seq(Nat)
    BY StreamAt, ConcatProperties DEF RxTypeOK
  <2>2. Receiver!Stream = p \o rx_fifo
    BY DEF Receiver!Stream
  <2>3. /\ Receiver!InHandler' = Receiver!InHandler /\ delivered' = delivered /\ rx_fifo' = <<>>
        /\ line' = line /\ overrun' = overrun \cup Bytes(rx_fifo)
    BY DEF Receiver!start_interrupt_driven_reception, Receiver!InHandler, Bytes
  <2>4. Receiver!Stream' = p
    <3>1. Receiver!Stream' = p \o <<>>
      BY <2>3 DEF Receiver!Stream
    <3> HIDE DEF p
    <3> QED
      BY <2>1, <3>1, ConcatEmptySeq
  <2> HIDE DEF p
  <2>5. /\ Sorted(p) /\ Bytes(p) \cap Bytes(rx_fifo) = {}
        /\ Bytes(p \o rx_fifo) = Bytes(p) \cup Bytes(rx_fifo)
        /\ Bytes(p \o rx_fifo) = 1 .. line \ overrun
    BY <2>1, <2>2, SortedParts, OrderBySorted
  <2>6. Sorted(Receiver!Stream)' /\ Bytes(Receiver!Stream)' = (1 .. line \ overrun)'
    <3>1. Sorted(Receiver!Stream') /\ Bytes(Receiver!Stream') = 1 .. line' \ overrun'
      BY <2>3, <2>4, <2>5
    <3> QED
      BY <3>1 DEF Sorted, Bytes
  <2> QED
    BY <2>6, OrderBySorted DEF BytesInOrder, Receiver!BytesInOrder, Sorted, Bytes
<1> QED
  BY <1>1, <1>2, <1>3

LEMMA RxEnter ==
  ASSUME RxInv, Receiver!enter PROVE RxInv'
<1> USE DEF RxInv, Receiver!enter
<1>1. RxTypeOK'
  BY EmptySeq DEF RxTypeOK
<1>2. OneReader'
  BY DEF OneReader
<1>3. EnoughBytes'
  <2>1. Len(buf') = 0 /\ Len(rx_fifo) \in Nat
    BY DEF RxTypeOK
  <2> QED
    BY <2>1 DEF EnoughBytes, Receiver!unchecked, Receiver!UartRxAssumption
<1>4. Receiver!InHandler' = Receiver!InHandler
  BY DEF Receiver!InHandler
<1>5. BytesInOrder'
  BY <1>4, SameStream DEF Receiver!Stream
<1> QED
  BY <1>1, <1>2, <1>3, <1>5

(* A byte that is moved from the FIFO to the buffer.                       *)
LEMMA RxPop ==
  ASSUME RxInv, Receiver!pop, rx_fifo # <<>>, rx_handler = "read",
         UNCHANGED <<rx_mode, rx_isr, rx_enabled, line, overrun, rx_handler, rx_copy, delivered>>
  PROVE  RxInv'
<1> USE DEF RxInv
<1>1. /\ buf' = Append(buf, Head(rx_fifo)) /\ rx_fifo' = Tail(rx_fifo)
      /\ buf \in Seq(Nat) /\ rx_fifo \in Seq(Nat)
  BY DEF Receiver!pop, RxTypeOK
<1>2. /\ buf' \o rx_fifo' = buf \o rx_fifo
      /\ buf' \in Seq(Nat) /\ rx_fifo' \in Seq(Nat)
      /\ Len(buf') = Len(buf) + 1 /\ Len(rx_fifo') = Len(rx_fifo) - 1
  BY <1>1, MoveHead
<1>3. Len(buf) \in Nat /\ Len(rx_fifo) \in Nat
  BY <1>1
<1>4. RxTypeOK'
  BY <1>2, <1>3 DEF RxTypeOK, Receiver!UartRxAssumption
<1>5. OneReader'
  BY DEF OneReader
<1>6. EnoughBytes'
  <2>1. Receiver!unchecked' = Receiver!unchecked
    BY DEF Receiver!unchecked
  <2>2. Len(buf') + Len(rx_fifo') = Len(buf) + Len(rx_fifo)
    BY <1>2, <1>3
  <2> QED
    BY <2>1, <2>2 DEF EnoughBytes
<1>7. BytesInOrder'
  <2>1. Receiver!InHandler = buf /\ Receiver!InHandler' = buf'
    BY DEF Receiver!InHandler
  <2>2. Receiver!Stream = delivered \o (buf \o rx_fifo)
    BY <2>1, StreamAt
  <2>3. Receiver!Stream' = delivered \o (buf' \o rx_fifo')
    <3>1. Receiver!Stream' = (delivered \o buf') \o rx_fifo'
      BY <2>1 DEF Receiver!Stream
    <3> QED
      <4>1. /\ delivered \in Seq(Nat) /\ buf' \in Seq(Nat) /\ rx_fifo' \in Seq(Nat)
        BY <1>2 DEF RxTypeOK
      <4>2. (delivered \o buf') \o rx_fifo' = delivered \o (buf' \o rx_fifo')
        BY <4>1, Associative
      <4> QED
        BY <3>1, <4>2
  <2> QED
    BY <1>2, <2>2, <2>3, SameStream
<1> QED
  BY <1>4, <1>5, <1>6, <1>7

LEMMA RxReads ==
  ASSUME RxInv, Receiver!read_fifo_unchecked \/ Receiver!read_fifo PROVE RxInv'
<1> USE DEF RxInv
<1>0. Len(buf) \in Nat /\ Len(rx_fifo) \in Nat /\ (Len(rx_fifo) > 0 => rx_fifo # <<>>)
  BY DEF RxTypeOK
<1>1. CASE Receiver!read_fifo_unchecked
  <2>1. Receiver!unchecked \in Nat /\ Len(rx_fifo) > 0
    BY <1>0, <1>1 DEF EnoughBytes, Receiver!read_fifo_unchecked, Receiver!unchecked,
       Receiver!UartRxAssumption
  <2> QED
    BY <1>0, <1>1, <2>1, RxPop DEF Receiver!read_fifo_unchecked
<1>2. CASE Receiver!read_fifo /\ Receiver!more
  BY <1>2, RxPop DEF Receiver!read_fifo, Receiver!more
<1>3. CASE Receiver!read_fifo /\ ~ Receiver!more
  <2>1. RxTypeOK' /\ OneReader' /\ EnoughBytes'
    BY <1>3 DEF Receiver!read_fifo, RxTypeOK, OneReader, EnoughBytes
  <2>2. Receiver!InHandler' = Receiver!InHandler
    BY <1>3 DEF Receiver!read_fifo, Receiver!InHandler
  <2>3. BytesInOrder'
    BY <1>3, <2>2, SameStream DEF Receiver!read_fifo, Receiver!Stream
  <2> QED
    BY <2>1, <2>3
<1> QED
  BY <1>1, <1>2, <1>3

LEMMA RxEnds ==
  ASSUME RxInv, Receiver!finish \/ Receiver!clear_interrupts \/ Receiver!expire PROVE RxInv'
<1> USE DEF RxInv
<1>1. CASE Receiver!finish
  <2>1. RxTypeOK' /\ OneReader' /\ EnoughBytes'
    BY <1>1 DEF Receiver!finish, RxTypeOK, OneReader, EnoughBytes
  <2>2. Receiver!InHandler' = Receiver!InHandler
    BY <1>1 DEF Receiver!finish, Receiver!InHandler
  <2>3. BytesInOrder'
    BY <1>1, <2>2, SameStream DEF Receiver!finish, Receiver!Stream
  <2> QED
    BY <2>1, <2>3
<1>2. CASE Receiver!clear_interrupts
  <2>1. RxTypeOK' /\ OneReader' /\ EnoughBytes'
    BY <1>2, ConcatProperties DEF Receiver!clear_interrupts, RxTypeOK, OneReader, EnoughBytes
  <2>2. Receiver!InHandler = buf /\ Receiver!InHandler' = <<>> /\ delivered' = delivered \o buf
        /\ rx_fifo' = rx_fifo /\ line' = line /\ overrun' = overrun
    BY <1>2 DEF Receiver!clear_interrupts, Receiver!InHandler
  <2>3. Receiver!Stream' = Receiver!Stream
    <3>1. (delivered \o buf) \o <<>> = delivered \o buf
      BY ConcatEmptySeq, ConcatProperties DEF RxTypeOK
    <3> QED
      BY <2>2, <3>1 DEF Receiver!Stream
  <2>4. BytesInOrder'
    BY <2>2, <2>3, SameStream
  <2> QED
    BY <2>1, <2>4
<1>3. CASE Receiver!expire
  <2>1. RxTypeOK' /\ OneReader' /\ EnoughBytes'
    BY <1>3 DEF Receiver!expire, RxTypeOK, OneReader, EnoughBytes, Receiver!unchecked
  <2>2. Receiver!InHandler' = Receiver!InHandler
    BY <1>3 DEF Receiver!expire, Receiver!InHandler
  <2>3. BytesInOrder'
    BY <1>3, <2>2, SameStream DEF Receiver!expire, Receiver!Stream
  <2> QED
    BY <2>1, <2>3
<1> QED
  BY <1>1, <1>2, <1>3

(* A sequence is its first elements and then the others.                   *)
LEMMA Split ==
  ASSUME NEW f \in Seq(Nat), NEW n \in 1 .. Len(f)
  PROVE  /\ SubSeq(f, 1, n) \in Seq(Nat) /\ SubSeq(f, n + 1, Len(f)) \in Seq(Nat)
         /\ Len(SubSeq(f, n + 1, Len(f))) = Len(f) - n
         /\ SubSeq(f, 1, n) \o SubSeq(f, n + 1, Len(f)) = f
<1> DEFINE a == SubSeq(f, 1, n)
           b == SubSeq(f, n + 1, Len(f))
<1>1. /\ Len(f) \in Nat /\ n \in Nat /\ n <= Len(f)
      /\ a \in Seq(Nat) /\ Len(a) = n /\ \A i \in 1 .. n : a[i] = f[i]
  BY SubSeqProperties
<1>2. /\ b \in Seq(Nat) /\ Len(b) = Len(f) - n
      /\ \A i \in 1 .. Len(f) - n : b[i] = f[n + i]
  BY <1>1
<1>3. /\ a \o b \in Seq(Nat) /\ Len(a \o b) = Len(f)
      /\ \A i \in 1 .. Len(f) : (a \o b)[i] = IF i <= n THEN a[i] ELSE b[i - n]
  <2> HIDE DEF a, b
  <2>1. a \in Seq(Nat) /\ b \in Seq(Nat) /\ Len(a) + Len(b) = Len(f) /\ Len(a) = n
    BY <1>1, <1>2
  <2>2. /\ a \o b \in Seq(Nat) /\ Len(a \o b) = Len(a) + Len(b)
        /\ \A i \in 1 .. Len(a) + Len(b) :
              (a \o b)[i] = IF i <= Len(a) THEN a[i] ELSE b[i - Len(a)]
    BY <2>1, ConcatProperties
  <2> QED
    BY <2>1, <2>2
<1>4. \A i \in 1 .. Len(f) : (a \o b)[i] = f[i]
  <2> HIDE DEF a, b
  <2> SUFFICES ASSUME NEW i \in 1 .. Len(f) PROVE (a \o b)[i] = f[i]
    OBVIOUS
  <2>1. CASE i <= n
    <3>1. i \in 1 .. n
      BY <1>1, <2>1
    <3> QED
      BY <1>1, <1>3, <2>1, <3>1
  <2>2. CASE ~ (i <= n)
    <3>1. i - n \in 1 .. Len(f) - n /\ n + (i - n) = i /\ ~ (i <= n)
      BY <1>1, <2>2
    <3> QED
      BY <1>2, <1>3, <3>1
  <2> QED
    BY <2>1, <2>2
<1>5. a \o b = f
  <2> HIDE DEF a, b
  <2> QED
    BY <1>3, <1>4, SeqEqual
<1> QED
  BY <1>1, <1>2, <1>5

LEMMA RxBlocking ==
  ASSUME RxInv, Receiver!read_blocking PROVE RxInv'
<1> USE DEF RxInv
<1>1. /\ ~ rx_enabled /\ rx_handler = "none"
      /\ UNCHANGED <<rx_mode, rx_enabled, rx_handler, line, overrun, rx_isr, buf, rx_copy>>
  BY DEF Receiver!read_blocking, OneReader, RxTypeOK
<1>2. PICK n \in 1 .. Len(rx_fifo) :
         /\ delivered' = delivered \o SubSeq(rx_fifo, 1, n)
         /\ rx_fifo' = SubSeq(rx_fifo, n + 1, Len(rx_fifo))
  BY DEF Receiver!read_blocking
<1> DEFINE a == SubSeq(rx_fifo, 1, n)
<1>3. /\ a \in Seq(Nat) /\ rx_fifo' \in Seq(Nat) /\ Len(rx_fifo') = Len(rx_fifo) - n
      /\ a \o rx_fifo' = rx_fifo /\ delivered' = delivered \o a
      /\ delivered \in Seq(Nat) /\ rx_fifo \in Seq(Nat) /\ Len(rx_fifo) \in Nat
  <2>1. delivered \in Seq(Nat) /\ rx_fifo \in Seq(Nat) /\ Len(rx_fifo) \in Nat
    BY DEF RxTypeOK
  <2>2. /\ a \in Seq(Nat) /\ SubSeq(rx_fifo, n + 1, Len(rx_fifo)) \in Seq(Nat)
        /\ Len(SubSeq(rx_fifo, n + 1, Len(rx_fifo))) = Len(rx_fifo) - n
        /\ a \o SubSeq(rx_fifo, n + 1, Len(rx_fifo)) = rx_fifo
    BY <2>1, Split
  <2> QED
    BY <1>2, <2>1, <2>2
<1> HIDE DEF a
<1>4. RxTypeOK' /\ OneReader' /\ EnoughBytes'
  <2>1. delivered' \in Seq(Nat)
    BY <1>3, ConcatProperties
  <2> QED
    BY <1>1, <1>3, <2>1 DEF RxTypeOK, OneReader, EnoughBytes, Receiver!UartRxAssumption
<1>5. Receiver!Stream' = Receiver!Stream
  <2>1. /\ Receiver!InHandler = <<>> /\ Receiver!InHandler' = <<>>
    BY <1>1 DEF Receiver!InHandler
  <2>2. delivered' \in Seq(Nat)
    BY <1>3, ConcatProperties
  <2>3. delivered \o <<>> = delivered /\ delivered' \o <<>> = delivered'
    BY <1>3, <2>2, ConcatEmptySeq
  <2>4. delivered' \o rx_fifo' = delivered \o rx_fifo
    <3>0. delivered \in Seq(Nat) /\ a \in Seq(Nat) /\ rx_fifo' \in Seq(Nat)
      BY <1>3
    <3>1. (delivered \o a) \o rx_fifo' = delivered \o (a \o rx_fifo')
      BY <3>0, Associative
    <3> QED
      BY <1>3, <3>1
  <2> QED
    BY <2>1, <2>3, <2>4 DEF Receiver!Stream
<1>6. BytesInOrder'
  BY <1>1, <1>5, SameStream
<1> QED
  BY <1>4, <1>6

LEMMA RxArrive ==
  ASSUME RxInv, Receiver!arrive PROVE RxInv'
<1> USE DEF RxInv
<1>0. /\ line \in Nat /\ line' = line + 1 /\ overrun \subseteq 1 .. line
      /\ rx_fifo \in Seq(Nat) /\ Len(rx_fifo) \in Nat /\ Len(rx_fifo) <= RX_DEPTH
      /\ UNCHANGED <<rx_mode, rx_enabled, rx_handler, rx_copy, buf, delivered>>
  BY DEF Receiver!arrive, RxTypeOK
<1>1. Receiver!InHandler' = Receiver!InHandler
  BY <1>0 DEF Receiver!InHandler
<1>2. CASE Len(rx_fifo) = RX_DEPTH
  <2>1. /\ overrun' = overrun \cup {line + 1} /\ rx_fifo' = rx_fifo
        /\ rx_isr' = rx_isr \cup {"rx_over"}
    BY <1>2 DEF Receiver!arrive
  <2>2. RxTypeOK' /\ OneReader' /\ EnoughBytes'
    BY <1>0, <2>1 DEF RxTypeOK, OneReader, EnoughBytes, Receiver!unchecked
  <2>3. Receiver!Stream' = Receiver!Stream /\ 1 .. line' \ overrun' = 1 .. line \ overrun
    BY <1>0, <1>1, <2>1 DEF Receiver!Stream
  <2>4. BytesInOrder'
    BY <2>3 DEF BytesInOrder, Receiver!BytesInOrder
  <2> QED
    BY <2>2, <2>4
<1>3. CASE Len(rx_fifo) # RX_DEPTH
  <2>1. overrun' = overrun /\ rx_fifo' = Append(rx_fifo, line + 1)
        /\ rx_isr' = rx_isr \cup (IF Len(rx_fifo') = RX_DEPTH THEN {"rx_full"} ELSE {})
                            \cup (IF Len(rx_fifo') = RX_TRIGGER THEN {"rx_trg"} ELSE {})
    BY <1>3 DEF Receiver!arrive
  <2>2. rx_fifo' \in Seq(Nat) /\ Len(rx_fifo') = Len(rx_fifo) + 1
    BY <1>0, <2>1, AppendProperties
  <2>3. RxTypeOK'
    BY <1>0, <1>3, <2>1, <2>2 DEF RxTypeOK, Receiver!UartRxAssumption
  <2>4. OneReader'
    BY <1>0 DEF OneReader
  <2>5. EnoughBytes'
    <3>1. ("rx_full" \in rx_isr' => "rx_full" \in rx_isr \/ Len(rx_fifo') = RX_DEPTH)
          /\ ("rx_trg" \in rx_isr' => "rx_trg" \in rx_isr \/ Len(rx_fifo') = RX_TRIGGER)
      BY <2>1
    <3>2. /\ Receiver!unchecked' = Receiver!unchecked /\ Receiver!unchecked \in Nat
          /\ rx_handler = "read" => Len(buf) \in Nat
      BY <1>0 DEF Receiver!unchecked, RxTypeOK, Receiver!UartRxAssumption
    <3> QED
      BY <1>0, <2>2, <3>1, <3>2 DEF EnoughBytes, Receiver!UartRxAssumption
  <2>6. Receiver!Stream' = Append(Receiver!Stream, line + 1)
    <3> DEFINE p == delivered \o Receiver!InHandler
    <3>1. p \in Seq(Nat) /\ Receiver!Stream = p \o rx_fifo
      BY StreamAt, ConcatProperties DEF RxTypeOK, Receiver!Stream
    <3>2. Receiver!Stream' = p \o Append(rx_fifo, line + 1)
      BY <1>0, <1>1, <2>1 DEF Receiver!Stream
    <3> HIDE DEF p
    <3>3. p \o Append(rx_fifo, line + 1) = Append(p \o rx_fifo, line + 1)
      BY <1>0, <3>1
    <3> QED
      BY <3>1, <3>2, <3>3
  <2>7. BytesInOrder'
    <3> DEFINE s == Receiver!Stream
    <3>1. Sorted(s) /\ Bytes(s) = 1 .. line \ overrun /\ s \in Seq(Nat) /\ line + 1 \in Nat
          /\ \A x \in Bytes(s) : x < line + 1
      BY <1>0, OrderBySorted, StreamAt
    <3> HIDE DEF s
    <3>2. Sorted(Append(s, line + 1)) /\ Bytes(Append(s, line + 1)) = Bytes(s) \cup {line + 1}
      BY <3>1, SortedAppend
    <3>3. Bytes(s) \cup {line + 1} = 1 .. line' \ overrun'
      BY <1>0, <2>1, <3>1
    <3>4. Sorted(Receiver!Stream') /\ Bytes(Receiver!Stream') = 1 .. line' \ overrun'
      BY <2>6, <3>2, <3>3 DEF s
    <3> QED
      BY <3>4 DEF BytesInOrder, Receiver!BytesInOrder, Sorted, Bytes
  <2> QED
    BY <2>3, <2>4, <2>5, <2>7
<1> QED
  BY <1>2, <1>3

LEMMA RxStep == RxInv /\ [Receiver!RxNext]_(Receiver!rxVars) => RxInv'
<1> SUFFICES ASSUME RxInv, [Receiver!RxNext]_(Receiver!rxVars) PROVE RxInv'
  OBVIOUS
<1>1. CASE UNCHANGED Receiver!rxVars
  <2>1. Receiver!InHandler' = Receiver!InHandler /\ Receiver!unchecked' = Receiver!unchecked
    BY <1>1 DEF Receiver!rxVars, Receiver!InHandler, Receiver!unchecked
  <2>2. RxTypeOK' /\ OneReader' /\ EnoughBytes'
    BY <1>1, <2>1 DEF RxInv, RxTypeOK, OneReader, EnoughBytes, Receiver!rxVars
  <2>3. BytesInOrder'
    BY <1>1, <2>1, SameStream DEF RxInv, Receiver!rxVars, Receiver!Stream
  <2> QED
    BY <2>2, <2>3 DEF RxInv
<1> QED
  BY <1>1, RxStart, RxEnter, RxReads, RxEnds, RxBlocking, RxArrive
  DEF Receiver!RxNext, Receiver!Receiver

THEOREM RxInvariant == Receiver!RxSpec => []RxInv
BY RxInitHolds, RxStep, PTL DEF Receiver!RxSpec

(* The receiver hands over the bytes that arrived, each once and in order, *)
(* but for those the FIFO had no room for, and reads none from an empty    *)
(* FIFO, though it reads as many as its copy of the events promises        *)
(* without a look at it and bytes arrive in between.                       *)
THEOREM BytesStayInOrder == Receiver!RxSpec => []BytesInOrder
BY RxInvariant, PTL DEF RxInv

-----------------------------------------------------------------------------
(* The logger.                                                             *)
Piece == Nat \X Nat

LogTypeOK ==
  /\ lens \in Seq(Nat) /\ frame_queue \in Seq(Nat) /\ frame_len \in Nat
  /\ Len(frame_queue) <= FRAMES /\ Len(sent) <= Len(lens)
  /\ ring_buf \in Seq(Piece) /\ log_buf \in [1 .. BUF -> Piece] /\ sent \in Seq(Seq(Piece))
  /\ reader \in {"receive", "read", "write", "panic"}

(* The ring holds the messages from m on, each whole and in order: o says  *)
(* where each begins.                                                      *)
Begin(m, o) ==
  /\ o \in [m .. Len(lens) + 1 -> Nat]
  /\ o[m] = 0 /\ o[Len(lens) + 1] = Len(ring_buf)
  /\ \A j, k \in m .. Len(lens) + 1 : j <= k => o[j] <= o[k]
  /\ \A k \in m .. Len(lens) :
        /\ o[k + 1] = o[k] + lens[k]
        /\ \A i \in 1 .. lens[k] : ring_buf[o[k] + i] = <<k, i>>
RingHolds(m) == m \in 1 .. Len(lens) + 1 /\ \E o : Begin(m, o)

(* The queue holds their lengths.                                          *)
QueueHolds(m) ==
  /\ m \in 1 .. Len(lens) + 1 /\ Len(frame_queue) = Len(lens) - m + 1
  /\ \A i \in 1 .. Len(frame_queue) : frame_queue[i] = lens[m - 1 + i]

(* Where the reader is: m is the next message after those it has written.  *)
ReaderAt(m) ==
  /\ m = Len(sent) + 1
  /\ reader = "receive" => RingHolds(m) /\ QueueHolds(m)
  /\ reader = "read" => RingHolds(m) /\ QueueHolds(m + 1) /\ frame_len = lens[m]
  /\ reader = "write" =>
       /\ QueueHolds(m + 1) /\ frame_len = lens[m]
       /\ frame_len <= BUF => /\ RingHolds(m + 1)
                              /\ \A i \in 1 .. frame_len : log_buf[i] = <<m, i>>

LogInv == ~ cut => LogTypeOK /\ Log!FramesIntact /\ \E m \in Nat \ {0} : ReaderAt(m)

LEMMA LogInit == Log!Init => LogInv
<1> SUFFICES ASSUME Log!Init  PROVE LogInv
  OBVIOUS
<1>1. LogTypeOK
  <2>1. Log!blank \in Piece
    BY DEF Piece, Log!blank
  <2>2. FRAMES \in Nat
    BY MCUartAssumption DEF Log!LogAssumption
  <2> QED  BY <2>1, <2>2 DEF Log!Init, LogTypeOK
<1>2. /\ lens = <<>> /\ sent = <<>> /\ ring_buf = <<>> /\ frame_queue = <<>>
      /\ reader = "receive"
  BY DEF Log!Init
<1>3. RingHolds(1)
  <2>1. Begin(1, [k \in 1 .. 1 |-> 0])
    BY <1>2 DEF Begin
  <2> QED  BY <1>2, <2>1 DEF RingHolds
<1>4. QueueHolds(1)
  BY <1>2 DEF QueueHolds
<1>5. ReaderAt(1)
  BY <1>2, <1>3, <1>4 DEF ReaderAt
<1> QED  BY <1>1, <1>2, <1>5 DEF LogInv, Log!FramesIntact

(* What was pushed comes last, whole because there was room.               *)
LEMMA LogPushes ==
  ASSUME LogTypeOK, NEW len \in 1 .. MaxMsgLen, Log!log(len), ~ cut'
  PROVE  /\ ~ cut /\ LogTypeOK' /\ Len(lens') = Len(lens) + 1 /\ lens'[Len(lens) + 1] = len
         /\ \A k \in 1 .. Len(lens) : lens'[k] = lens[k]
         /\ \A m : RingHolds(m) => RingHolds(m)'
         /\ \A m : QueueHolds(m) => QueueHolds(m)'
<1> DEFINE n == Len(lens)  msg == Log!message(n + 1, len)
<1>0. LogTypeOK /\ len \in Nat /\ n \in Nat /\ RING \in Nat /\ Len(ring_buf) \in Nat
  BY MCUartAssumption DEF LogTypeOK, Log!LogAssumption
<1>1. ~ cut /\ len <= RING - Len(ring_buf) /\ Len(frame_queue) # FRAMES
  <2>1. ~ (cut \/ len > Log!free \/ Len(frame_queue) = FRAMES)
    BY Zenon DEF Log!log
  <2>2. ~ (len > RING - Len(ring_buf))
    BY <2>1 DEF Log!free
  <2> QED  BY <1>0, <2>1, <2>2
<1>2. msg \in Seq(Piece) /\ Len(msg) = len /\ \A i \in 1 .. len : msg[i] = <<n + 1, i>>
  BY <1>0 DEF Log!message, Piece
<1>3. lens' = Append(lens, len) /\ lens' \in Seq(Nat)
  BY <1>0 DEF Log!log, LogTypeOK
<1>4. Len(lens') = n + 1 /\ lens'[n + 1] = len /\ \A k \in 1 .. n : lens'[k] = lens[k]
  BY <1>0, <1>3 DEF LogTypeOK
<1>5. ring_buf' = ring_buf \o msg
  <2>1. ring_buf' = ring_buf \o SubSeq(msg, 1, Log!smaller(Len(msg), Log!free))
    BY DEF Log!log, Log!push_slice
  <2>2. Log!smaller(Len(msg), Log!free) = len
    BY <1>0, <1>1, <1>2 DEF Log!smaller, Log!free
  <2> HIDE DEF msg
  <2>3. SubSeq(msg, 1, len) = msg
    BY <1>0, <1>2
  <2> QED  BY <2>1, <2>2, <2>3
<1> HIDE DEF msg
<1>6. /\ ring_buf' \in Seq(Piece) /\ Len(ring_buf') = Len(ring_buf) + len
      /\ \A i \in 1 .. Len(ring_buf) : ring_buf'[i] = ring_buf[i]
      /\ \A i \in 1 .. len : ring_buf'[Len(ring_buf) + i] = <<n + 1, i>>
  <2>1. ring_buf \in Seq(Piece)
    BY <1>0 DEF LogTypeOK
  <2>2. /\ ring_buf \o msg \in Seq(Piece) /\ Len(ring_buf \o msg) = Len(ring_buf) + Len(msg)
        /\ \A i \in 1 .. Len(ring_buf) + Len(msg) :
              (ring_buf \o msg)[i] =
                IF i <= Len(ring_buf) THEN ring_buf[i] ELSE msg[i - Len(ring_buf)]
    BY <1>2, <2>1, ConcatProperties
  <2>3. \A i \in 1 .. len : ring_buf'[Len(ring_buf) + i] = <<n + 1, i>>
    <3>1. SUFFICES ASSUME NEW i \in 1 .. len  PROVE ring_buf'[Len(ring_buf) + i] = <<n + 1, i>>
      OBVIOUS
    <3>2. /\ Len(ring_buf) + i \in 1 .. Len(ring_buf) + Len(msg)
          /\ ~ (Len(ring_buf) + i <= Len(ring_buf))
          /\ Len(ring_buf) + i - Len(ring_buf) = i
      BY <1>0, <1>2
    <3> QED  BY <1>2, <1>5, <2>2, <3>2
  <2> QED  BY <1>0, <1>2, <1>5, <2>2, <2>3
<1>7. FRAMES \in Nat /\ frame_queue \in Seq(Nat)
  BY MCUartAssumption DEF LogTypeOK, Log!LogAssumption
<1>8. frame_queue' = Append(frame_queue, len) /\ frame_queue' \in Seq(Nat)
      /\ Len(frame_queue') <= FRAMES
  <2>1. Len(frame_queue) < FRAMES
    BY <1>0, <1>1, <1>7 DEF LogTypeOK
  <2> QED  BY <1>0, <1>7, <2>1 DEF Log!log, Log!try_send
<1>9. LogTypeOK'
  <2>1. sent' = sent /\ Len(sent) <= n /\ sent \in Seq(Seq(Piece))
    BY <1>0 DEF LogTypeOK, Log!log
  <2>2. Len(sent') <= Len(lens')
    BY <1>0, <1>4, <2>1
  <2> QED  BY <1>3, <1>6, <1>8, <2>1, <2>2 DEF LogTypeOK, Log!log
<1>10. ASSUME NEW m, RingHolds(m)  PROVE RingHolds(m)'
  <2>1. PICK o : Begin(m, o)
    BY <1>10 DEF RingHolds
  <2>2. m \in 1 .. n + 1
    BY <1>10 DEF RingHolds
  <2>3. /\ o \in [m .. n + 1 -> Nat] /\ o[m] = 0 /\ o[n + 1] = Len(ring_buf)
        /\ \A j, k \in m .. n + 1 : j <= k => o[j] <= o[k]
        /\ \A k \in m .. n : /\ o[k + 1] = o[k] + lens[k]
                             /\ \A i \in 1 .. lens[k] : ring_buf[o[k] + i] = <<k, i>>
    BY <2>1 DEF Begin
  <2>4. PICK p \in [m .. n + 2 -> Nat] :
          p[n + 2] = o[n + 1] + len /\ \A k \in m .. n + 1 : p[k] = o[k]
    <3> DEFINE p == [k \in m .. n + 2 |-> IF k <= n + 1 THEN o[k] ELSE o[n + 1] + len]
    <3>1. /\ p \in [m .. n + 2 -> Nat] /\ p[n + 2] = o[n + 1] + len
          /\ \A k \in m .. n + 1 : p[k] = o[k]
      BY <1>0, <2>2, <2>3
    <3> QED  BY <3>1
  <2>5. p[m] = 0 /\ p[n + 2] = Len(ring_buf')
    BY <1>0, <1>6, <2>2, <2>3, <2>4
  <2>6. ASSUME NEW j \in m .. n + 2, NEW k \in m .. n + 2, j <= k  PROVE p[j] <= p[k]
    <3>1. CASE k <= n + 1
      BY <1>0, <2>2, <2>3, <2>4, <2>6, <3>1
    <3>2. CASE k = n + 2 /\ j <= n + 1
      <4>1. o[j] <= o[n + 1] /\ p[j] = o[j] /\ o[j] \in Nat /\ o[n + 1] \in Nat
        BY <1>0, <2>2, <2>3, <2>4, <3>2
      <4> QED  BY <1>0, <2>4, <3>2, <4>1
    <3>3. CASE k = n + 2 /\ j = n + 2
      BY <2>4, <3>3
    <3> QED  BY <1>0, <2>2, <2>6, <3>1, <3>2, <3>3
  <2>7. ASSUME NEW k \in m .. n + 1
        PROVE  /\ p[k + 1] = p[k] + lens'[k]
               /\ \A i \in 1 .. lens'[k] : ring_buf'[p[k] + i] = <<k, i>>
    <3>1. CASE k <= n
      <4>1. k \in m .. n /\ k + 1 \in m .. n + 1 /\ lens'[k] = lens[k] /\ k \in m .. n + 1
        BY <1>0, <1>4, <2>2, <3>1
      <4>2. p[k + 1] = p[k] + lens'[k] /\ o[k + 1] = o[k] + lens[k]
        BY <2>3, <2>4, <4>1
      <4>3. o[k + 1] <= Len(ring_buf) /\ o[k] \in Nat /\ lens[k] \in Nat
        <5>1. k \in 1 .. n /\ n + 1 \in m .. n + 1 /\ k + 1 <= n + 1
          BY <1>0, <2>2, <4>1
        <5>2. lens \in Seq(Nat)
          BY <1>0 DEF LogTypeOK
        <5>3. o[k + 1] <= o[n + 1]
          BY <2>3, <4>1, <5>1
        <5> QED  BY <2>3, <4>1, <5>1, <5>2, <5>3
      <4>4. ASSUME NEW i \in 1 .. lens[k]  PROVE ring_buf'[o[k] + i] = <<k, i>>
        <5>1. o[k] + i \in 1 .. Len(ring_buf)
          BY <1>0, <4>2, <4>3
        <5>2. ring_buf[o[k] + i] = <<k, i>>
          BY <2>3, <4>1
        <5> QED  BY <1>6, <5>1, <5>2
      <4> QED  BY <2>4, <4>1, <4>2, <4>4
    <3>2. CASE k = n + 1
      <4>1. p[k] = Len(ring_buf) /\ lens'[k] = len /\ p[k + 1] = Len(ring_buf) + len
        BY <1>0, <1>4, <2>2, <2>3, <2>4, <3>2
      <4> QED  BY <1>6, <3>2, <4>1
    <3> QED  BY <1>0, <2>2, <3>1, <3>2
  <2>8. Begin(m, p)'
    <3>1. Len(lens') + 1 = n + 2 /\ m .. Len(lens') = m .. n + 1
      BY <1>0, <1>4
    <3> QED  BY <2>4, <2>5, <2>6, <2>7, <3>1 DEF Begin
  <2> QED  BY <1>0, <1>4, <2>2, <2>8 DEF RingHolds
<1>11. ASSUME NEW m, QueueHolds(m)  PROVE QueueHolds(m)'
  <2>1. m \in 1 .. n + 1 /\ Len(frame_queue) = n - m + 1
    BY <1>11 DEF QueueHolds
  <2>2. /\ Len(frame_queue') = Len(frame_queue) + 1 /\ frame_queue'[Len(frame_queue) + 1] = len
        /\ \A i \in 1 .. Len(frame_queue) : frame_queue'[i] = frame_queue[i]
    BY <1>0, <1>7, <1>8
  <2>3. ASSUME NEW i \in 1 .. Len(frame_queue')  PROVE frame_queue'[i] = lens'[m - 1 + i]
    <3>1. CASE i = Len(frame_queue) + 1
      BY <1>0, <1>4, <2>1, <2>2, <3>1
    <3>2. CASE i \in 1 .. Len(frame_queue)
      <4>1. m - 1 + i \in 1 .. n /\ frame_queue[i] = lens[m - 1 + i]
        BY <1>0, <1>11, <2>1, <3>2 DEF QueueHolds
      <4> QED  BY <1>4, <2>2, <3>2, <4>1
    <3> QED  BY <1>7, <2>2, <3>1, <3>2
  <2> QED  BY <1>0, <1>4, <2>1, <2>2, <2>3 DEF QueueHolds
<1> QED  BY <1>1, <1>4, <1>9, <1>10, <1>11

LEMMA LogLogs ==
  ASSUME LogInv, NEW len \in 1 .. MaxMsgLen, Log!log(len)
  PROVE  LogInv'
<1> SUFFICES ASSUME ~ cut'
             PROVE  LogInv'
  BY DEF LogInv
<1>1. ~ cut
  BY Zenon DEF Log!log
<1>2. /\ LogTypeOK' /\ Len(lens') = Len(lens) + 1 /\ \A k \in 1 .. Len(lens) : lens'[k] = lens[k]
      /\ \A m : RingHolds(m) => RingHolds(m)'
      /\ \A m : QueueHolds(m) => QueueHolds(m)'
  BY <1>1, LogPushes DEF LogInv
<1>3. UNCHANGED <<log_buf, frame_len, reader, sent>>
  BY DEF Log!log
<1>4. PICK m \in Nat \ {0} : ReaderAt(m)
  BY <1>1 DEF LogInv
<1>5. lens \in Seq(Nat) /\ sent \in Seq(Seq(Piece)) /\ Len(sent) <= Len(lens)
  <2>1. lens \in Seq(Nat) /\ sent \in Seq(Seq(Piece))
    BY <1>1 DEF LogInv, LogTypeOK
  <2> QED  BY <1>1, <2>1 DEF LogInv, LogTypeOK
<1>6. Log!FramesIntact'
  <2>1. \A k \in 1 .. Len(sent) : sent[k] = Log!message(k, lens[k])
    BY <1>1, <1>5 DEF LogInv, Log!FramesIntact
  <2>2. \A k \in 1 .. Len(sent) : lens'[k] = lens[k]
    <3>1. 1 .. Len(sent) \subseteq 1 .. Len(lens)
      BY <1>5
    <3> QED  BY <1>2, <3>1
  <2>3. ASSUME NEW k \in DOMAIN sent'  PROVE sent'[k] = Log!message(k, lens'[k])
    <3>1. k \in 1 .. Len(sent) /\ sent'[k] = sent[k]
      BY <1>3, <1>5
    <3> QED  BY <2>1, <2>2, <3>1
  <2> QED  BY <2>3 DEF Log!FramesIntact, Log!message
<1>7. reader \in {"read", "write"} => lens'[m] = lens[m]
  <2>1. reader \in {"read", "write"} => m \in 1 .. Len(lens)
    BY <1>4, <1>5 DEF ReaderAt, QueueHolds
  <2> QED  BY <1>2, <2>1
<1>8. ReaderAt(m)'
  BY <1>2, <1>3, <1>4, <1>7 DEF ReaderAt
<1> QED  BY <1>2, <1>6, <1>8 DEF LogInv

LEMMA RingKept ==
  ASSUME UNCHANGED <<ring_buf, lens>>, NEW m, RingHolds(m)
  PROVE  RingHolds(m)'
<1>1. PICK o : Begin(m, o)
  BY DEF RingHolds
<1>2. Begin(m, o)'
  BY <1>1 DEF Begin
<1> QED  BY <1>2 DEF RingHolds

LEMMA QueueKept ==
  ASSUME UNCHANGED <<frame_queue, lens>>, NEW m, QueueHolds(m)
  PROVE  QueueHolds(m)'
BY DEF QueueHolds

LEMMA LogReceives ==
  ASSUME LogInv, Log!receive
  PROVE  LogInv'
<1> SUFFICES ASSUME ~ cut, ~ cut'  PROVE LogInv'
  BY DEF LogInv, Log!receive
<1>1. /\ reader = "receive" /\ frame_queue # <<>> /\ reader' = "read"
      /\ frame_len' = Head(frame_queue) /\ frame_queue' = Tail(frame_queue)
      /\ UNCHANGED <<ring_buf, log_buf, lens, cut, sent>>
  BY DEF Log!receive
<1> PICK m \in Nat \ {0} : ReaderAt(m)
  BY DEF LogInv
<1>2. LogTypeOK /\ Log!FramesIntact /\ RingHolds(m) /\ QueueHolds(m) /\ m = Len(sent) + 1
  BY <1>1 DEF LogInv, ReaderAt
<1>3. frame_queue \in Seq(Nat) /\ lens \in Seq(Nat) /\ FRAMES \in Nat /\ sent \in Seq(Seq(Piece))
  BY <1>2, MCUartAssumption DEF LogTypeOK, Log!LogAssumption
<1>4. /\ Head(frame_queue) \in Nat /\ Tail(frame_queue) \in Seq(Nat)
      /\ Len(frame_queue) \in Nat \ {0} /\ Len(Tail(frame_queue)) = Len(frame_queue) - 1
      /\ \A i \in 1 .. Len(frame_queue) - 1 : Tail(frame_queue)[i] = frame_queue[i + 1]
      /\ Head(frame_queue) = frame_queue[1]
  BY <1>1, <1>3
<1>5. LogTypeOK'
  BY <1>1, <1>2, <1>3, <1>4 DEF LogTypeOK
<1>6. Len(lens) \in Nat
  BY <1>3
<1>7. m \in 1 .. Len(lens) + 1 /\ Len(frame_queue) = Len(lens) - m + 1
  BY <1>2 DEF QueueHolds
<1>8. frame_len' = lens[m]
  <2>1. frame_queue[1] = lens[m - 1 + 1]
    BY <1>2, <1>4 DEF QueueHolds
  <2> QED  BY <1>1, <1>4, <1>6, <2>1
<1>9. QueueHolds(m + 1)'
  <2>1. ASSUME NEW i \in 1 .. Len(frame_queue) - 1
        PROVE  frame_queue'[i] = lens[m + 1 - 1 + i]
    <3>0. i + 1 \in 1 .. Len(frame_queue)
      BY <1>4
    <3>1. frame_queue[i + 1] = lens[m - 1 + (i + 1)]
      BY <1>2, <3>0 DEF QueueHolds
    <3>2. m - 1 + (i + 1) = m + 1 - 1 + i
      BY <1>6
    <3> QED  BY <1>1, <1>4, <3>1, <3>2
  <2>2. m + 1 \in 1 .. Len(lens) + 1 /\ Len(frame_queue) - 1 = Len(lens) - (m + 1) + 1
    BY <1>4, <1>6, <1>7
  <2>3. /\ Len(frame_queue') = Len(frame_queue) - 1 /\ lens' = lens
    BY <1>1, <1>4
  <2> QED  BY <2>1, <2>2, <2>3 DEF QueueHolds
<1>10. RingHolds(m)'
  BY <1>1, <1>2, RingKept
<1>11. Log!FramesIntact'
  BY <1>1, <1>2 DEF Log!FramesIntact
<1>12. ReaderAt(m)'
  BY <1>1, <1>2, <1>8, <1>9, <1>10 DEF ReaderAt
<1> QED  BY <1>5, <1>11, <1>12 DEF LogInv

LEMMA Shifted ==
  ASSUME NEW a \in Nat, NEW b \in Nat, NEW c \in Nat, NEW d \in Nat, NEW l \in Nat,
         NEW i \in 1 .. l,
         a + l <= d, b = a - c
  PROVE  b + i \in 1 .. d - c /\ b + i + c = a + i
OBVIOUS

(* What is popped is the message at the head, if the buffer has room.      *)
LEMMA LogReads ==
  ASSUME LogInv, Log!read_next_frame
  PROVE  LogInv'
<1> SUFFICES ASSUME ~ cut, ~ cut'  PROVE LogInv'
  BY DEF LogInv, Log!read_next_frame
<1> DEFINE n == Log!smaller(Log!read_len, Len(ring_buf))
<1>1. /\ reader = "read" /\ reader' = "write"
      /\ log_buf' = [i \in 1 .. BUF |-> IF i <= n THEN ring_buf[i] ELSE log_buf[i]]
      /\ ring_buf' = SubSeq(ring_buf, n + 1, Len(ring_buf))
      /\ UNCHANGED <<frame_queue, frame_len, lens, cut, sent>>
  BY DEF Log!read_next_frame
<1> PICK m \in Nat \ {0} : ReaderAt(m)
  BY DEF LogInv
<1>2. /\ LogTypeOK /\ Log!FramesIntact /\ RingHolds(m) /\ QueueHolds(m + 1) /\ frame_len = lens[m]
      /\ m = Len(sent) + 1
  BY <1>1 DEF LogInv, ReaderAt
<1>3. /\ ring_buf \in Seq(Piece) /\ lens \in Seq(Nat) /\ BUF \in Nat /\ sent \in Seq(Seq(Piece))
      /\ log_buf \in [1 .. BUF -> Piece] /\ frame_len \in Nat
  BY <1>2, MCUartAssumption DEF LogTypeOK, Log!LogAssumption
<1>4. n \in 0 .. Len(ring_buf) /\ n <= BUF /\ n <= frame_len /\ Len(ring_buf) \in Nat
  BY <1>3 DEF Log!smaller, Log!read_len
<1>5. frame_len <= BUF /\ frame_len <= Len(ring_buf) => n = frame_len
  BY <1>3 DEF Log!smaller, Log!read_len
<1> HIDE DEF n
<1>6. /\ ring_buf' \in Seq(Piece) /\ Len(ring_buf') = Len(ring_buf) - n
      /\ \A i \in 1 .. Len(ring_buf) - n : ring_buf'[i] = ring_buf[i + n]
  <2>1. SubSeq(ring_buf, n + 1, Len(ring_buf)) \in Seq(Piece)
    BY <1>3, <1>4, SubSeqProperties
  <2>2. Len(SubSeq(ring_buf, n + 1, Len(ring_buf))) = Len(ring_buf) - n
    BY <1>3, <1>4, SubSeqProperties
  <2>3. ASSUME NEW i \in 1 .. Len(ring_buf) - n
        PROVE  SubSeq(ring_buf, n + 1, Len(ring_buf))[i] = ring_buf[i + n]
    <3>1. n + 1 + i - 1 = i + n
      BY <1>4
    <3> QED  BY <1>3, <1>4, <3>1, SubSeqProperties
  <2> QED  BY <1>1, <2>1, <2>2, <2>3
<1>7. log_buf' \in [1 .. BUF -> Piece]
  <2>1. ASSUME NEW i \in 1 .. BUF  PROVE (IF i <= n THEN ring_buf[i] ELSE log_buf[i]) \in Piece
    <3>1. CASE i <= n
      BY <1>3, <1>4, <3>1
    <3>2. CASE ~ (i <= n)
      BY <1>3, <3>2
    <3> QED  BY <3>1, <3>2
  <2> QED  BY <1>1, <2>1
<1>8. LogTypeOK'
  BY <1>1, <1>2, <1>6, <1>7 DEF LogTypeOK
<1>9. Len(lens) \in Nat
  BY <1>3
<1>10. m + 1 \in 1 .. Len(lens) + 1
  BY <1>2 DEF QueueHolds
<1>11. ASSUME frame_len <= BUF
       PROVE  RingHolds(m + 1)' /\ \A i \in 1 .. frame_len : log_buf'[i] = <<m, i>>
  <2> DEFINE e == Len(lens) + 1
  <2>1. PICK o : Begin(m, o)
    BY <1>2 DEF RingHolds
  <2>2. /\ o \in [m .. e -> Nat] /\ o[m] = 0 /\ o[e] = Len(ring_buf)
        /\ \A j, k \in m .. e : j <= k => o[j] <= o[k]
        /\ \A k \in m .. Len(lens) : /\ o[k + 1] = o[k] + lens[k]
                                     /\ \A i \in 1 .. lens[k] : ring_buf[o[k] + i] = <<k, i>>
    BY <2>1 DEF Begin
  <2>3. m \in m .. Len(lens) /\ m + 1 \in m .. e /\ e \in m .. e /\ m + 1 <= e
    BY <1>9, <1>10
  <2>4. o[m + 1] = frame_len /\ o[m + 1] <= Len(ring_buf)
    <3>1. o[m + 1] = o[m] + lens[m] /\ o[m + 1] <= o[e]
      BY <2>2, <2>3
    <3> QED  BY <1>2, <1>3, <2>2, <3>1
  <2>5. n = frame_len
    BY <1>5, <1>11, <2>4
  <2>6. \A i \in 1 .. frame_len : log_buf'[i] = <<m, i>>
    <3>1. SUFFICES ASSUME NEW i \in 1 .. frame_len  PROVE log_buf'[i] = <<m, i>>
      OBVIOUS
    <3>2. ring_buf[o[m] + i] = <<m, i>>
      BY <1>2, <2>2, <2>3
    <3>3. log_buf'[i] = ring_buf[i]
      BY <1>1, <1>3, <1>11, <2>5
    <3> QED  BY <2>2, <3>2, <3>3
  <2>7. PICK p \in [m + 1 .. e -> Nat] : \A k \in m + 1 .. e : p[k] = o[k] - n
    <3> DEFINE p == [k \in m + 1 .. e |-> o[k] - n]
    <3>1. ASSUME NEW k \in m + 1 .. e  PROVE o[k] - n \in Nat
      <4>1. k \in m .. e /\ m + 1 <= k
        BY <1>9
      <4>2. o[m + 1] <= o[k]
        BY <2>2, <2>3, <4>1
      <4> QED  BY <1>4, <2>2, <2>4, <2>5, <4>1, <4>2
    <3>2. p \in [m + 1 .. e -> Nat] /\ \A k \in m + 1 .. e : p[k] = o[k] - n
      BY <3>1
    <3> HIDE DEF p
    <3> QED  BY <3>2
  <2>8. m + 1 .. e \subseteq m .. e /\ m + 1 .. Len(lens) \subseteq m .. Len(lens)
    BY <1>9
  <2>9. p[m + 1] = 0 /\ p[e] = Len(ring_buf')
    <3>1. p[m + 1] = o[m + 1] - n /\ p[e] = o[e] - n
      <4>1. m + 1 \in m + 1 .. e /\ e \in m + 1 .. e
        BY <1>9, <2>3
      <4> QED  BY <2>7, <4>1
    <3>2. o[m + 1] = n /\ o[e] = Len(ring_buf)
      BY <2>2, <2>4, <2>5
    <3> QED  BY <1>4, <1>6, <3>1, <3>2
  <2>10. ASSUME NEW j \in m + 1 .. e, NEW k \in m + 1 .. e, j <= k  PROVE p[j] <= p[k]
    <3>1. o[j] <= o[k] /\ o[j] \in Nat /\ o[k] \in Nat
      BY <2>2, <2>8, <2>10
    <3> QED  BY <1>4, <2>7, <3>1
  <2>11. ASSUME NEW k \in m + 1 .. Len(lens)
         PROVE  /\ p[k + 1] = p[k] + lens[k]
                /\ \A i \in 1 .. lens[k] : ring_buf'[p[k] + i] = <<k, i>>
    <3>1. /\ k \in m + 1 .. e /\ k + 1 \in m + 1 .. e
          /\ k \in m .. Len(lens) /\ k \in 1 .. Len(lens)
          /\ lens[k] \in Nat
      BY <1>3, <1>9
    <3>2. /\ p[k] = o[k] - n /\ p[k + 1] = o[k + 1] - n /\ o[k + 1] = o[k] + lens[k]
          /\ o[k] \in Nat /\ o[k + 1] <= Len(ring_buf) /\ p[k] \in Nat
      <4>1. o[k + 1] <= o[e] /\ o[k] \in Nat
        <5>1. k \in m .. e /\ k + 1 \in m .. e /\ e \in m .. e
          BY Zenon, <2>3, <2>8, <3>1
        <5>2. k + 1 <= e
          BY <3>1
        <5> HIDE DEF e
        <5> QED  BY <2>2, <5>1, <5>2
      <4> QED  BY <2>2, <2>7, <3>1, <4>1
    <3>3. ASSUME NEW i \in 1 .. lens[k]  PROVE ring_buf'[p[k] + i] = <<k, i>>
      <4>1. ring_buf[o[k] + i] = <<k, i>>
        BY <2>2, <3>1
      <4>2. p[k] + i \in 1 .. Len(ring_buf) - n /\ p[k] + i + n = o[k] + i
        <5>1. /\ n \in Nat /\ o[k] \in Nat /\ lens[k] \in Nat /\ i \in 1 .. lens[k]
              /\ o[k] + lens[k] <= Len(ring_buf) /\ p[k] \in Nat /\ p[k] = o[k] - n
          BY <1>4, <3>1, <3>2
        <5>2. Len(ring_buf) \in Nat
          BY <1>4
        <5>3. \A a, b, c, d, l \in Nat : \A x \in 1 .. l :
                a + l <= d /\ b = a - c => b + x \in 1 .. d - c /\ b + x + c = a + x
          BY Shifted
        <5> DEFINE d == Len(ring_buf)
                   l == lens[k]
                   a == o[k]
                   b == p[k]
        <5>4. /\ a \in Nat /\ b \in Nat /\ n \in Nat /\ d \in Nat /\ l \in Nat /\ i \in 1 .. l
              /\ a + l <= d /\ b = a - n
          BY <5>1, <5>2
        <5> HIDE DEF a, b, d, l, n
        <5>5. b + i \in 1 .. d - n /\ b + i + n = a + i
          BY <5>3, <5>4
        <5> QED  BY <5>5 DEF a, b, d
      <4> QED  BY <1>6, <4>1, <4>2
    <3>4. p[k + 1] = p[k] + lens[k]
      <4>1. n \in Nat /\ o[k] \in Nat /\ lens[k] \in Nat
        BY <1>4, <3>1, <3>2
      <4> QED  BY <3>2, <4>1
    <3> QED  BY <3>3, <3>4
  <2>12. Begin(m + 1, p)'
    BY <1>1, <1>9, <2>7, <2>9, <2>10, <2>11 DEF Begin
  <2>13. RingHolds(m + 1)'
    BY <1>1, <1>9, <1>10, <2>12 DEF RingHolds
  <2> QED  BY <2>6, <2>13
<1>12. QueueHolds(m + 1)'
  BY <1>1, <1>2, QueueKept
<1>13. Log!FramesIntact'
  BY <1>1, <1>2 DEF Log!FramesIntact
<1>14. ReaderAt(m)'
  BY <1>1, <1>2, <1>11, <1>12 DEF ReaderAt
<1> QED  BY <1>8, <1>13, <1>14 DEF LogInv

LEMMA LogWrites ==
  ASSUME LogInv, Log!write
  PROVE  LogInv'
<1> SUFFICES ASSUME ~ cut, ~ cut'  PROVE LogInv'
  BY DEF LogInv, Log!write
<1>1. /\ reader = "write" /\ UNCHANGED <<ring_buf, frame_queue, log_buf, frame_len, lens, cut>>
  BY DEF Log!write
<1> PICK m \in Nat \ {0} : ReaderAt(m)
  BY DEF LogInv
<1>2. /\ LogTypeOK /\ Log!FramesIntact /\ QueueHolds(m + 1)
      /\ frame_len = lens[m] /\ m = Len(sent) + 1
      /\ frame_len <= BUF => /\ RingHolds(m + 1)
                             /\ \A i \in 1 .. frame_len : log_buf[i] = <<m, i>>
  BY <1>1 DEF LogInv, ReaderAt
<1>3. /\ lens \in Seq(Nat) /\ BUF \in Nat /\ sent \in Seq(Seq(Piece))
      /\ log_buf \in [1 .. BUF -> Piece] /\ frame_len \in Nat
  BY <1>2, MCUartAssumption DEF LogTypeOK, Log!LogAssumption
<1>4. CASE frame_len > BUF /\ sent' = sent /\ reader' = "panic"
  <2>1. LogTypeOK'
    BY <1>1, <1>2, <1>4 DEF LogTypeOK
  <2>2. Log!FramesIntact'
    BY <1>1, <1>2, <1>4 DEF Log!FramesIntact
  <2>3. ReaderAt(m)'
    BY <1>2, <1>4 DEF ReaderAt
  <2> QED  BY <2>1, <2>2, <2>3 DEF LogInv
<1>5. CASE /\ frame_len <= BUF /\ sent' = Append(sent, SubSeq(log_buf, 1, frame_len))
           /\ reader' = "receive"
  <2>1. SubSeq(log_buf, 1, frame_len) = Log!message(m, frame_len)
    <3>1. SubSeq(log_buf, 1, frame_len) = [i \in 1 .. frame_len |-> log_buf[i]]
      BY <1>3, <1>5
    <3> QED  BY <1>2, <1>5, <3>1 DEF Log!message
  <2>2. Log!message(m, frame_len) \in Seq(Piece)
    BY <1>3 DEF Log!message, Piece
  <2>3. /\ sent' \in Seq(Seq(Piece)) /\ Len(sent') = m
        /\ sent'[m] = Log!message(m, lens[m]) /\ \A k \in 1 .. Len(sent) : sent'[k] = sent[k]
    <3> DEFINE msg == Log!message(m, frame_len)
    <3>1. sent' = Append(sent, msg) /\ sent \in Seq(Seq(Piece)) /\ msg \in Seq(Piece)
      BY <1>3, <1>5, <2>1, <2>2
    <3> HIDE DEF msg
    <3>2. /\ sent' \in Seq(Seq(Piece)) /\ Len(sent') = Len(sent) + 1 /\ sent'[Len(sent) + 1] = msg
          /\ \A k \in 1 .. Len(sent) : sent'[k] = sent[k]
      BY <3>1
    <3>3. m = Len(sent) + 1 /\ msg = Log!message(m, lens[m])
      BY <1>2 DEF msg
    <3> QED  BY <3>2, <3>3
  <2>4. LogTypeOK'
    <3>1. Len(sent') <= Len(lens)
      BY <1>2, <1>3, <2>3 DEF QueueHolds
    <3> QED  BY <1>1, <1>2, <1>5, <2>3, <3>1 DEF LogTypeOK
  <2>5. Log!FramesIntact'
    <3>1. \A k \in 1 .. Len(sent) : sent[k] = Log!message(k, lens[k])
      BY <1>2, <1>3 DEF Log!FramesIntact
    <3>2. DOMAIN sent' = 1 .. m
      BY <2>3
    <3>3. ASSUME NEW k \in DOMAIN sent'  PROVE sent'[k] = Log!message(k, lens[k])
      <4>1. k = m \/ k \in 1 .. Len(sent)
        BY <1>2, <1>3, <3>2, <3>3
      <4> QED  BY <2>3, <3>1, <4>1
    <3> QED  BY <1>1, <3>3 DEF Log!FramesIntact, Log!message
  <2>6. RingHolds(m + 1)' /\ QueueHolds(m + 1)'
    BY <1>1, <1>2, <1>5, RingKept, QueueKept
  <2>7. ReaderAt(m + 1)'
    BY <1>5, <2>3, <2>6 DEF ReaderAt
  <2> QED  BY <2>4, <2>5, <2>7 DEF LogInv
<1> QED  BY <1>4, <1>5 DEF Log!write

(* What the reader writes is the messages that were logged, each whole, in *)
(* order and once, as long as none was dropped, whatever the sizes of the  *)
(* ring, the queue and its buffer.                                         *)
THEOREM FramesStayIntact == Log!Spec => []Log!FramesIntact
<1>1. LogInv => Log!FramesIntact
  BY DEF LogInv, Log!FramesIntact
<1>2. LogInv /\ [Log!Next]_(Log!vars) => LogInv'
  <2> SUFFICES ASSUME LogInv, [Log!Next]_(Log!vars)  PROVE LogInv'
    OBVIOUS
  <2>1. CASE UNCHANGED Log!vars
    <3> SUFFICES ASSUME ~ cut'  PROVE LogInv'
      BY DEF LogInv
    <3>1. LogTypeOK' /\ Log!FramesIntact'
      BY <2>1 DEF LogInv, LogTypeOK, Log!FramesIntact, Log!vars
    <3>2. PICK m \in Nat \ {0} : ReaderAt(m)
      BY <2>1 DEF LogInv, Log!vars
    <3>3. ReaderAt(m)'
      BY <2>1, <3>2, RingKept, QueueKept DEF ReaderAt, Log!vars
    <3> QED  BY <3>1, <3>3 DEF LogInv
  <2> QED  BY <2>1, LogLogs, LogReceives, LogReads, LogWrites DEF Log!Next, Log!Reader
<1> QED  BY <1>1, <1>2, LogInit, PTL DEF Log!Spec

-----------------------------------------------------------------------------
(* The search for a baud rate.                                             *)
(* A value of bdiv is eligible if the divisor rounded to for it fits its   *)
(* register.                                                               *)
Eligible(b) == Config!cd_of(b) \in 1 .. Config!U16_MAX
ErrorOf(b) == Config!error_of(Config!cd_of(b), b)
TriedNoNearer(b) ==
  \A c \in 4 .. bdiv - 1 : Eligible(c) => ~ Config!smaller_error(ErrorOf(c), ErrorOf(b))

(* The state of the search, and of the set-up that follows it.             *)
RatioOK == ratio \in (Nat \ {0}) \X (Nat \ {0})

NothingFound ==
  /\ best_clk_config = [cd |-> 1, bdiv |-> 0] /\ smallest_error = <<ratio[2], 1>>
  /\ \A c \in 4 .. bdiv - 1 : ~ Eligible(c)
Found ==
  \E b \in 4 .. bdiv - 1 :
    /\ best_clk_config = [cd |-> Config!cd_of(b), bdiv |-> b] /\ smallest_error = ErrorOf(b)
    /\ Eligible(b) /\ TriedNoNearer(b)

SetUpInv ==
  /\ setup \in {"search", "reset", "disabled", "baudgen", "baud_rate_div", "done"}
  /\ setup # "search" => bdiv = 255
  /\ enabled => divisors \in {[cd |-> 0, bdiv |-> 0], best_clk_config}
  /\ setup \in {"search", "reset", "disabled"} => divisors = [cd |-> 0, bdiv |-> 0]
  /\ setup = "baudgen" => divisors = [cd |-> best_clk_config.cd, bdiv |-> 0]
  /\ setup \in {"baud_rate_div", "done"} => divisors = best_clk_config
  /\ setup \in {"disabled", "baudgen", "baud_rate_div"} => ~ enabled

ConfigInv ==
  /\ RatioOK /\ bdiv \in 4 .. 255 /\ (NothingFound \/ Found) /\ SetUpInv

(* Products and fractions.                                                 *)
LEMMA TimesLeq ==
  ASSUME NEW a \in Nat, NEW b \in Nat, NEW c \in Nat, a <= b PROVE a * c <= b * c
OBVIOUS

(* A factor cancels.                                                       *)
LEMMA CancelLeq ==
  ASSUME NEW a \in Nat, NEW b \in Nat, NEW c \in Nat \ {0}, a * c <= b * c PROVE a <= b
<1> SUFFICES ASSUME b + 1 <= a PROVE FALSE
  OBVIOUS
<1>1. (b + 1) * c <= a * c
  BY TimesLeq
<1>2. (b + 1) * c = b * c + c
  OBVIOUS
<1>3. a * c \in Nat /\ b * c \in Nat
  OBVIOUS
<1> QED BY <1>1, <1>2, <1>3

Fraction == Nat \X (Nat \ {0})

(* Not smaller is transitive.                                              *)
LEMMA NotSmallerChain ==
  ASSUME NEW e \in Fraction, NEW s \in Fraction, NEW f \in Fraction,
         ~ Config!smaller_error(s, e), ~ Config!smaller_error(f, s)
  PROVE  ~ Config!smaller_error(f, e)
<1>1. PICK e1 \in Nat, e2 \in Nat \ {0}, s1 \in Nat, s2 \in Nat \ {0}, f1 \in Nat, f2 \in Nat \ {0} :
        e = <<e1, e2>> /\ s = <<s1, s2>> /\ f = <<f1, f2>>
  BY DEF Fraction
<1>2. e1 * s2 <= s1 * e2 /\ s1 * f2 <= f1 * s2
  BY <1>1 DEF Config!smaller_error
<1>3. (e1 * s2) * f2 <= (s1 * e2) * f2 /\ (s1 * f2) * e2 <= (f1 * s2) * e2
  <2>1. e1 * s2 \in Nat /\ s1 * e2 \in Nat /\ s1 * f2 \in Nat /\ f1 * s2 \in Nat
    OBVIOUS
  <2> QED BY <1>2, <2>1, TimesLeq
<1>4. /\ (e1 * s2) * f2 = (e1 * f2) * s2 /\ (s1 * e2) * f2 = (s1 * f2) * e2
      /\ (f1 * s2) * e2 = (f1 * e2) * s2
  OBVIOUS
<1>5. (e1 * f2) * s2 <= (f1 * e2) * s2
  <2>1. (e1 * f2) * s2 \in Nat /\ (f1 * e2) * s2 \in Nat /\ (s1 * f2) * e2 \in Nat
    OBVIOUS
  <2> QED BY <1>3, <1>4, <2>1
<1>6. e1 * f2 <= f1 * e2
  <2>1. e1 * f2 \in Nat /\ f1 * e2 \in Nat
    OBVIOUS
  <2> QED BY <1>5, <2>1, CancelLeq
<1> QED BY <1>1, <1>6 DEF Config!smaller_error

(* The rounded divisor is off by at most half a divisor.                   *)
LEMMA RoundedIsClose ==
  ASSUME NEW R \in Nat, NEW D \in Nat \ {0}, NEW cd \in Nat \ {0}, cd = (2 * R + D) \div (2 * D)
  PROVE  /\ Config!abs(R - D * cd) \in Nat /\ D * cd \in Nat \ {0}
         /\ Config!abs(R - D * cd) < D * cd
<1>1. PICK p \in Nat \ {0} : p = D * cd
  OBVIOUS
<1>2. D <= p
  <2>1. D * 1 <= D * cd
    <3>1. 1 * D <= cd * D
      BY TimesLeq
    <3> QED BY <3>1
  <2> QED BY <1>1, <2>1
<1>3. (2 * D) * cd <= 2 * R + D /\ 2 * R + D < (2 * D) * cd + 2 * D
  <2>1. PICK n \in Nat, d \in Nat \ {0} : n = 2 * R + D /\ d = 2 * D
    OBVIOUS
  <2>2. cd = n \div d
    BY <2>1
  <2>3. n = d * (n \div d) + (n % d) /\ (n % d) \in 0 .. d - 1
    BY <2>1
  <2> QED BY <2>1, <2>2, <2>3
<1>4. (2 * D) * cd = 2 * p
  BY <1>1
<1>5. 2 * (R - p) <= D /\ 2 * (p - R) <= D
  BY <1>3, <1>4
<1> QED BY <1>1, <1>2, <1>5 DEF Config!abs

(* So the error of an eligible bdiv is smaller than the first one, 100 %.  *)
LEMMA ErrorFacts ==
  ASSUME RatioOK, NEW b \in 4 .. 255, Eligible(b)
  PROVE  ErrorOf(b) \in Fraction /\ Config!smaller_error(ErrorOf(b), <<ratio[2], 1>>)
<1>1. PICK R \in Nat \ {0}, s \in Nat \ {0} : ratio = <<R, s>>
  BY DEF RatioOK
<1>2. PICK D \in Nat \ {0} : D = s * (b + 1)
  OBVIOUS
<1>3. Config!divisor(b) = D
  BY <1>1, <1>2 DEF Config!divisor
<1>4. PICK cd \in Nat \ {0} : cd = Config!cd_of(b) /\ cd = (2 * R + D) \div (2 * D)
  BY <1>1, <1>3 DEF Eligible, Config!cd_of
<1>5. ErrorOf(b) = <<Config!abs(R - D * cd), (b + 1) * cd>>
  BY <1>1, <1>3, <1>4 DEF ErrorOf, Config!error_of, Config!deviation
<1>6. /\ Config!abs(R - D * cd) \in Nat /\ D * cd \in Nat \ {0}
      /\ Config!abs(R - D * cd) < D * cd
  BY <1>4, RoundedIsClose
<1>7. PICK x \in Nat, n \in Nat \ {0} : x = Config!abs(R - D * cd) /\ n = (b + 1) * cd
  BY <1>6
<1>8. D * cd = s * n
  BY <1>2, <1>7
<1>9. ErrorOf(b) = <<x, n>> /\ x < s * n
  BY <1>5, <1>6, <1>7, <1>8
<1> QED BY <1>1, <1>9 DEF Fraction, Config!smaller_error

(* The errors depend on the ratio alone.                                   *)
LEMMA SameRatio ==
  ASSUME ratio' = ratio
  PROVE  /\ RatioOK' = RatioOK
         /\ \A b : /\ Config!cd_of(b)' = Config!cd_of(b)
                   /\ ErrorOf(b)' = ErrorOf(b) /\ Eligible(b)' = Eligible(b)
BY DEF RatioOK, ErrorOf, Eligible, Config!cd_of, Config!divisor, Config!error_of,
       Config!deviation

(* A step of the search keeps the nearer one.                              *)
LEMMA SearchStep == ASSUME ConfigInv, Config!search PROVE ConfigInv'
<1>1. /\ setup = "search" /\ bdiv \in 4 .. 254 /\ bdiv' = bdiv + 1
      /\ UNCHANGED <<ratio, setup, divisors, enabled>>
  BY DEF Config!search, ConfigInv, Config!U8_MAX
<1>2. RatioOK'
  BY <1>1 DEF RatioOK, ConfigInv
<1>3. /\ ratio' = ratio
      /\ \A b : /\ Config!cd_of(b)' = Config!cd_of(b)
                /\ ErrorOf(b)' = ErrorOf(b) /\ Eligible(b)' = Eligible(b)
  BY <1>1, SameRatio
<1>4. \A c \in 4 .. bdiv' - 1 : c \in 4 .. bdiv - 1 \/ c = bdiv
  BY <1>1
<1>5. SetUpInv'
  BY <1>1 DEF ConfigInv, SetUpInv
<1>6. CASE Eligible(bdiv) /\ Config!smaller_error(ErrorOf(bdiv), smallest_error)
  <2>1. /\ best_clk_config' = [cd |-> Config!cd_of(bdiv), bdiv |-> bdiv]
        /\ smallest_error' = ErrorOf(bdiv)
    BY <1>6 DEF Config!search, Eligible, ErrorOf
  <2>2. ASSUME NEW c \in 4 .. bdiv' - 1, Eligible(c)
        PROVE  ~ Config!smaller_error(ErrorOf(c), ErrorOf(bdiv))
    <3>1. ErrorOf(c) \in Fraction /\ ErrorOf(bdiv) \in Fraction /\ bdiv \in 4 .. 255 /\ c \in 4 .. 255
      BY <1>1, <1>6, <2>2, ErrorFacts DEF ConfigInv
    <3>2. CASE c = bdiv
      BY <3>1, <3>2 DEF Config!smaller_error, Fraction
    <3>3. CASE c \in 4 .. bdiv - 1
      <4>1. PICK b \in 4 .. bdiv - 1 :
              Eligible(b) /\ smallest_error = ErrorOf(b) /\ ~ Config!smaller_error(ErrorOf(c), ErrorOf(b))
        BY <2>2, <3>3 DEF ConfigInv, NothingFound, Found, TriedNoNearer
      <4>2. ErrorOf(b) \in Fraction
        BY <1>1, <4>1, ErrorFacts DEF ConfigInv
      <4>3. ~ Config!smaller_error(ErrorOf(b), ErrorOf(bdiv))
        <5>1. Config!smaller_error(ErrorOf(bdiv), ErrorOf(b))
          BY <1>6, <4>1
        <5> QED BY <3>1, <4>2, <5>1 DEF Config!smaller_error, Fraction
      <4> QED BY <3>1, <4>1, <4>2, <4>3, NotSmallerChain
    <3> QED BY <1>4, <3>2, <3>3
  <2>3. PICK n \in 4 .. 254 : n = bdiv
    BY <1>1
  <2>4. TriedNoNearer(n)'
    BY <1>3, <2>2, <2>3 DEF TriedNoNearer
  <2>5. /\ n \in 4 .. bdiv' - 1 /\ Eligible(n)'
        /\ best_clk_config' = [cd |-> Config!cd_of(n)', bdiv |-> n] /\ smallest_error' = ErrorOf(n)'
    BY <1>1, <1>3, <1>6, <2>1, <2>3
  <2>6. Found'
    BY <2>4, <2>5, Zenon DEF Found
  <2> QED BY <1>1, <1>2, <1>5, <2>6 DEF ConfigInv
<1>7. CASE ~ (Eligible(bdiv) /\ Config!smaller_error(ErrorOf(bdiv), smallest_error))
  <2>1. best_clk_config' = best_clk_config /\ smallest_error' = smallest_error
    BY <1>7 DEF Config!search, Eligible, ErrorOf
  <2>2. CASE NothingFound
    <3>1. ~ Eligible(bdiv)
      BY <1>1, <1>7, <2>2, ErrorFacts DEF NothingFound, ConfigInv
    <3>2. NothingFound'
      BY <1>3, <1>4, <2>1, <2>2, <3>1 DEF NothingFound
    <3> QED BY <1>1, <1>2, <1>5, <3>2 DEF ConfigInv
  <2>3. CASE Found
    <3>1. PICK b \in 4 .. bdiv - 1 :
            /\ best_clk_config = [cd |-> Config!cd_of(b), bdiv |-> b] /\ smallest_error = ErrorOf(b)
            /\ Eligible(b) /\ TriedNoNearer(b)
      BY <2>3 DEF Found
    <3>2. TriedNoNearer(b)'
      <4>1. \A c \in 4 .. bdiv' - 1 : Eligible(c) => ~ Config!smaller_error(ErrorOf(c), ErrorOf(b))
        BY <1>4, <1>7, <3>1 DEF TriedNoNearer
      <4> QED BY <1>3, <4>1 DEF TriedNoNearer
    <3>3. /\ b \in 4 .. bdiv' - 1 /\ Eligible(b)'
          /\ best_clk_config' = [cd |-> Config!cd_of(b)', bdiv |-> b] /\ smallest_error' = ErrorOf(b)'
      BY <1>1, <1>3, <2>1, <3>1
    <3>4. Found'
      BY <3>2, <3>3, Zenon DEF Found
    <3> QED BY <1>1, <1>2, <1>5, <3>4 DEF ConfigInv
  <2> QED BY <2>2, <2>3 DEF ConfigInv
<1> QED BY <1>6, <1>7

(* The set-up leaves what was found alone.                                 *)
LEMMA SearchStays ==
  ASSUME ConfigInv, UNCHANGED <<ratio, bdiv, best_clk_config, smallest_error>>
  PROVE  RatioOK' /\ bdiv' \in 4 .. 255 /\ (NothingFound \/ Found)'
<1>1. /\ RatioOK' = RatioOK
      /\ \A b : /\ Config!cd_of(b)' = Config!cd_of(b)
                /\ ErrorOf(b)' = ErrorOf(b) /\ Eligible(b)' = Eligible(b)
  BY SameRatio
<1>2. NothingFound => NothingFound'
  BY <1>1 DEF NothingFound
<1>3. Found => Found'
  BY <1>1 DEF Found, TriedNoNearer
<1> QED BY <1>1, <1>2, <1>3 DEF ConfigInv

(* It writes both divisors before it enables the UART.                     *)
LEMMA SetUpStep == ASSUME ConfigInv, Config!set_up PROVE ConfigInv'
<1>1. RatioOK' /\ bdiv' \in 4 .. 255 /\ (NothingFound \/ Found)'
  BY SearchStays DEF Config!set_up
<1>2. \E c, n : best_clk_config = [cd |-> c, bdiv |-> n]
  BY DEF ConfigInv, NothingFound, Found
<1>3. SetUpInv'
  BY <1>2 DEF Config!set_up, Config!new_generic_unchecked, Config!U8_MAX, ConfigInv, SetUpInv
<1> QED BY <1>1, <1>3 DEF ConfigInv

(* What is found is at least as near as all that was tried.                *)
LEMMA FoundIsNearest ==
  ASSUME ConfigInv, setup = "done"
  PROVE  IF \E b \in 4 .. 254 : Eligible(b)
         THEN /\ Config!error_of(divisors.cd, divisors.bdiv) \in Fraction
              /\ \A c \in 4 .. 254 : Eligible(c) =>
                   ~ Config!smaller_error(ErrorOf(c), Config!error_of(divisors.cd, divisors.bdiv))
         ELSE divisors = [cd |-> 1, bdiv |-> 0]
<1>1. bdiv = 255 /\ divisors = best_clk_config
  BY DEF ConfigInv, SetUpInv
<1>2. \A c \in 4 .. 254 : c \in 4 .. bdiv - 1
  BY <1>1
<1>3. CASE NothingFound
  BY <1>1, <1>2, <1>3 DEF NothingFound
<1>4. CASE Found
  <2>1. PICK b \in 4 .. bdiv - 1 :
          /\ best_clk_config = [cd |-> Config!cd_of(b), bdiv |-> b]
          /\ Eligible(b) /\ TriedNoNearer(b)
    BY <1>4 DEF Found
  <2>2. b \in 4 .. 254 /\ Config!error_of(divisors.cd, divisors.bdiv) = ErrorOf(b)
    BY <1>1, <2>1 DEF ErrorOf
  <2>3. ErrorOf(b) \in Fraction
    BY <2>1, <2>2, ErrorFacts DEF ConfigInv
  <2> QED BY <1>2, <2>1, <2>2, <2>3 DEF TriedNoNearer
<1> QED BY <1>3, <1>4 DEF ConfigInv

(* The invariant holds for every ratio.                                    *)
LEMMA ConfigInvHolds ==
  ASSUME Ratios \subseteq (Nat \ {0}) \X (Nat \ {0}) PROVE Config!UartConfigSpec => []ConfigInv
<1>1. Config!UartConfigInit => ConfigInv
  <2> SUFFICES ASSUME Config!UartConfigInit PROVE ConfigInv
    OBVIOUS
  <2>1. RatioOK
    BY DEF Config!UartConfigInit, RatioOK
  <2>2. bdiv \in 4 .. 255 /\ NothingFound
    BY DEF Config!UartConfigInit, NothingFound
  <2>3. SetUpInv
    BY DEF Config!UartConfigInit, SetUpInv
  <2> QED BY <2>1, <2>2, <2>3 DEF ConfigInv
<1>2. ConfigInv /\ [Config!UartConfigNext]_(Config!uartConfigVars) => ConfigInv'
  <2>1. ConfigInv /\ UNCHANGED Config!uartConfigVars => ConfigInv'
    BY SearchStays DEF Config!uartConfigVars, ConfigInv, SetUpInv
  <2> QED BY <2>1, SearchStep, SetUpStep DEF Config!UartConfigNext
<1> QED BY <1>1, <1>2, PTL DEF Config!UartConfigSpec

(* Rounding takes the divisor that is off least, and none below the        *)
(* quotient.                                                               *)
LEMMA RoundedIsNearest ==
  ASSUME NEW R \in Nat \ {0}, NEW D \in Nat \ {0}, NEW cd \in Nat \ {0}, NEW k \in Nat,
         cd = (2 * R + D) \div (2 * D)
  PROVE  Config!abs(R - D * cd) <= Config!abs(R - D * k) /\ R \div D <= cd
<1>1. PICK p \in Nat, y \in Nat : p = D * cd /\ y = D * k
  OBVIOUS
<1>2. 2 * p <= 2 * R + D /\ 2 * R < 2 * p + D
  <2>1. PICK n \in Nat, d \in Nat \ {0} : n = 2 * R + D /\ d = 2 * D
    OBVIOUS
  <2>2. cd = n \div d
    BY <2>1
  <2>3. n = d * (n \div d) + (n % d) /\ (n % d) \in 0 .. d - 1
    BY <2>1
  <2>4. (2 * D) * cd = 2 * p
    BY <1>1
  <2> QED BY <2>1, <2>2, <2>3, <2>4
<1>4. k + 1 <= cd => y + D <= p
  <2> SUFFICES ASSUME k + 1 <= cd PROVE y + D <= p
    OBVIOUS
  <2>1. (k + 1) * D <= cd * D
    BY TimesLeq
  <2> QED BY <1>1, <2>1
<1>5. cd + 1 <= k => p + D <= y
  <2> SUFFICES ASSUME cd + 1 <= k PROVE p + D <= y
    OBVIOUS
  <2>1. (cd + 1) * D <= k * D
    BY TimesLeq
  <2> QED BY <1>1, <2>1
<1>6. Config!abs(R - p) <= Config!abs(R - y)
  <2>1. k = cd => p = y
    BY <1>1
  <2> QED BY <1>2, <1>4, <1>5, <2>1 DEF Config!abs
<1>7. R \div D <= cd
  <2>1. PICK t \in Nat : t = R \div D /\ D * t <= R
    <3>1. R = D * (R \div D) + (R % D) /\ (R % D) \in 0 .. D - 1 /\ R \div D \in Nat
      OBVIOUS
    <3> QED BY <3>1
  <2> SUFFICES ASSUME cd + 1 <= t PROVE FALSE
    BY <2>1
  <2>2. (cd + 1) * D <= t * D
    BY TimesLeq
  <2>3. (cd + 1) * D = p + D /\ t * D = D * t
    BY <1>1
  <2> QED BY <1>2, <2>1, <2>2, <2>3
<1> QED BY <1>1, <1>6, <1>7

(* The range of the divisor, which the provers need not enumerate.         *)
LEMMA U16Nat == Config!U16_MAX \in Nat
BY DEF Config!U16_MAX

(* What NearRate compares with: the error of cd by the rate of the divisor *)
(* below the quotient.                                                     *)
Below(b) == IF Config!cd_truncated(b) = 0 THEN 1 ELSE Config!cd_truncated(b)
Bound(cd, b) == <<Config!deviation(cd, b), (b + 1) * Below(b)>>

LEMMA BoundHolds ==
  ASSUME RatioOK, NEW b \in 4 .. 254, Eligible(b), NEW k \in Nat
  PROVE  Bound(k, b) \in Fraction /\ ~ Config!smaller_error(Bound(k, b), ErrorOf(b))
<1>1. PICK R \in Nat \ {0}, s \in Nat \ {0} : ratio = <<R, s>>
  BY DEF RatioOK
<1>2. PICK D \in Nat \ {0} : D = s * (b + 1)
  OBVIOUS
<1>3. Config!divisor(b) = D
  BY <1>1, <1>2 DEF Config!divisor
<1>4. PICK cd \in Nat \ {0} : cd = Config!cd_of(b) /\ cd = (2 * R + D) \div (2 * D)
  BY <1>1, <1>3 DEF Eligible, Config!cd_of
<1>5. Config!cd_truncated(b) = R \div D /\ R \div D \in Nat
  BY <1>1, <1>3 DEF Config!cd_truncated
<1>6. PICK below \in Nat \ {0} : below = Below(b) /\ below <= cd
  BY <1>4, <1>5, RoundedIsNearest DEF Below
<1>7. PICK x \in Nat, y \in Nat : /\ x = Config!deviation(cd, b) /\ y = Config!deviation(k, b)
                                 /\ x <= y
  <2>1. Config!abs(R - D * cd) <= Config!abs(R - D * k)
    BY <1>4, RoundedIsNearest
  <2>2. Config!abs(R - D * cd) \in Nat /\ Config!abs(R - D * k) \in Nat
    BY DEF Config!abs
  <2> QED BY <1>1, <1>3, <2>1, <2>2 DEF Config!deviation
<1>8. PICK m \in Nat \ {0}, n \in Nat \ {0} : m = (b + 1) * below /\ n = (b + 1) * cd /\ m <= n
  <2>1. below * (b + 1) <= cd * (b + 1)
    BY <1>6, TimesLeq
  <2>2. (b + 1) * below \in Nat \ {0} /\ (b + 1) * cd \in Nat \ {0}
    OBVIOUS
  <2> QED BY <2>1, <2>2
<1>9. x * m <= y * n
  <2>1. x * m <= y * m
    BY <1>7, TimesLeq
  <2>2. m * y <= n * y
    BY <1>8, TimesLeq
  <2>3. m * y = y * m /\ n * y = y * n /\ x * m \in Nat /\ y * m \in Nat /\ y * n \in Nat
    OBVIOUS
  <2> QED BY <2>1, <2>2, <2>3
<1>10. Bound(k, b) = <<y, m>> /\ ErrorOf(b) = <<x, n>>
  BY <1>4, <1>6, <1>7, <1>8 DEF Bound, ErrorOf, Config!error_of
<1>11. ~ Config!smaller_error(<<y, m>>, <<x, n>>)
  <2>1. x * m \in Nat /\ y * n \in Nat
    OBVIOUS
  <2> QED BY <1>9, <2>1 DEF Config!smaller_error
<1> QED BY <1>10, <1>11 DEF Fraction

(* What calculate_raw_baud_cfg_smallest_error finds is at least as near as *)
(* the divisors below every quotient it rounds, and as near as those above *)
(* up to the rounding; and new_generic_unchecked runs the UART with these, *)
(* and never with one divisor of two.                                      *)
THEOREM NearRateFound ==
  Ratios \subseteq (Nat \ {0}) \X (Nat \ {0}) => (Config!UartConfigSpec => []NearRate)
<1> SUFFICES ASSUME Ratios \subseteq (Nat \ {0}) \X (Nat \ {0})
             PROVE  Config!UartConfigSpec => []NearRate
  OBVIOUS
<1>1. Config!UartConfigSpec => []ConfigInv
  BY ConfigInvHolds
<1>2. ConfigInv => NearRate
  <2> SUFFICES ASSUME ConfigInv PROVE NearRate
    OBVIOUS
  <2>1. enabled => divisors \in {[cd |-> 0, bdiv |-> 0], best_clk_config}
    BY DEF ConfigInv, SetUpInv
  <2>2. ASSUME setup = "done", NEW c \in Config!Candidates, Config!Tried(c.b)
        PROVE  ~ Config!smaller_error(Bound(Config!cd_truncated(c.b) + c.up, c.b),
                                      Config!error_of(divisors.cd, divisors.bdiv))
    <3>1. PICK b \in 4 .. 254 : b = c.b /\ Eligible(b)
      <4>1. c.b \in 4 .. 255
        BY DEF Config!Candidates, Config!U8_MAX
      <4>2. c.b < 255 /\ Eligible(c.b)
        BY <2>2 DEF Config!Tried, Eligible, Config!U8_MAX
      <4>3. c.b \in 4 .. 254
        BY <4>1, <4>2
      <4> QED BY <4>2, <4>3
    <3>2. PICK k \in Nat : k = Config!cd_truncated(c.b) + c.up
      <4>1. Config!cd_truncated(c.b) + c.up \in 1 .. Config!U16_MAX
        BY Zenon DEF Config!Candidates
      <4> QED BY <4>1, U16Nat
    <3>3. Bound(k, b) \in Fraction /\ ~ Config!smaller_error(Bound(k, b), ErrorOf(b))
      BY <3>1, BoundHolds DEF ConfigInv
    <3>4. ErrorOf(b) \in Fraction
      BY <3>1, ErrorFacts DEF ConfigInv
    <3>5. /\ Config!error_of(divisors.cd, divisors.bdiv) \in Fraction
          /\ ~ Config!smaller_error(ErrorOf(b), Config!error_of(divisors.cd, divisors.bdiv))
      BY <2>2, <3>1, FoundIsNearest
    <3>6. ~ Config!smaller_error(Bound(k, b), Config!error_of(divisors.cd, divisors.bdiv))
      BY <3>3, <3>4, <3>5, NotSmallerChain
    <3> QED BY <3>1, <3>2, <3>6
  <2>3. setup = "done" /\ ~ (\E b \in 4 .. 254 : Eligible(b)) => divisors = [cd |-> 1, bdiv |-> 0]
    BY FoundIsNearest
  <2>4. Config!Attainable <=> \E b \in 4 .. 254 : Eligible(b)
    <3>1. \A b : b \in 4 .. 255 /\ b < 255 <=> b \in 4 .. 254
      OBVIOUS
    <3> QED BY <3>1 DEF Config!Attainable, Config!Tried, Config!U8_MAX, Eligible
  <2>5. setup = "done" =>
          IF Config!Attainable
          THEN \A c \in Config!Candidates :
                 Config!Tried(c.b) =>
                   ~ Config!smaller_error(Bound(Config!cd_truncated(c.b) + c.up, c.b),
                                          Config!error_of(divisors.cd, divisors.bdiv))
          ELSE divisors = [cd |-> 1, bdiv |-> 0]
    BY <2>2, <2>3, <2>4, Zenon
  <2> QED BY <2>1, <2>5, Zenon DEF NearRate, Config!NearRate, Bound, Below
<1> QED BY <1>1, <1>2, PTL
=============================================================================
