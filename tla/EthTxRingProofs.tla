-------------------------- MODULE EthTxRingProofs --------------------------
(***************************************************************************)
(* Proofs about EthTxRing for every number of slots and of frames.         *)
(*                                                                         *)
(* HardwareOwnsPending is not inductive on its own: that the slot of a     *)
(* held TX token is free, that the wrap bit marks the last slot, and that  *)
(* the buffers of the pending slots hold consecutive frames have to be     *)
(* carried along.  RingInv is the conjunction of all of it.                *)
(***************************************************************************)
EXTENDS EthTxRing, SequenceTheorems, TLAPS

USE RingAssumption

(* The wrap bit is on the last slot only.                                  *)
WrapOnLast == \A i \in Slot : word1[i].wrap <=> i = Slots - 1

(* While a token is used, the slot it stands for is not the hardware's.    *)
TokenSlotFree ==
  pc \in {"token", "filled", "cleaned"} => word1[txIdx].own = "Software"

(* The buffer being filled holds the next frame, and every other buffer is *)
(* the same in the caches and in DDR.                                      *)
BufferCoherent ==
  /\ pc \in {"filled", "cleaned"} => cpuBuf[txIdx] = accepted + 1
  /\ \A i \in Slot : (pc = "filled" /\ i = txIdx) \/ cpuBuf[i] = ddrBuf[i]

(* The frame fetched by a busy GEM is still pending.                       *)
BusyIsPending == gem = "busy" => pending > 0 /\ Len(wire) > 0

(* The pending slots hold consecutive frames, the oldest at hwIdx.         *)
PendingFrames ==
  \A i \in Slot : word1[i].own = "Hardware"
                    => ddrBuf[i] = completed + 1 + distance(hwIdx, i)

(* The wire carries the frames in their order of acceptance.               *)
WireInOrder == \A n \in 1 .. Len(wire) : wire[n] = n

RingInv ==
  /\ TypeOK
  /\ HardwareOwnsPending
  /\ WrapOnLast
  /\ TokenSlotFree
  /\ BufferCoherent
  /\ BusyIsPending
  /\ PendingFrames
  /\ WireInOrder
-----------------------------------------------------------------------------
(* The code's modulo and the wrap of the GEM are the same successor.       *)
LEMMA IncrementIsNextSlot ==
  ASSUME NEW i \in Slot
  PROVE  /\ increment(i) \in Slot
         /\ increment(i) = IF i = Slots - 1 THEN 0 ELSE i + 1
<1>1. (i + 1) % Slots = IF i + 1 = Slots THEN 0 ELSE i + 1
  BY SMTT(30) DEF Slot
<1> QED
  BY <1>1 DEF increment, Slot

(* The type invariant holds initially and every step preserves it, given   *)
(* that the wrap bit is where the GEM needs it.                            *)
LEMMA InitType == Init => TypeOK
  BY DEF Init, init_or_reset, TypeOK, Word1, Owner, Slot, DriverState

LEMMA TypeStep ==
  ASSUME TypeOK, WrapOnLast, [Next]_vars
  PROVE  TypeOK'
<1> USE DEF TypeOK, Word1, Owner, DriverState
<1>1. CASE transmit
  BY <1>1 DEF transmit, bufVars, gemVars
<1>2. CASE transfer_complete
  BY <1>2 DEF transfer_complete, bufVars, gemVars
<1>3. CASE transfer_error
  BY <1>3, IncrementIsNextSlot
     DEF transfer_error, increment_busy_idx_unchecked, bufVars, gemVars
<1>4. CASE transfer_handled
  BY <1>4, IncrementIsNextSlot
     DEF transfer_handled, increment_busy_idx_unchecked, reset_word, bufVars, gemVars
<1>5. CASE check_full
  BY <1>5 DEF check_full, bufVars, gemVars
<1>6. CASE drop_token
  BY <1>6 DEF drop_token, bufVars, gemVars
<1>7. CASE consume_fill
  BY <1>7 DEF consume_fill, gemVars
<1>8. CASE consume_clean
  BY <1>8 DEF consume_clean, cleaned, gemVars
<1>9. CASE consume_prepare
  BY <1>9, IncrementIsNextSlot
     DEF consume_prepare, prepare_transfer_unchecked, setup_tx_transfer_unchecked,
         increment_tx_idx, bufVars, gemVars
<1>10. CASE consume_start_tx
  BY <1>10 DEF consume_start_tx, start_tx, bufVars
<1>11. ASSUME NEW i \in Slot, EvictLine(i) PROVE TypeOK'
  BY <1>11 DEF EvictLine, gemVars
<1>12. CASE GemFetch
  BY <1>12 DEF GemFetch, bufVars
<1>13. ASSUME NEW error \in BOOLEAN, GemComplete(error) PROVE TypeOK'
  BY <1>13 DEF GemComplete, WrapOnLast, Slot, bufVars
<1>14. CASE GemHalt
  BY <1>14 DEF GemHalt, bufVars
<1>15. CASE UNCHANGED vars
  BY <1>15 DEF vars
<1> QED
  BY <1>1, <1>2, <1>3, <1>4, <1>5, <1>6, <1>7, <1>8, <1>9, <1>10, <1>11, <1>12,
     <1>13, <1>14, <1>15
     DEF Next, check_and_handle_completed_transfer, consume, Gem
-----------------------------------------------------------------------------
LEMMA CountsAreIntegers ==
  ASSUME TypeOK PROVE Len(wire) \in Nat /\ completed \in Int /\ pending \in Int
  BY DEF TypeOK, completed, pending

LEMMA InitRing == Init => RingInv
<1> SUFFICES ASSUME Init PROVE RingInv
  OBVIOUS
<1>1. TypeOK
  BY InitType
<1>2. Len(wire) = 0
  BY DEF Init
<1>3. completed = 0
  BY <1>2 DEF Init, completed
<1>4. pending = 0
  BY <1>3 DEF Init, pending
<1>5. HardwareOwnsPending
  <2>1. txIdx = 0 /\ hwIdx = 0 /\ \A i \in Slot : word1[i].own = "Software"
    BY DEF Init, init_or_reset
  <2> QED
    BY <1>4, <2>1 DEF HardwareOwnsPending, slot_after, distance, Slot
<1>6. WrapOnLast /\ TokenSlotFree /\ BufferCoherent /\ BusyIsPending
  BY DEF Init, init_or_reset, WrapOnLast, TokenSlotFree, BufferCoherent, BusyIsPending
<1>7. PendingFrames
  BY DEF Init, init_or_reset, PendingFrames
<1>8. WireInOrder
  BY <1>2 DEF WireInOrder
<1> QED
  BY <1>1, <1>5, <1>6, <1>7, <1>8 DEF RingInv

(* Steps of the driver that touch neither the ring's ownership nor the     *)
(* buffers nor the GEM.                                                    *)
LEMMA HandlingStep ==
  ASSUME RingInv, TypeOK',
         transmit \/ check_and_handle_completed_transfer \/ check_full \/ drop_token
  PROVE  RingInv'
<1> USE DEF RingInv, TypeOK, Word1, Owner
<1>1. UNCHANGED <<cpuBuf, ddrBuf, txIdx, gem, hwIdx, wire, accepted>>
  BY DEF transmit, check_and_handle_completed_transfer, transfer_complete, transfer_error,
         transfer_handled, check_full, drop_token, bufVars, gemVars
<1>2. \A i \in Slot : word1'[i].own = word1[i].own /\ word1'[i].wrap = word1[i].wrap
  <2>1. CASE transfer_handled
    <3>1. word1[busyIdx].own = "Software"
      BY <2>1 DEF transfer_handled, caught_up
    <3> QED
      BY <2>1, <3>1 DEF transfer_handled, reset_word
  <2>2. CASE ~ transfer_handled
    BY <2>2 DEF transmit, check_and_handle_completed_transfer, transfer_complete,
                transfer_error, check_full, drop_token
  <2> QED
    BY <2>1, <2>2
<1>3. pc' \in {"handling", "check_full", "idle", "token"} /\ pc # "filled"
  BY DEF transmit, check_and_handle_completed_transfer, transfer_complete, transfer_error,
         transfer_handled, check_full, drop_token
<1>4. completed' = completed /\ pending' = pending
  BY <1>1 DEF completed, pending
<1>5. TokenSlotFree'
  <2>1. pc' = "token" => word1[txIdx].own = "Software"
    BY DEF transmit, check_and_handle_completed_transfer, transfer_complete, transfer_error,
           transfer_handled, check_full, drop_token, full
  <2> QED
    BY <1>1, <1>2, <1>3, <2>1 DEF TokenSlotFree
<1> QED
  BY <1>1, <1>2, <1>3, <1>4, <1>5
     DEF HardwareOwnsPending, WrapOnLast, BufferCoherent, BusyIsPending, PendingFrames,
         WireInOrder, slot_after, distance, Slot

LEMMA FillStep ==
  ASSUME RingInv, TypeOK', consume_fill
  PROVE  RingInv'
<1> USE DEF RingInv, TypeOK, consume_fill, gemVars
<1>1. completed' = completed /\ pending' = pending
  BY DEF completed, pending
<1>2. BufferCoherent'
  BY DEF BufferCoherent
<1> QED
  BY <1>1, <1>2
     DEF HardwareOwnsPending, WrapOnLast, TokenSlotFree, BusyIsPending, PendingFrames,
         WireInOrder, slot_after, distance

LEMMA CleanStep ==
  ASSUME RingInv, TypeOK', consume_clean
  PROVE  RingInv'
<1> USE DEF RingInv, TypeOK, consume_clean, cleaned, gemVars
<1>1. completed' = completed /\ pending' = pending
  BY DEF completed, pending
<1>2. BufferCoherent'
  BY DEF BufferCoherent
<1>3. PendingFrames'
  BY <1>1 DEF PendingFrames, TokenSlotFree, distance
<1> QED
  BY <1>1, <1>2, <1>3
     DEF HardwareOwnsPending, WrapOnLast, TokenSlotFree, BusyIsPending,
         WireInOrder, slot_after, distance

(* The handed-over slot is free, so fewer than Slots frames are pending,   *)
(* and it is the next slot after the pending ones.                         *)
LEMMA PrepareStep ==
  ASSUME RingInv, TypeOK', consume_prepare
  PROVE  RingInv' /\ pending < Slots
<1> USE DEF RingInv, TypeOK, Word1, Owner, consume_prepare, prepare_transfer_unchecked,
            setup_tx_transfer_unchecked, increment_tx_idx, bufVars, gemVars
<1>1. completed' = completed /\ pending' = pending + 1
  BY CountsAreIntegers DEF completed, pending
<1>2. word1[txIdx].own = "Software"
  BY DEF TokenSlotFree
<1>3. /\ pending \in 0 .. Slots - 1
      /\ distance(hwIdx, txIdx) = pending
  <2>1. hwIdx \in 0 .. Slots - 1 /\ txIdx \in 0 .. Slots - 1 /\ pending \in 0 .. Slots
    BY DEF HardwareOwnsPending, Slot
  <2>2. ~ (distance(hwIdx, txIdx) < pending)
    BY <1>2 DEF HardwareOwnsPending
  <2>3. txIdx = slot_after(hwIdx, pending)
    BY DEF HardwareOwnsPending
  <2> HIDE DEF RingInv, TypeOK, consume_prepare
  <2> QED
    BY <2>1, <2>2, <2>3 DEF distance, slot_after
<1>4. txIdx' = slot_after(hwIdx, pending + 1)
  <2>1. hwIdx \in 0 .. Slots - 1 /\ txIdx = slot_after(hwIdx, pending)
    BY DEF HardwareOwnsPending, Slot
  <2>2. txIdx' = IF txIdx = Slots - 1 THEN 0 ELSE txIdx + 1
    BY IncrementIsNextSlot
  <2> HIDE DEF RingInv, TypeOK, consume_prepare
  <2> QED
    BY <1>3, <2>1, <2>2 DEF slot_after
<1>5. \A i \in Slot : /\ distance(hwIdx, i) \in Int
                      /\ i # txIdx => distance(hwIdx, i) # pending
  <2>1. hwIdx \in Slot /\ txIdx \in Slot
    OBVIOUS
  <2> HIDE DEF RingInv, TypeOK, consume_prepare
  <2> QED
    BY <1>3, <2>1 DEF distance, Slot
<1>6. \A i \in Slot : word1'[i].own = "Hardware" <=> distance(hwIdx, i) < pending + 1
  <2> SUFFICES ASSUME NEW i \in Slot
               PROVE  word1'[i].own = "Hardware" <=> distance(hwIdx, i) < pending + 1
    OBVIOUS
  <2>1. CASE i = txIdx
    BY <1>3, <2>1
  <2>2. CASE i # txIdx
    <3>1. word1'[i].own = "Hardware" <=> distance(hwIdx, i) < pending
      <4>1. word1'[i] = word1[i]
        BY <2>2
      <4>2. word1[i].own = "Hardware" <=> distance(hwIdx, i) < pending
        BY Zenon DEF HardwareOwnsPending
      <4> QED
        BY <4>1, <4>2, Zenon
    <3> HIDE DEF RingInv, TypeOK, consume_prepare
    <3> QED
      BY <1>3, <1>5, <2>2, <3>1
  <2> QED
    BY <2>1, <2>2
<1>7. HardwareOwnsPending'
  BY <1>1, <1>3, <1>4, <1>6 DEF HardwareOwnsPending, distance, slot_after
<1>8. WrapOnLast' /\ TokenSlotFree' /\ BufferCoherent' /\ WireInOrder'
  BY DEF WrapOnLast, TokenSlotFree, BufferCoherent, WireInOrder
<1>9. BusyIsPending'
  BY <1>1, <1>3 DEF BusyIsPending
<1>10. PendingFrames'
  <2>1. ddrBuf[txIdx] = completed + 1 + pending
    BY DEF BufferCoherent, pending, completed
  <2> QED
    BY <1>1, <1>3, <2>1 DEF PendingFrames, distance
<1> QED
  BY <1>3, <1>7, <1>8, <1>9, <1>10

LEMMA StartStep ==
  ASSUME RingInv, TypeOK', consume_start_tx
  PROVE  RingInv'
<1> USE DEF RingInv, TypeOK, consume_start_tx, start_tx, bufVars
<1>1. completed' = completed /\ pending' = pending
  BY DEF completed, pending
<1> QED
  BY <1>1
     DEF HardwareOwnsPending, WrapOnLast, TokenSlotFree, BufferCoherent, BusyIsPending,
         PendingFrames, WireInOrder, slot_after, distance

LEMMA EvictStep ==
  ASSUME RingInv, TypeOK', NEW e \in Slot, EvictLine(e)
  PROVE  RingInv'
<1> USE DEF RingInv, TypeOK, EvictLine, gemVars
<1>1. completed' = completed /\ pending' = pending
  BY DEF completed, pending
<1>2. pc = "filled" /\ e = txIdx
  BY DEF BufferCoherent
<1>3. BufferCoherent'
  BY <1>2 DEF BufferCoherent
<1>4. PendingFrames'
  BY <1>1, <1>2 DEF PendingFrames, TokenSlotFree, distance
<1> QED
  BY <1>1, <1>3, <1>4
     DEF HardwareOwnsPending, WrapOnLast, TokenSlotFree, BusyIsPending,
         WireInOrder, slot_after, distance

(* The frame fetched is the oldest pending one, which is next on the wire. *)
LEMMA FetchStep ==
  ASSUME RingInv, TypeOK', GemFetch
  PROVE  /\ RingInv'
         /\ wire' = Append(wire, Len(wire) + 1)
         /\ Len(wire) < accepted
<1> USE DEF RingInv, TypeOK, GemFetch, bufVars
<1>1. /\ completed = Len(wire)
      /\ Len(wire') = Len(wire) + 1
      /\ completed' = completed
      /\ pending' = pending
  BY CountsAreIntegers DEF completed, pending
<1>2. distance(hwIdx, hwIdx) = 0
  BY DEF distance, Slot
<1>3. ddrBuf[hwIdx] = Len(wire) + 1
  BY <1>1, <1>2, CountsAreIntegers DEF PendingFrames
<1>4. pending > 0
  BY <1>2 DEF HardwareOwnsPending
<1>5. WireInOrder'
  BY <1>1, <1>3 DEF WireInOrder
<1>6. BusyIsPending'
  BY <1>1, <1>4, CountsAreIntegers DEF BusyIsPending
<1>7. Len(wire) < accepted
  BY <1>1, <1>4, CountsAreIntegers DEF pending
<1> QED
  BY <1>1, <1>3, <1>5, <1>6, <1>7
     DEF HardwareOwnsPending, WrapOnLast, TokenSlotFree, BufferCoherent, PendingFrames,
         slot_after, distance

(* The slot given back is the first of the run of pending slots.           *)
LEMMA CompleteStep ==
  ASSUME RingInv, TypeOK', NEW error \in BOOLEAN, GemComplete(error)
  PROVE  RingInv'
<1> USE DEF RingInv, TypeOK, Word1, Owner, GemComplete, bufVars
<1>1. /\ completed' = completed + 1
      /\ pending' = pending - 1
      /\ pending \in 1 .. Slots
  BY CountsAreIntegers DEF completed, pending, BusyIsPending, HardwareOwnsPending
<1>2. /\ hwIdx \in 0 .. Slots - 1
      /\ hwIdx' = IF hwIdx = Slots - 1 THEN 0 ELSE hwIdx + 1
  BY DEF WrapOnLast, Slot
<1>3. \A i \in Slot : /\ i # hwIdx => distance(hwIdx', i) = distance(hwIdx, i) - 1
                      /\ i = hwIdx => distance(hwIdx', i) = Slots - 1
  <2> HIDE DEF RingInv, TypeOK, GemComplete
  <2> QED
    BY <1>2 DEF distance, Slot
<1>4. txIdx' = slot_after(hwIdx', pending - 1)
  <2>1. txIdx' = slot_after(hwIdx, pending)
    BY DEF HardwareOwnsPending
  <2> HIDE DEF RingInv, TypeOK, GemComplete
  <2> QED
    BY <1>1, <1>2, <2>1 DEF slot_after
<1>5. \A i \in Slot : word1'[i].own = "Hardware" <=> i # hwIdx /\ word1[i].own = "Hardware"
  OBVIOUS
<1>6. \A i \in Slot : distance(hwIdx, i) \in Int
  BY DEF distance, Slot
<1>7. HardwareOwnsPending'
  <2>1. \A i \in Slot : word1'[i].own = "Hardware" <=> distance(hwIdx', i) < pending - 1
    <3> SUFFICES ASSUME NEW i \in Slot
                 PROVE  word1'[i].own = "Hardware" <=> distance(hwIdx', i) < pending - 1
      OBVIOUS
    <3>1. word1[i].own = "Hardware" <=> distance(hwIdx, i) < pending
      BY DEF HardwareOwnsPending
    <3> HIDE DEF RingInv, TypeOK, GemComplete
    <3>2. CASE i = hwIdx
      BY <1>1, <1>3, <1>5, <3>2
    <3>3. CASE i # hwIdx
      BY <1>1, <1>3, <1>5, <1>6, <3>1, <3>3
    <3> QED
      BY <3>2, <3>3
  <2> QED
    BY <1>1, <1>4, <2>1 DEF HardwareOwnsPending, slot_after, distance
<1>8. PendingFrames'
  <2> SUFFICES ASSUME NEW i \in Slot, word1'[i].own = "Hardware"
               PROVE  ddrBuf'[i] = completed' + 1 + distance(hwIdx', i)
    BY DEF PendingFrames, distance
  <2>1. ddrBuf'[i] = completed + 1 + distance(hwIdx, i)
    BY <1>5 DEF PendingFrames
  <2>2. completed \in Int /\ i # hwIdx
    BY <1>5, CountsAreIntegers
  <2> HIDE DEF RingInv, TypeOK, GemComplete
  <2> QED
    BY <1>1, <1>3, <1>6, <2>1, <2>2
<1>9. WrapOnLast' /\ TokenSlotFree' /\ BufferCoherent' /\ BusyIsPending' /\ WireInOrder'
  BY DEF WrapOnLast, TokenSlotFree, BufferCoherent, BusyIsPending, WireInOrder
<1> QED
  BY <1>7, <1>8, <1>9

LEMMA HaltStep ==
  ASSUME RingInv, TypeOK', GemHalt
  PROVE  RingInv'
<1> USE DEF RingInv, TypeOK, GemHalt, bufVars
<1>1. completed' = completed /\ pending' = pending
  BY DEF completed, pending
<1> QED
  BY <1>1
     DEF HardwareOwnsPending, WrapOnLast, TokenSlotFree, BufferCoherent, BusyIsPending,
         PendingFrames, WireInOrder, slot_after, distance

LEMMA RingStep ==
  ASSUME RingInv, [Next]_vars
  PROVE  RingInv'
<1>1. TypeOK'
  BY TypeStep DEF RingInv
<1>2. CASE UNCHANGED vars
  BY <1>2
     DEF vars, RingInv, TypeOK, HardwareOwnsPending, WrapOnLast, TokenSlotFree,
         BufferCoherent, BusyIsPending, PendingFrames, WireInOrder, completed, pending,
         slot_after, distance
<1>3. CASE Next
  BY <1>1, <1>3, HandlingStep, FillStep, CleanStep, PrepareStep, StartStep, EvictStep,
     FetchStep, CompleteStep, HaltStep DEF Next, consume, Gem
<1> QED
  BY <1>2, <1>3

(* The inductive invariant, and with it the type invariant and the         *)
(* ownership invariant, hold in every reachable state of rings of any size. *)
THEOREM RingInvariant == Spec => []RingInv
<1>1. RingInv /\ [Next]_vars => RingInv'
  BY RingStep
<1> QED
  BY InitRing, <1>1, PTL DEF Spec

(* Every variable keeps its type; in particular the GEM never leaves the   *)
(* descriptor list.                                                        *)
THEOREM TypeCorrect == Spec => []TypeOK
<1>1. RingInv => TypeOK
  BY DEF RingInv
<1> QED
  BY RingInvariant, <1>1, PTL

(* The slots owned by the hardware are exactly the pending frames.         *)
THEOREM OwnershipCorrect == Spec => []HardwareOwnsPending
<1>1. RingInv => HardwareOwnsPending
  BY DEF RingInv
<1> QED
  BY RingInvariant, <1>1, PTL

(* The frame the DMA reads never changes while the hardware owns its slot: *)
(* the driver fills a buffer only under a token, whose slot is free.       *)
THEOREM OwnedBuffersAreStable == Spec => OwnedBufferStable
<1> DEFINE Stable == \A i \in Slot : word1[i].own = "Hardware" /\ word1'[i].own = "Hardware"
                                        => ddrBuf'[i] = ddrBuf[i]
<1>1. ASSUME RingInv, [Next]_vars PROVE Stable \/ UNCHANGED vars
  <2> USE <1>1 DEF RingInv, TypeOK
  <2>1. CASE consume_clean
    BY <2>1 DEF consume_clean, cleaned, TokenSlotFree
  <2>2. ASSUME NEW e \in Slot, EvictLine(e) PROVE Stable
    BY <2>2 DEF EvictLine, BufferCoherent, TokenSlotFree
  <2>3. CASE ~ consume_clean /\ ~ \E e \in Slot : EvictLine(e)
    <3>1. UNCHANGED ddrBuf
      BY <2>3 DEF Next, check_and_handle_completed_transfer, transmit, transfer_complete,
                  transfer_error, transfer_handled, check_full, drop_token, consume,
                  consume_fill, consume_prepare, consume_start_tx, Gem, GemFetch,
                  GemComplete, GemHalt, bufVars, vars
    <3> QED
      BY <3>1
  <2> QED
    BY <2>1, <2>2, <2>3
<1>2. RingInv /\ [Next]_vars => [Stable]_vars
  BY <1>1
<1> QED
  BY RingInvariant, <1>2, PTL DEF Spec, OwnedBufferStable
-----------------------------------------------------------------------------
(* The ring implements the FIFO: fetching is the FIFO's Transmit, handing  *)
(* a descriptor over its Accept, and every other step is invisible.        *)
THEOREM RingImplementsFifo == Spec => ImplementsFifo
<1>1. Init => Fifo!Init
  BY DEF Init, Fifo!Init
<1>2. ASSUME RingInv, [Next]_vars PROVE [Fifo!Next]_(Fifo!fifoVars)
  <2> USE DEF Fifo!fifoVars
  <2>1. CASE consume_prepare
    <3>1. pending < Slots
      BY <1>2, <2>1, PrepareStep, TypeStep DEF RingInv
    <3>2. accepted - Len(wire) < Slots
      BY <1>2, <3>1, CountsAreIntegers DEF pending, completed, RingInv, TypeOK
    <3> QED
      BY <2>1, <3>2 DEF consume_prepare, gemVars, Fifo!Next, Fifo!Accept
  <2>2. CASE GemFetch
    <3>1. wire' = Append(wire, Len(wire) + 1) /\ Len(wire) < accepted
      BY <1>2, <2>2, FetchStep, TypeStep DEF RingInv
    <3> QED
      BY <2>2, <3>1 DEF GemFetch, Fifo!Next, Fifo!Transmit
  <2>3. CASE ~ consume_prepare /\ ~ GemFetch
    BY <1>2, <2>3
       DEF Next, check_and_handle_completed_transfer, transmit, transfer_complete,
           transfer_error, transfer_handled, check_full, drop_token, consume, consume_fill,
           consume_clean, consume_start_tx, EvictLine, Gem, GemComplete, GemHalt, gemVars, vars
  <2> QED
    BY <2>1, <2>2, <2>3
<1> QED
  BY RingInvariant, <1>1, <1>2, PTL DEF Spec, ImplementsFifo, Fifo!Spec
-----------------------------------------------------------------------------
(* Completions are looked at from busyIdx on, which falls behind txIdx by  *)
(* `unreported` slots, or by none when the ring filled up.  What makes a   *)
(* report new is that the slots behind txIdx hold the last frames accepted *)
(* in their order, and that the last report is older than all of the       *)
(* unreported ones.                                                        *)
unreported == distance(busyIdx, txIdx)

LastFramesBehind ==
  \A i \in Slot : i # txIdx =>
    ddrBuf[i] = IF distance(i, txIdx) <= accepted THEN accepted + 1 - distance(i, txIdx) ELSE 0

ReportedIsOlder == unreported <= accepted /\ reports[2] <= accepted - unreported

ReportInv == LastFramesBehind /\ ReportedIsOlder /\ ReportsCompletedOnce

LEMMA InitReport == Init => ReportInv
<1> SUFFICES ASSUME Init PROVE ReportInv
  OBVIOUS
<1>1. txIdx = 0 /\ busyIdx = 0 /\ accepted = 0 /\ reports = <<-1, 0>>
  BY DEF Init, init_or_reset
<1>2. completed = 0
  BY DEF Init, completed
<1>3. LastFramesBehind
  <2>1. \A i \in Slot : ddrBuf[i] = 0 /\ (i # 0 => distance(i, 0) \in Nat \ {0})
    BY DEF Init, distance, Slot
  <2> QED
    BY <1>1, <2>1 DEF LastFramesBehind
<1>4. unreported = 0
  BY <1>1 DEF unreported, distance
<1> QED
  BY <1>1, <1>2, <1>3, <1>4 DEF ReportInv, ReportedIsOlder, ReportsCompletedOnce

(* Only a frame the GEM is done with is found at busyIdx.                  *)
LEMMA ReportStep ==
  ASSUME RingInv, TypeOK', ReportInv, transfer_error \/ transfer_handled
  PROVE  ReportInv'
<1> DEFINE f == accepted + 1 - unreported
<1>1. /\ UNCHANGED <<ddrBuf, txIdx, accepted, gem, wire, hwIdx>>
      /\ ~ caught_up
      /\ reports' = <<reports[2], ddrBuf[busyIdx]>>
      /\ busyIdx' = increment(busyIdx)
  BY DEF transfer_error, transfer_handled, increment_busy_idx_unchecked, bufVars, gemVars
<1>2. /\ busyIdx \in 0 .. Slots - 1 /\ txIdx \in 0 .. Slots - 1 /\ hwIdx \in 0 .. Slots - 1
      /\ accepted \in Nat /\ reports[1] \in Int /\ reports[2] \in Nat
      /\ completed \in Int
      /\ pending = accepted - completed /\ pending \in 0 .. Slots
  BY CountsAreIntegers DEF RingInv, TypeOK, Slot, HardwareOwnsPending, pending
<1>3. busyIdx # txIdx /\ word1[busyIdx].own = "Software"
  BY <1>1, <1>2 DEF caught_up, RingInv, TypeOK, Word1, Owner, Slot
<1>4. unreported \in 1 .. Slots - 1
  BY <1>2, <1>3 DEF unreported, distance
<1>5. unreported' = unreported - 1
  <2>1. busyIdx' = IF busyIdx = Slots - 1 THEN 0 ELSE busyIdx + 1
    BY <1>1, <1>2, IncrementIsNextSlot DEF Slot
  <2> QED
    BY <1>1, <1>2, <1>3, <2>1 DEF unreported, distance
<1>6. ddrBuf[busyIdx] = f
  BY <1>2, <1>3, <1>4 DEF ReportInv, LastFramesBehind, ReportedIsOlder, Slot, unreported
<1>7. f <= completed
  <2>1. ~ (distance(hwIdx, busyIdx) < pending) /\ txIdx = slot_after(hwIdx, pending)
    BY <1>2, <1>3 DEF RingInv, HardwareOwnsPending, Slot
  <2>2. pending < unreported
    BY <1>2, <1>3, <2>1 DEF unreported, distance, slot_after
  <2> QED
    BY <1>2, <1>4, <2>2
<1>8. LastFramesBehind'
  BY <1>1 DEF ReportInv, LastFramesBehind, distance
<1>9. reports'[1] = reports[2] /\ reports'[2] = f /\ completed' = completed
  BY <1>1, <1>6 DEF completed
<1>10. ReportedIsOlder'
  BY <1>1, <1>2, <1>4, <1>5, <1>9 DEF ReportInv, ReportedIsOlder
<1>11. ReportsCompletedOnce'
  BY <1>2, <1>4, <1>7, <1>9 DEF ReportInv, ReportedIsOlder, ReportsCompletedOnce
<1> QED
  BY <1>8, <1>10, <1>11 DEF ReportInv

(* Handing a slot over puts its frame behind txIdx; when txIdx reaches     *)
(* busyIdx again all that was unreported is skipped.                       *)
LEMMA PrepareReportStep ==
  ASSUME RingInv, TypeOK', ReportInv, consume_prepare
  PROVE  ReportInv'
<1>1. /\ UNCHANGED <<ddrBuf, busyIdx, gem, wire, reports>>
      /\ accepted' = accepted + 1 /\ txIdx' = increment(txIdx)
      /\ ddrBuf[txIdx] = accepted + 1
  BY DEF consume_prepare, prepare_transfer_unchecked, increment_tx_idx, bufVars, gemVars,
         RingInv, TypeOK, BufferCoherent
<1>2. /\ busyIdx \in 0 .. Slots - 1 /\ txIdx \in 0 .. Slots - 1
      /\ accepted \in Nat /\ reports[2] \in Nat
  BY DEF RingInv, TypeOK, Slot
<1>3. txIdx' = IF txIdx = Slots - 1 THEN 0 ELSE txIdx + 1
  BY <1>1, <1>2, IncrementIsNextSlot DEF Slot
<1>4. \A i \in 0 .. Slots - 1 : i # txIdx' =>
        distance(i, txIdx') = IF i = txIdx THEN 1 ELSE distance(i, txIdx) + 1
  BY <1>2, <1>3 DEF distance
<1>5. \A i \in 0 .. Slots - 1 : distance(i, txIdx) \in Nat
  BY <1>2 DEF distance
<1>6. LastFramesBehind'
  <2> SUFFICES ASSUME NEW i \in 0 .. Slots - 1, i # txIdx'
               PROVE  ddrBuf[i] = IF distance(i, txIdx') <= accepted + 1
                                  THEN accepted + 1 + 1 - distance(i, txIdx') ELSE 0
    <3>1. \A i \in Slot : distance(i, txIdx)' = distance(i, txIdx')
      BY DEF distance
    <3> QED
      BY <1>1, <3>1 DEF LastFramesBehind, Slot
  <2>1. CASE i = txIdx
    BY <1>1, <1>2, <1>4, <2>1
  <2>2. CASE i # txIdx
    <3>1. ddrBuf[i] = IF distance(i, txIdx) <= accepted
                      THEN accepted + 1 - distance(i, txIdx) ELSE 0
      BY <2>2 DEF ReportInv, LastFramesBehind, Slot
    <3> QED
      BY <1>2, <1>4, <1>5, <2>2, <3>1
  <2> QED
    BY <2>1, <2>2
<1>7. ReportedIsOlder'
  <2>1. unreported' = IF busyIdx = txIdx' THEN 0
                      ELSE IF busyIdx = txIdx THEN 1 ELSE unreported + 1
    BY <1>1, <1>2, <1>3, <1>4 DEF unreported, distance
  <2>2. unreported \in Nat /\ (busyIdx = txIdx => unreported = 0)
    BY <1>2 DEF unreported, distance
  <2>3. unreported <= accepted /\ reports[2] <= accepted - unreported
    BY DEF ReportInv, ReportedIsOlder
  <2> QED
    BY <1>1, <1>2, <2>1, <2>2, <2>3 DEF ReportedIsOlder
<1>8. ReportsCompletedOnce'
  BY <1>1 DEF ReportInv, ReportsCompletedOnce, completed
<1> QED
  BY <1>6, <1>7, <1>8 DEF ReportInv

(* Every other step leaves the frames behind txIdx alone, and completes    *)
(* frames but never takes a completion back.                               *)
LEMMA OtherReportStep ==
  ASSUME RingInv, TypeOK', ReportInv, [Next]_vars,
         ~ transfer_error, ~ transfer_handled, ~ consume_prepare
  PROVE  ReportInv'
<1>1. UNCHANGED <<txIdx, busyIdx, accepted, reports>>
  BY DEF Next, transmit, check_and_handle_completed_transfer, transfer_complete, check_full,
         drop_token, consume, consume_fill, consume_clean, consume_start_tx, EvictLine, Gem,
         GemFetch, GemComplete, GemHalt, bufVars, gemVars, vars
<1>2. completed' >= completed /\ completed \in Int /\ completed' \in Int
  <2>1. completed \in Int /\ completed' \in Int /\ Len(wire) \in Nat
    BY CountsAreIntegers DEF RingInv, TypeOK, completed
  <2>2. CASE GemFetch
    BY <2>1, <2>2 DEF GemFetch, completed, RingInv, TypeOK
  <2>3. ASSUME NEW error \in BOOLEAN, GemComplete(error) PROVE completed' >= completed
    BY <2>1, <2>3 DEF GemComplete, completed
  <2>4. CASE consume_start_tx \/ GemHalt
    BY <2>1, <2>4 DEF consume_start_tx, start_tx, GemHalt, completed
  <2>5. CASE UNCHANGED <<gem, wire>>
    BY <2>1, <2>5 DEF completed
  <2> QED
    BY <2>1, <2>2, <2>3, <2>4, <2>5
       DEF Next, transmit, check_and_handle_completed_transfer, transfer_complete, check_full,
           drop_token, consume, consume_fill, consume_clean, EvictLine, Gem, gemVars, vars
<1>3. \A i \in Slot : i # txIdx => ddrBuf'[i] = ddrBuf[i]
  <2>1. CASE consume_clean
    BY <2>1 DEF consume_clean, cleaned, RingInv, TypeOK
  <2>2. ASSUME NEW e \in Slot, EvictLine(e) PROVE \A i \in Slot : i # txIdx => ddrBuf'[i] = ddrBuf[i]
    BY <2>2 DEF EvictLine, RingInv, TypeOK, BufferCoherent
  <2>3. CASE UNCHANGED ddrBuf
    BY <2>3
  <2> QED
    BY <2>1, <2>2, <2>3
       DEF Next, transmit, check_and_handle_completed_transfer, transfer_complete, check_full,
           drop_token, consume, consume_fill, consume_start_tx, Gem, GemFetch, GemComplete,
           GemHalt, bufVars, vars
<1>4. LastFramesBehind'
  BY <1>1, <1>3 DEF ReportInv, LastFramesBehind, distance
<1>5. ReportedIsOlder'
  BY <1>1 DEF ReportInv, ReportedIsOlder, unreported, distance
<1>6. ReportsCompletedOnce'
  BY <1>1, <1>2 DEF ReportInv, ReportsCompletedOnce, RingInv, TypeOK
<1> QED
  BY <1>4, <1>5, <1>6 DEF ReportInv

(* A completion is reported only for a frame the GEM is done with, and     *)
(* never twice: reports are about later and later frames, also when the    *)
(* completions of a ring that filled up are skipped.                       *)
THEOREM ReportsAreNew == Spec => []ReportsCompletedOnce
<1>1. RingInv /\ ReportInv /\ [Next]_vars => RingInv' /\ ReportInv'
  <2> SUFFICES ASSUME RingInv, ReportInv, [Next]_vars PROVE RingInv' /\ ReportInv'
    OBVIOUS
  <2>1. RingInv' /\ TypeOK'
    BY RingStep DEF RingInv
  <2> QED
    BY <2>1, ReportStep, PrepareReportStep, OtherReportStep
<1>2. ReportInv => ReportsCompletedOnce
  BY DEF ReportInv
<1> QED
  BY InitRing, InitReport, <1>1, <1>2, PTL DEF Spec
=============================================================================
