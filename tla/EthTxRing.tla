----------------------------- MODULE EthTxRing -----------------------------
(***************************************************************************)
(* The transmit path of the Gigabit Ethernet driver: the descriptor ring   *)
(* of eth/tx_descr.rs as CommonSmoltcpDriver (eth/smoltcp.rs) drives it.   *)
(* Two actors share the ring in uncached memory and the frame buffers in   *)
(* DDR: the driver task (transmit, consume) and the DMA of the GEM, which  *)
(* runs at any moment between two accesses of the driver.  The GEM is not  *)
(* part of the repository: its steps follow from how the driver uses it.   *)
(*                                                                         *)
(* A frame is named by its order of acceptance, 1, 2, 3, ...               *)
(***************************************************************************)
EXTENDS Integers, Sequences

CONSTANTS
  Slots,      \* number of descriptors, and of buffers
  MaxFrames   \* bound on the number of frames the stack hands over

ASSUME RingAssumption == Slots \in Nat \ {0} /\ MaxFrames \in Nat

VARIABLES
  word1,      \* the second word of each descriptor: owner, wrap and error bits
  cpuBuf,     \* the frame in each TX buffer, as the CPU reads it (through the caches)
  ddrBuf,     \* the frame in each TX buffer, as the DMA reads it (from DDR)
  txIdx,      \* DescriptorListWrapper::tx_idx
  busyIdx,    \* DescriptorListWrapper::busy_idx
  pc,         \* how far the driver task is in transmit() and consume()
  gem,        \* the GEM: "halted", "ready" to read a descriptor, "busy" sending
  hwIdx,      \* the descriptor the GEM reads next
  accepted,   \* number of frames given to the ring so far
  wire,       \* the frames the GEM fetched, in order
  reports     \* the frames of the last two completions handed to the driver

ringVars   == <<word1, txIdx, busyIdx>>
bufVars    == <<cpuBuf, ddrBuf>>
gemVars    == <<gem, hwIdx, wire>>
vars       == <<word1, cpuBuf, ddrBuf, txIdx, busyIdx, pc, gem, hwIdx, accepted, wire, reports>>

Slot == 0 .. Slots - 1
Owner == {"Hardware", "Software"}
Word1 == [own : Owner, wrap : BOOLEAN, err : BOOLEAN]
DriverState == {"idle", "handling", "check_full", "token", "filled", "cleaned", "prepared"}

increment(i) == (i + 1) % Slots

increment_tx_idx == txIdx' = increment(txIdx)

busy_idx_kept == busyIdx' = busyIdx
increment_busy_idx_unchecked == busyIdx' = increment(busyIdx)

full_unchecked == FALSE
full == word1[txIdx].own = "Hardware"

(* Nothing (more) to report: the busy slot is still owned by the hardware, *)
(* or is the next to transmit.                                             *)
caught_up == word1[busyIdx].own = "Hardware" \/ busyIdx = txIdx

(* The word written to a slot whose completion was handled.                *)
reset_word(w) == [own |-> "Software", wrap |-> w.wrap, err |-> FALSE]

(* clean_and_invalidate_data_cache_range on the buffer of slot i.          *)
cleaned_nothing(i) == ddrBuf
cleaned(i) == [ddrBuf EXCEPT ![i] = cpuBuf[i]]

(* The GEM after start_tx is set.                                          *)
start_tx_forgotten == gem
start_tx == IF gem = "halted" THEN "ready" ELSE gem

-----------------------------------------------------------------------------
(* The ring after take() and init_or_reset(): every slot owned by the      *)
(* software, the wrap bit on the last one.                                 *)
init_or_reset ==
  /\ word1 = [i \in Slot |-> [own |-> "Software", wrap |-> i = Slots - 1, err |-> FALSE]]
  /\ txIdx = 0
  /\ busyIdx = 0

Init ==
  /\ init_or_reset
  /\ cpuBuf = [i \in Slot |-> 0]
  /\ ddrBuf = [i \in Slot |-> 0]
  /\ pc = "idle"
  /\ gem = "halted"
  /\ hwIdx = 0
  /\ accepted = 0
  /\ wire = <<>>
  /\ reports = <<-1, 0>>

-----------------------------------------------------------------------------
(* The driver task.  transmit() and receive() start with the same loop     *)
(* over check_and_handle_completed_transfer and the same test of full().   *)

transmit ==
  /\ pc = "idle"
  /\ pc' = "handling"
  /\ UNCHANGED <<word1, bufVars, txIdx, busyIdx, gemVars, accepted, reports>>

(* BusyHandlingResult::Complete, which ends the loop.                      *)
transfer_complete ==
  /\ pc = "handling"
  /\ caught_up
  /\ pc' = "check_full"
  /\ UNCHANGED <<word1, bufVars, txIdx, busyIdx, gemVars, accepted, reports>>

(* BusyHandlingResult::TxError: the slot is left as the GEM wrote it.      *)
transfer_error ==
  /\ pc = "handling"
  /\ ~ caught_up
  /\ word1[busyIdx].err
  /\ increment_busy_idx_unchecked
  /\ reports' = <<reports[2], ddrBuf[busyIdx]>>
  /\ UNCHANGED <<word1, bufVars, txIdx, pc, gemVars, accepted>>

(* BusyHandlingResult::SlotHandled: the slot is reset, all but its wrap bit. *)
transfer_handled ==
  /\ pc = "handling"
  /\ ~ caught_up
  /\ ~ word1[busyIdx].err
  /\ word1' = [word1 EXCEPT ![busyIdx] = reset_word(@)]
  /\ increment_busy_idx_unchecked
  /\ reports' = <<reports[2], ddrBuf[busyIdx]>>
  /\ UNCHANGED <<bufVars, txIdx, pc, gemVars, accepted>>

check_full ==
  /\ pc = "check_full"
  /\ pc' = IF full THEN "idle" ELSE "token"
  /\ UNCHANGED <<word1, bufVars, txIdx, busyIdx, gemVars, accepted, reports>>

(* The stack may drop a TX token: receive() pairs one with each RX token.  *)
drop_token ==
  /\ pc = "token"
  /\ pc' = "idle"
  /\ UNCHANGED <<word1, bufVars, txIdx, busyIdx, gemVars, accepted, reports>>

(* SmoltcpTxToken::consume, one action per access the GEM can interleave:  *)
(* the closure writes the frame, the caches are cleaned, the descriptor is *)
(* handed over, and start_tx is set.                                       *)
consume_fill ==
  /\ pc = "token"
  /\ accepted < MaxFrames
  /\ cpuBuf' = [cpuBuf EXCEPT ![txIdx] = accepted + 1]
  /\ pc' = "filled"
  /\ UNCHANGED <<word1, ddrBuf, txIdx, busyIdx, gemVars, accepted, reports>>

consume_clean ==
  /\ pc = "filled"
  /\ ddrBuf' = cleaned(txIdx)
  /\ pc' = "cleaned"
  /\ UNCHANGED <<word1, cpuBuf, txIdx, busyIdx, gemVars, accepted, reports>>

setup_tx_transfer_unchecked(w) == [own |-> "Hardware", wrap |-> w.wrap, err |-> w.err]

prepare_transfer_unchecked ==
  /\ word1' = [word1 EXCEPT ![txIdx] = setup_tx_transfer_unchecked(@)]
  /\ increment_tx_idx

consume_prepare ==
  /\ pc = "cleaned"
  /\ prepare_transfer_unchecked
  /\ accepted' = accepted + 1
  /\ pc' = "prepared"
  /\ UNCHANGED <<bufVars, busyIdx, gemVars, reports>>

consume_start_tx ==
  /\ pc = "prepared"
  /\ gem' = start_tx
  /\ pc' = "idle"
  /\ UNCHANGED <<word1, bufVars, txIdx, busyIdx, hwIdx, wire, accepted, reports>>

-----------------------------------------------------------------------------
(* The hardware.                                                           *)

(* A dirty cache line may be written back to DDR at any time.              *)
EvictLine(i) ==
  /\ cpuBuf[i] # ddrBuf[i]
  /\ ddrBuf' = [ddrBuf EXCEPT ![i] = cpuBuf[i]]
  /\ UNCHANGED <<word1, cpuBuf, txIdx, busyIdx, pc, gemVars, accepted, reports>>

(* The GEM finds a descriptor it owns and fetches its buffer from DDR.     *)
GemFetch ==
  /\ gem = "ready"
  /\ word1[hwIdx].own = "Hardware"
  /\ wire' = Append(wire, ddrBuf[hwIdx])
  /\ gem' = "busy"
  /\ UNCHANGED <<word1, bufVars, txIdx, busyIdx, pc, hwIdx, accepted, reports>>

(* The frame is sent, or given up: the GEM writes the status back, returns *)
(* the slot to the software and moves on, to the start of the list after   *)
(* the slot with the wrap bit.                                             *)
GemComplete(error) ==
  /\ gem = "busy"
  /\ word1' = [word1 EXCEPT ![hwIdx] = [own |-> "Software", wrap |-> @.wrap, err |-> error]]
  /\ hwIdx' = IF word1[hwIdx].wrap THEN 0 ELSE hwIdx + 1
  /\ gem' = "ready"
  /\ UNCHANGED <<bufVars, txIdx, busyIdx, pc, accepted, wire, reports>>

(* The GEM reads a descriptor owned by the software and stops until the    *)
(* next start_tx (InterruptResult::tx_descr_read_when_used).               *)
GemHalt ==
  /\ gem = "ready"
  /\ word1[hwIdx].own = "Software"
  /\ gem' = "halted"
  /\ UNCHANGED <<word1, bufVars, txIdx, busyIdx, pc, hwIdx, accepted, wire, reports>>

-----------------------------------------------------------------------------
check_and_handle_completed_transfer ==
  transfer_complete \/ transfer_error \/ transfer_handled

consume == consume_fill \/ consume_clean \/ consume_prepare \/ consume_start_tx

Gem == GemFetch \/ (\E error \in BOOLEAN : GemComplete(error)) \/ GemHalt

Next ==
  \/ transmit
  \/ check_and_handle_completed_transfer
  \/ check_full
  \/ drop_token
  \/ consume
  \/ \E i \in Slot : EvictLine(i)
  \/ Gem

Spec == Init /\ [][Next]_vars

(* A call the driver began runs to its end, and the GEM keeps sending what *)
(* it was given.  The stack need never call transmit, nor use its token.   *)
Fairness ==
  /\ WF_vars(check_and_handle_completed_transfer)
  /\ WF_vars(check_full)
  /\ WF_vars(consume_clean \/ consume_prepare \/ consume_start_tx)
  /\ WF_vars(Gem)

FairSpec == Spec /\ Fairness

-----------------------------------------------------------------------------
(* Properties.                                                             *)

(* Every variable has its type.  hwIdx \in Slot is the part that can fail: *)
(* the GEM leaves the list when a wrap bit is lost.                        *)
TypeOK ==
  /\ word1 \in [Slot -> Word1]
  /\ cpuBuf \in [Slot -> Nat]
  /\ ddrBuf \in [Slot -> Nat]
  /\ txIdx \in Slot
  /\ busyIdx \in Slot
  /\ pc \in DriverState
  /\ gem \in {"halted", "ready", "busy"}
  /\ hwIdx \in Slot
  /\ accepted \in Nat
  /\ wire \in Seq(Nat)
  /\ reports \in Int \X Nat

(* Frames the GEM is done with, and frames it still owns.                  *)
completed == IF gem = "busy" THEN Len(wire) - 1 ELSE Len(wire)
pending == accepted - completed

(* The distance from slot a forward to slot b, and the slot d after a.     *)
distance(a, b) == IF a <= b THEN b - a ELSE b - a + Slots
slot_after(a, d) == IF a + d < Slots THEN a + d ELSE a + d - Slots

(* The slots owned by the hardware are the pending frames: one run of      *)
(* slots from the one the GEM reads next to the one the driver fills next. *)
(* A hole would stop the GEM short of a queued frame; an owned slot        *)
(* outside the run would be sent again.                                    *)
HardwareOwnsPending ==
  /\ pending \in 0 .. Slots
  /\ txIdx = slot_after(hwIdx, pending)
  /\ \A i \in Slot : word1[i].own = "Hardware" <=> distance(hwIdx, i) < pending

(* A completion is reported only for a frame the GEM is done with, and     *)
(* later reports are about later frames: no frame is reported twice,       *)
(* although the completions of a ring that filled up are skipped.          *)
ReportsCompletedOnce == reports[1] < reports[2] /\ reports[2] <= completed

(* While the hardware owns a slot nothing changes the frame the DMA reads. *)
OwnedBufferStable ==
  [][\A i \in Slot : word1[i].own = "Hardware" /\ word1'[i].own = "Hardware"
                       => ddrBuf'[i] = ddrBuf[i]]_vars

(* The ring implements the FIFO it promises: the n-th frame accepted is    *)
(* the n-th frame fetched, across wraps, errors and halts of the GEM.      *)
Fifo == INSTANCE EthTxFifo WITH Capacity <- Slots
ImplementsFifo == Fifo!Spec

(* Every frame given to the ring is eventually sent: start_tx reaches the  *)
(* GEM even when it halts just before the descriptor is handed over.       *)
(* (Given that at most MaxFrames are, for \A n : accepted >= n ~>          *)
(* Len(wire) >= n.)                                                        *)
AcceptedIsSent == []<>(Len(wire) = accepted)
=============================================================================
