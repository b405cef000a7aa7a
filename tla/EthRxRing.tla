----------------------------- MODULE EthRxRing -----------------------------
(***************************************************************************)
(* The receive path of the Gigabit Ethernet driver: the descriptor ring of *)
(* eth/rx_descr.rs, scanned by CommonSmoltcpDriver::receive and emptied by *)
(* SmoltcpRxToken::consume (eth/smoltcp.rs), while the DMA of the GEM      *)
(* fills it.  The scan reads one descriptor after another, and the GEM may *)
(* fill any of them in between.                                            *)
(*                                                                         *)
(* A frame is named by its order of arrival, 1, 2, 3, ...; a frame that    *)
(* finds no buffer is dropped by the GEM and has no name.  A buffer is two *)
(* cache lines, each with its copy in DDR and perhaps one in the cache.    *)
(***************************************************************************)
EXTENDS Integers, FiniteSets

CONSTANTS
  Slots,          \* number of descriptors, and of buffers
  MaxFrames,      \* bound on the number of frames that are received
  Disturbances    \* what may happen in a behaviour besides: sets of "long_frame" (frames of
                  \* two slots), "stack_write" (the stack modifies the buffer it is lent, a
                  \* &mut [u8]) and "prefetch" (the CPU fetches lines speculatively)

RxRingAssumption ==
  /\ Slots \in Nat \ {0, 1} /\ MaxFrames \in Nat
  /\ Disturbances \subseteq SUBSET {"long_frame", "stack_write", "prefetch"}

VARIABLES
  may,         \* the member of Disturbances for this behaviour
  slot,        \* each descriptor: owner, wrap, start and end of frame
  frame,       \* the frame whose part each buffer was last filled with
  line,        \* the two lines of each buffer: cached copy and DDR
  current,     \* DescriptorListWrapper::current_idx
  pc,          \* how far the driver task is in receive() and consume()
  scan,        \* the locals of the scan: current_idx, handled_slots, start_idx
  hwIdx,       \* the descriptor the GEM fills next
  inFrame,     \* the GEM has filled the first slot of a frame of two
  received,    \* number of frames the GEM has stored (or begun to store)
  delivered,   \* how often each frame was handed to the stack, at most 2
  lastRead     \* the frame of the last token and what the stack read in its lines

driverVars == <<current, pc, scan>>
gemVars == <<hwIdx, inFrame, received>>
vars == <<may, slot, frame, line, current, pc, scan, hwIdx, inFrame, received, delivered, lastRead>>

Slot == 0 .. Slots - 1
Frame == 1 .. MaxFrames
Part == {"first", "rest"}
scribble == -1      \* what the stack leaves in a buffer it modifies
None == -1          \* no start_idx found

next_index(i) == (i + 1) % Slots

clear_slot_unchanged(s) == s
clear_slot(s) == [s EXCEPT !.own = "Hardware"]

(* The slot that consume gives back, token being the slot it was made for. *)
released(token) == token

(* One line: what the CPU reads, and the maintenance operations.           *)
view(l) == IF l.cache = "absent" THEN l.ddr ELSE l.val
fetched(l) == IF l.cache = "absent" THEN [l EXCEPT !.cache = "clean", !.val = l.ddr] ELSE l
written(l, v) == [l EXCEPT !.cache = "dirty", !.val = v]
dropped(l) == [l EXCEPT !.cache = "absent", !.val = 0]
clean_invalidate(l) == dropped([l EXCEPT !.ddr = IF l.cache = "dirty" THEN l.val ELSE @])

(* invalidate_data_cache_range reaches only the first line of its range    *)
(* (cache.rs:73, see CacheMaintenance).                                    *)
invalidate_range(b) == [b EXCEPT !["first"] = dropped(@)]

clean_and_invalidate_nothing(b) == b
clean_and_invalidate_range(b) == [p \in Part |-> clean_invalidate(b[p])]

-----------------------------------------------------------------------------
(* The ring after init_with_aligned_bufs: all slots given to the hardware. *)
Init ==
  /\ may \in Disturbances
  /\ slot = [i \in Slot |-> [own |-> "Hardware", wrap |-> i = Slots - 1,
                             sof |-> FALSE, eof |-> FALSE]]
  /\ frame = [i \in Slot |-> 0]
  /\ line = [i \in Slot |-> [p \in Part |-> [cache |-> "absent", val |-> 0, ddr |-> 0]]]
  /\ current = 0 /\ pc = "idle"
  /\ scan = [at |-> 0, handled |-> 0, start |-> None]
  /\ hwIdx = 0 /\ inFrame = FALSE /\ received = 0
  /\ delivered = [f \in Frame |-> 0]
  /\ lastRead = [frame |-> 0, first |-> 0, rest |-> 0]

-----------------------------------------------------------------------------
(* receive(): scan_and_handle_next_received_frame, one descriptor a step.  *)
(* That receive gives up while the transmit ring is full only delays it;   *)
(* EthTxRing shows that the transmit ring drains.                          *)

receive ==
  /\ pc = "idle"
  /\ pc' = "scanning"
  /\ scan' = [at |-> current, handled |-> 0, start |-> None]
  /\ UNCHANGED <<may, slot, frame, line, current, gemVars, delivered, lastRead>>

scan_on == /\ scan' = [scan EXCEPT !.at = next_index(@), !.handled = @ + 1]
           /\ UNCHANGED <<current, pc>>

(* FrameScanResult::NoFrames after the whole list was looked at.           *)
no_frames ==
  /\ pc = "scanning"
  /\ scan.handled = Slots
  /\ pc' = "idle"
  /\ UNCHANGED <<may, slot, frame, line, current, scan, gemVars, delivered, lastRead>>

(* The driver always asks for a scan of the full list.                     *)
scan_hardware_slot ==
  /\ pc = "scanning" /\ scan.handled < Slots
  /\ slot[scan.at].own = "Hardware"
  /\ scan_on
  /\ UNCHANGED <<may, slot, frame, line, gemVars, delivered, lastRead>>

(* FrameScanResult::SingleFrame: the token names the slot.                 *)
scan_single_frame ==
  /\ pc = "scanning" /\ scan.handled < Slots
  /\ slot[scan.at].own = "Software"
  /\ slot[scan.at].sof /\ slot[scan.at].eof
  /\ current' = next_index(scan.at)
  /\ pc' = "token"
  /\ UNCHANGED <<may, slot, frame, line, scan, gemVars, delivered, lastRead>>

(* FrameScanResult::BrokenFragments goes on to clear_slots(start, at).     *)
scan_start ==
  /\ pc = "scanning" /\ scan.handled < Slots
  /\ slot[scan.at].own = "Software"
  /\ slot[scan.at].sof /\ ~ slot[scan.at].eof
  /\ \/ scan.start # None /\ pc' = "clearing" /\ UNCHANGED <<current, scan>>
     \/ /\ scan.start = None
        /\ scan' = [at |-> next_index(scan.at), handled |-> scan.handled + 1, start |-> scan.at]
        /\ UNCHANGED <<current, pc>>
  /\ UNCHANGED <<may, slot, frame, line, gemVars, delivered, lastRead>>

(* FrameScanResult::MultiSlotFrame, on which receive() does nothing.       *)
scan_end ==
  /\ pc = "scanning" /\ scan.handled < Slots
  /\ slot[scan.at].own = "Software"
  /\ ~ slot[scan.at].sof /\ slot[scan.at].eof
  /\ \/ scan.start # None /\ current' = next_index(scan.at) /\ pc' = "idle" /\ UNCHANGED scan
     \/ scan.start = None /\ scan_on
  /\ UNCHANGED <<may, slot, frame, line, gemVars, delivered, lastRead>>

(* clear_slots, one descriptor a step, up to the second start, exclusive.  *)
clear_slots ==
  /\ pc = "clearing"
  /\ \/ /\ scan.start # scan.at
        /\ slot' = [slot EXCEPT ![scan.start] = clear_slot(@)]
        /\ scan' = [scan EXCEPT !.start = next_index(@)]
        /\ UNCHANGED <<current, pc>>
     \/ /\ scan.start = scan.at
        /\ current' = next_index(scan.at)
        /\ pc' = "idle"
        /\ UNCHANGED <<may, slot, scan>>
  /\ UNCHANGED <<may, frame, line, gemVars, delivered, lastRead>>

-----------------------------------------------------------------------------
(* SmoltcpRxToken::consume on the slot of the token.                       *)

consume_invalidate ==
  /\ pc = "token"
  /\ line' = [line EXCEPT ![scan.at] = invalidate_range(@)]
  /\ pc' = "invalidated"
  /\ UNCHANGED <<may, slot, frame, current, scan, gemVars, delivered, lastRead>>

(* The closure of the stack reads the frame, and may write to the buffer.  *)
consume_read ==
  /\ pc = "invalidated"
  /\ LET b == line[scan.at]  f == frame[scan.at]
     IN  /\ lastRead' = [frame |-> f, first |-> view(b["first"]), rest |-> view(b["rest"])]
         /\ delivered' = [delivered EXCEPT ![f] = IF @ = 0 THEN 1 ELSE 2]
         /\ \/ line' = [line EXCEPT ![scan.at] = [p \in Part |-> fetched(b[p])]]
            \/ /\ "stack_write" \in may
               /\ line' = [line EXCEPT ![scan.at] = [p \in Part |-> written(b[p], scribble)]]
  /\ pc' = "read"
  /\ UNCHANGED <<may, slot, frame, current, scan, gemVars>>

consume_clear_slot ==
  /\ pc = "read"
  /\ slot' = [slot EXCEPT ![released(scan.at)] = clear_slot(@)]
  /\ pc' = "cleared"
  /\ UNCHANGED <<may, frame, line, current, scan, gemVars, delivered, lastRead>>

consume_flush ==
  /\ pc = "cleared"
  /\ line' = [line EXCEPT ![scan.at] = clean_and_invalidate_range(@)]
  /\ pc' = "idle"
  /\ UNCHANGED <<may, slot, frame, current, scan, gemVars, delivered, lastRead>>

-----------------------------------------------------------------------------
(* The GEM: it stores a frame in the slots from hwIdx on, and drops what   *)
(* finds the slot owned by the software.                                   *)

gem_store(f, sof, eof) ==
  /\ slot[hwIdx].own = "Hardware"
  /\ slot' = [slot EXCEPT ![hwIdx] = [@ EXCEPT !.own = "Software", !.sof = sof, !.eof = eof]]
  /\ frame' = [frame EXCEPT ![hwIdx] = f]
  /\ line' = [line EXCEPT ![hwIdx] = [p \in Part |-> [@[p] EXCEPT !.ddr = f]]]
  /\ hwIdx' = IF slot[hwIdx].wrap THEN 0 ELSE hwIdx + 1
  /\ UNCHANGED <<may, driverVars, delivered, lastRead>>

gem_first_slot ==
  /\ ~ inFrame /\ received < MaxFrames
  /\ \E more \in {b \in BOOLEAN : b => "long_frame" \in may} :
       gem_store(received + 1, TRUE, ~ more) /\ inFrame' = more
  /\ received' = received + 1

gem_last_slot ==
  /\ inFrame
  /\ gem_store(received, FALSE, TRUE)
  /\ inFrame' = FALSE
  /\ UNCHANGED received

(* No buffer for the rest of the frame: it is lost, its start remains.     *)
gem_out_of_buffers ==
  /\ inFrame
  /\ slot[hwIdx].own = "Software"
  /\ inFrame' = FALSE
  /\ UNCHANGED <<may, slot, frame, line, driverVars, hwIdx, received, delivered, lastRead>>

(* What the cache does on its own.                                         *)
prefetch ==
  /\ "prefetch" \in may
  /\ \E i \in Slot, p \in Part :
       /\ line[i][p].cache = "absent"
       /\ line' = [line EXCEPT ![i][p] = fetched(@)]
  /\ UNCHANGED <<may, slot, frame, driverVars, gemVars, delivered, lastRead>>

evict ==
  /\ \E i \in Slot, p \in Part :
       /\ line[i][p].cache # "absent"
       /\ line' = [line EXCEPT ![i][p] = clean_invalidate(@)]
  /\ UNCHANGED <<may, slot, frame, driverVars, gemVars, delivered, lastRead>>

-----------------------------------------------------------------------------
Driver ==
  \/ receive \/ no_frames \/ scan_hardware_slot \/ scan_single_frame
  \/ scan_start \/ scan_end \/ clear_slots
  \/ consume_invalidate \/ consume_read \/ consume_clear_slot \/ consume_flush

Gem == gem_first_slot \/ gem_last_slot \/ gem_out_of_buffers

Next == Driver \/ Gem \/ prefetch \/ evict

(* The stack polls the driver again and again: receive registers its waker *)
(* before it looks, and the GEM interrupt wakes it.                        *)
Spec == Init /\ [][Next]_vars /\ WF_vars(Driver)

-----------------------------------------------------------------------------
(* Every frame is handed to the stack at most once, however the scan and   *)
(* the GEM overlap, with frames of several slots and fragments of them.    *)
DeliveredOnce == \A f \in Frame : delivered[f] <= 1

(* What the stack reads is the frame the GEM stored, in every line of the  *)
(* buffer: no stale line of an earlier frame, nothing written over it.     *)
(* Without cleaning after use this fails, since the invalidation misses    *)
(* the later lines; a speculative fetch still makes these stale, and what  *)
(* the stack writes is cleaned only after the slot was given back.         *)
FrameIntact ==
  "stack_write" \notin may =>
    /\ lastRead.first = lastRead.frame
    /\ "prefetch" \notin may => lastRead.rest = lastRead.frame

(* Scanning the full list can find a later frame first, when the GEM fills *)
(* a slot just after the scan passed it, but less often than there are     *)
(* slots: the GEM cannot pass the slot that was skipped.                   *)
OvertakingBounded ==
  "long_frame" \notin may =>
    \A f \in 1 .. received : delivered[f] = 0 =>
      Cardinality({g \in f + 1 .. received : delivered[g] > 0}) < Slots

(* The stack gets the frames the GEM stored: each once, intact, and in an  *)
(* order that is disturbed by less than a ring.                            *)
FramesDelivered == DeliveredOnce /\ FrameIntact /\ OvertakingBounded

(* A slot that holds a whole frame is given back to the GEM in the end,    *)
(* even if slots of longer frames are lost around it.  (Given that at most *)
(* MaxFrames are received, for each slot: WholeFrame(i) ~> ~ WholeFrame(i).) *)
WholeFrame(i) == slot[i].own = "Software" /\ slot[i].sof /\ slot[i].eof
SlotReturned == []<>(\A i \in Slot : ~ WholeFrame(i))
=============================================================================
