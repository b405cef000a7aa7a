---------------------------- MODULE EthInterrupt ----------------------------
(***************************************************************************)
(* The interrupt of the Ethernet controller and the wakers of the network  *)
(* task (eth/mod.rs on_interrupt, eth/embassy_net.rs).  The handler works  *)
(* on a copy of the status and clears it at its end, the controller goes   *)
(* on meanwhile, and the handler comes between any two steps of the task,  *)
(* which registers its wakers, looks at the rings and goes to sleep.       *)
(*                                                                         *)
(* The rings themselves are EthTxRing and EthRxRing; here they are counts. *)
(***************************************************************************)
EXTENDS Integers

CONSTANTS
  RxSlots, TxSlots,  \* slots of the rings
  MaxFrames,         \* bound on the frames that arrive
  MaxSend,           \* bound on the frames the sockets send of their own accord
  MaxFailures        \* bound on the frames that cannot be sent

EthInterruptAssumption ==
  /\ RxSlots \in Nat \ {0} /\ TxSlots \in Nat \ {0}
  /\ MaxFrames \in Nat /\ MaxSend \in Nat /\ MaxFailures \in Nat

VARIABLES
  rx,        \* frames in the receive ring
  tx,        \* slots of the transmit ring the controller owns
  arrived,   \* frames that arrived
  to_send,   \* frames the sockets want to send
  asked,     \* frames the sockets ever wanted to send
  failed,    \* frames that could not be sent
  status,    \* bits set in the interrupt status register
  enabled,   \* interrupts that are enabled
  tx_status, \* bits set in the transmit status register: late collision, retry limit
  handler,   \* how far on_interrupt is, "none" outside
  copy,      \* its copy of the status
  tx_copy,   \* what it clears in the transmit status
  wakers,    \* TX_WAKER and RX_WAKER that hold the waker of the task
  task,      \* how far the network task is
  woken      \* the task was woken since it was last polled

ringVars == <<rx, tx, arrived, to_send, asked, failed>>
regVars == <<status, enabled, tx_status>>
handlerVars == <<handler, copy, tx_copy>>
taskVars == <<wakers, task, woken>>
vars == <<rx, tx, arrived, to_send, asked, failed, status, enabled, tx_status,
          handler, copy, tx_copy, wakers, task, woken>>

IRQ_CONTROL == {"hresp_not_ok", "rx_overrun", "frame_sent", "tx_frame_corruption",
                "tx_retry_or_late", "tx_read_when_used", "rx_read_when_used", "frame_received"}
cleared_on_read == {"tx_frame_corruption"}
Waker == {"RX_WAKER", "TX_WAKER"}

Init ==
  /\ rx = 0 /\ tx = 0 /\ arrived = 0 /\ to_send = 0 /\ asked = 0 /\ failed = 0
  /\ status = {} /\ enabled = IRQ_CONTROL /\ tx_status = {}
  /\ handler = "none" /\ copy = {} /\ tx_copy = {}
  /\ wakers = {} /\ task = "sleep" /\ woken = TRUE

-----------------------------------------------------------------------------
(* The network task: the stack takes frames from receive() until there is  *)
(* none, sends what the sockets want to send, and sleeps.                  *)
full == tx = TxSlots

poll ==
  /\ task = "sleep" /\ woken /\ handler = "none"
  /\ woken' = FALSE
  /\ task' = "receive"
  /\ UNCHANGED <<ringVars, regVars, handlerVars, wakers>>

receive_register ==
  /\ task = "receive" /\ handler = "none"
  /\ wakers' = Waker
  /\ task' = "scan"
  /\ UNCHANGED <<ringVars, regVars, handlerVars, woken>>

(* A frame comes with a token to answer it, which the stack may use.       *)
receive ==
  /\ task = "scan" /\ handler = "none"
  /\ \/ /\ rx > 0 /\ ~ full
        /\ rx' = rx - 1 /\ tx' \in {tx, tx + 1}
        /\ task' = "receive"
     \/ /\ rx = 0 \/ full
        /\ task' = "transmit" /\ UNCHANGED <<rx, tx>>
  /\ UNCHANGED <<arrived, to_send, asked, failed, regVars, handlerVars, wakers, woken>>

transmit_register ==
  /\ task = "transmit" /\ handler = "none"
  /\ IF to_send > 0 THEN task' = "send" /\ wakers' = wakers \cup {"TX_WAKER"}
                    ELSE task' = "sleep" /\ UNCHANGED wakers
  /\ UNCHANGED <<ringVars, regVars, handlerVars, woken>>

transmit ==
  /\ task = "send" /\ handler = "none"
  /\ IF full THEN task' = "sleep" /\ UNCHANGED <<tx, to_send>>
             ELSE task' = "transmit" /\ tx' = tx + 1 /\ to_send' = to_send - 1
  /\ UNCHANGED <<rx, arrived, asked, failed, regVars, handlerVars, wakers, woken>>

(* A socket asks for a frame to be sent and wakes the task.                *)
socket_send ==
  /\ asked < MaxSend /\ handler = "none" /\ task = "sleep"
  /\ asked' = asked + 1 /\ to_send' = to_send + 1
  /\ woken' = TRUE
  /\ UNCHANGED <<rx, tx, arrived, failed, regVars, handlerVars, wakers, task>>

-----------------------------------------------------------------------------
(* on_interrupt.                                                           *)
read_interrupt_status ==
  /\ handler = "none" /\ status \cap enabled # {}
  /\ copy' = status
  /\ status' = status \ cleared_on_read
  /\ handler' = "wake"
  /\ UNCHANGED <<ringVars, enabled, tx_status, tx_copy, taskVars>>

(* Mutant: only received frames wake the task.                             *)
wakes_receiver_only == IF copy \cap {"frame_received", "rx_overrun"} # {} THEN {"RX_WAKER"} ELSE {}

wakes == (IF "frame_sent" \in copy THEN {"TX_WAKER"} ELSE {})
         \cup (IF copy \cap {"frame_received", "rx_overrun"} # {} THEN {"RX_WAKER"} ELSE {})

(* Of a late collision and a retry limit only the former is reported.      *)
reported(bits) == IF "late_collision" \in bits THEN {"late_collision"} ELSE {"retry_limit_reached"}

handle_status ==
  /\ handler = "wake"
  /\ woken' = (woken \/ wakers \cap wakes # {})
  /\ wakers' = wakers \ wakes
  /\ tx_copy' = IF "tx_retry_or_late" \in copy THEN reported(tx_status) ELSE {}
  /\ handler' = "clear"
  /\ UNCHANGED <<ringVars, regVars, copy, task>>

(* Mutant: every event is cleared, not only those of the copy.             *)
clear_all == IRQ_CONTROL \ cleared_on_read

clear == copy \ cleared_on_read
disable == copy \cap {"rx_overrun"}

write_clear ==
  /\ handler = "clear"
  /\ status' = status \ clear
  /\ enabled' = enabled \ disable
  /\ tx_status' = tx_status \ tx_copy
  /\ handler' = "none"
  /\ UNCHANGED <<ringVars, copy, tx_copy, taskVars>>

-----------------------------------------------------------------------------
(* The controller.                                                         *)
frame_arrives ==
  /\ arrived < MaxFrames
  /\ arrived' = arrived + 1
  /\ \/ rx < RxSlots /\ rx' = rx + 1 /\ status' = status \cup {"frame_received"}
     \/ rx = RxSlots /\ status' = status \cup {"rx_read_when_used"} /\ UNCHANGED rx
     \/ status' = status \cup {"rx_overrun"} /\ UNCHANGED rx
  /\ UNCHANGED <<tx, to_send, asked, failed, enabled, tx_status, handlerVars, taskVars>>

last_sent == IF tx = 1 THEN {"tx_read_when_used"} ELSE {}

send_frame ==
  /\ tx > 0
  /\ tx' = tx - 1
  /\ status' = status \cup last_sent \cup {"frame_sent"}
  /\ UNCHANGED <<rx, arrived, to_send, asked, failed, enabled, tx_status, handlerVars, taskVars>>

fail_frame ==
  /\ failed < MaxFailures /\ tx > 0
  /\ tx' = tx - 1
  /\ failed' = failed + 1
  /\ \/ /\ status' = status \cup last_sent \cup {"tx_retry_or_late"}
        /\ \E b \in {"late_collision", "retry_limit_reached"} : tx_status' = tx_status \cup {b}
     \/ /\ \E e \in {"tx_frame_corruption", "hresp_not_ok"} : status' = status \cup last_sent \cup {e}
        /\ UNCHANGED tx_status
  /\ UNCHANGED <<rx, arrived, to_send, asked, enabled, handlerVars, taskVars>>

Task == poll \/ receive_register \/ receive \/ transmit_register \/ transmit
Handler == read_interrupt_status \/ handle_status \/ write_clear
Gem == send_frame \/ fail_frame

Next == Task \/ socket_send \/ Handler \/ Gem \/ frame_arrives

(* The executor runs a woken task, the core takes its interrupts, and the  *)
(* controller gets rid of what it owns.                                    *)
Spec == Init /\ [][Next]_vars /\ WF_vars(Task) /\ WF_vars(Handler) /\ WF_vars(Gem)

-----------------------------------------------------------------------------
(* What will still wake the task: the bit b is set, or seen and not yet    *)
(* acted on, and the waker it wakes holds the task.                        *)
coming(b) == b \in status \/ (handler = "wake" /\ b \in copy)
WakeComes(w, b) == w \in wakers /\ coming(b)

(* The task never sleeps over a frame it could handle: it is woken, or     *)
(* will be by the interrupt of the frame that arrived, or, where it waits  *)
(* for a free transmit slot, by that of the frame that is sent.            *)
NoLostWakeup ==
  task = "sleep" /\ ~ woken /\ failed = 0 =>
    /\ rx > 0 => \/ WakeComes("RX_WAKER", "frame_received")
                 \/ "TX_WAKER" \in wakers /\ (full \/ coming("frame_sent"))
    /\ to_send > 0 => "TX_WAKER" \in wakers /\ (full \/ coming("frame_sent"))

(* Unless sending fails, every frame that arrived is handled and every     *)
(* frame a socket wants to send gets its slot: no wake-up is lost, and no  *)
(* interrupt is left set that would keep the handler busy for ever.        *)
NothingStuck == [](failed = 0) => ((rx > 0 \/ to_send > 0) ~> (rx = 0 /\ to_send = 0))
=============================================================================
