--------------------------- MODULE EthernetProofs ---------------------------
(***************************************************************************)
(* Proofs about the Ethernet controller: its interrupt with the network    *)
(* task it wakes (EthInterrupt), for rings of every size; the link         *)
(* (EthLink), for all speeds and however often the PHY renegotiates; and   *)
(* the receive ring (EthRxRing), for rings of every size and any number of *)
(* frames.                                                                 *)
(*                                                                         *)
(* All are seen as MCEthernet instantiates them.                           *)
(***************************************************************************)
EXTENDS MCEthernet, FiniteSetTheorems, TLAPS

USE MCEthernetAssumption

-----------------------------------------------------------------------------
(* The interrupt.                                                          *)

TaskState == {"sleep", "receive", "scan", "transmit", "send"}
TxError == {"late_collision", "retry_limit_reached"}

IrqTypeOK ==
  /\ rx \in 0 .. RxSlots /\ tx \in 0 .. TxSlots
  /\ arrived \in Nat /\ to_send \in Nat /\ asked \in Nat /\ failed \in Nat
  /\ status \subseteq Irq!IRQ_CONTROL /\ enabled \subseteq Irq!IRQ_CONTROL
  /\ tx_status \subseteq TxError
  /\ handler \in {"none", "wake", "clear"}
  /\ copy \subseteq Irq!IRQ_CONTROL /\ tx_copy \subseteq TxError
  /\ wakers \subseteq Irq!Waker /\ task \in TaskState /\ woken \in BOOLEAN

(* The task is in "send" only with something to send.                      *)
SendHasFrame == task = "send" => to_send > 0

(* Once the handler has woken a waker nothing is registered in it until    *)
(* the handler ends: an event it clears without having seen it twice finds *)
(* the task woken.                                                         *)
WokenIsEmptied ==
  handler = "clear" =>
    /\ copy \cap {"frame_received", "rx_overrun"} # {} => "RX_WAKER" \notin wakers
    /\ "frame_sent" \in copy => "TX_WAKER" \notin wakers

(* Between a registration and the sleep a waker holds the task, or has     *)
(* woken it.                                                               *)
Registered ==
  /\ task # "receive" => woken \/ "RX_WAKER" \in wakers
  /\ task \in {"scan", "send"} => woken \/ "TX_WAKER" \in wakers

(* What will make the task look at a frame again.                          *)
SlotComes == "TX_WAKER" \in wakers /\ (Irq!full \/ Irq!coming("frame_sent"))
ReceiveCovered == woken \/ Irq!WakeComes("RX_WAKER", "frame_received") \/ SlotComes

(* From the moment the task gave up looking, what there is to do is        *)
(* covered, unless a frame failed to be sent: that wakes nobody.           *)
WorkCovered ==
  failed = 0 =>
    /\ task \in {"transmit", "send", "sleep"} /\ rx > 0 => ReceiveCovered
    /\ task = "sleep" /\ to_send > 0 => woken \/ SlotComes

WakeInv == IrqTypeOK /\ SendHasFrame /\ WokenIsEmptied /\ Registered /\ WorkCovered

LEMMA InitWake ==
  Irq!Init => WakeInv
BY DEF Irq!EthInterruptAssumption, Irq!Init, WakeInv, IrqTypeOK, TaskState, SendHasFrame,
       WokenIsEmptied, Registered,
       WorkCovered, ReceiveCovered

(* No count leaves its ring, and no bit its register.                      *)
LEMMA IrqTypeStep ==
  ASSUME IrqTypeOK, SendHasFrame, [Irq!Next]_(Irq!vars)
  PROVE  IrqTypeOK'
<1> USE DEF IrqTypeOK, Irq!EthInterruptAssumption, TaskState, Irq!IRQ_CONTROL, Irq!Waker,
        TxError
<1>1. CASE Irq!poll
  BY <1>1 DEF Irq!poll, Irq!ringVars, Irq!regVars, Irq!handlerVars
<1>2. CASE Irq!receive_register
  BY <1>2 DEF Irq!receive_register, Irq!ringVars, Irq!regVars, Irq!handlerVars
<1>3. CASE Irq!receive
  BY <1>3 DEF Irq!receive, Irq!full, Irq!regVars, Irq!handlerVars
<1>4. CASE Irq!transmit_register
  BY <1>4 DEF Irq!transmit_register, Irq!ringVars, Irq!regVars, Irq!handlerVars
<1>5. CASE Irq!transmit
  BY <1>5 DEF Irq!transmit, Irq!full, Irq!regVars, Irq!handlerVars, SendHasFrame
<1>6. CASE Irq!socket_send
  BY <1>6 DEF Irq!socket_send, Irq!regVars, Irq!handlerVars
<1>7. CASE Irq!read_interrupt_status
  BY <1>7 DEF Irq!read_interrupt_status, Irq!ringVars, Irq!taskVars
<1>8. CASE Irq!handle_status
  BY <1>8 DEF Irq!handle_status, Irq!reported, Irq!ringVars, Irq!regVars
<1>9. CASE Irq!write_clear
  BY <1>9 DEF Irq!write_clear, Irq!ringVars, Irq!taskVars
<1>10. CASE Irq!frame_arrives
  <2>1. rx' \in 0 .. RxSlots /\ arrived' \in Nat
    BY <1>10 DEF Irq!frame_arrives
  <2>2. status' \subseteq Irq!IRQ_CONTROL
    BY <1>10 DEF Irq!frame_arrives
  <2> QED
    BY <1>10, <2>1, <2>2 DEF Irq!frame_arrives, Irq!handlerVars, Irq!taskVars
<1>11. CASE Irq!send_frame
  BY <1>11 DEF Irq!send_frame, Irq!last_sent, Irq!handlerVars, Irq!taskVars
<1>12. CASE Irq!fail_frame
  <2>1. tx' \in 0 .. TxSlots /\ failed' \in Nat
    BY <1>12 DEF Irq!fail_frame
  <2>2. status' \subseteq Irq!IRQ_CONTROL /\ tx_status' \subseteq TxError
    <3>1. Irq!last_sent \subseteq Irq!IRQ_CONTROL
      BY DEF Irq!last_sent
    <3> QED
      BY <1>12, <3>1 DEF Irq!fail_frame
  <2> QED
    BY <1>12, <2>1, <2>2 DEF Irq!fail_frame, Irq!handlerVars, Irq!taskVars
<1>13. CASE UNCHANGED Irq!vars
  BY <1>13 DEF Irq!vars
<1> QED
  BY <1>1, <1>2, <1>3, <1>4, <1>5, <1>6, <1>7, <1>8, <1>9, <1>10, <1>11, <1>12, <1>13
     DEF Irq!Next, Irq!Task, Irq!Handler, Irq!Gem

(* What the task registers and what the handler wakes.                     *)
LEMMA RegisteredStep ==
  ASSUME WakeInv, [Irq!Next]_(Irq!vars)
  PROVE  SendHasFrame' /\ WokenIsEmptied' /\ Registered'
<1> USE DEF WakeInv, IrqTypeOK, TaskState, Irq!Waker, SendHasFrame, WokenIsEmptied, Registered
<1>1. CASE Irq!poll
  BY <1>1 DEF Irq!poll, Irq!ringVars, Irq!regVars, Irq!handlerVars
<1>2. CASE Irq!receive_register
  BY <1>2 DEF Irq!receive_register, Irq!ringVars, Irq!regVars, Irq!handlerVars
<1>3. CASE Irq!receive
  BY <1>3 DEF Irq!receive, Irq!regVars, Irq!handlerVars
<1>4. CASE Irq!transmit_register
  BY <1>4 DEF Irq!transmit_register, Irq!ringVars, Irq!regVars, Irq!handlerVars
<1>5. CASE Irq!transmit
  BY <1>5 DEF Irq!transmit, Irq!regVars, Irq!handlerVars
<1>6. CASE Irq!socket_send
  BY <1>6 DEF Irq!socket_send, Irq!regVars, Irq!handlerVars
<1>7. CASE Irq!read_interrupt_status
  BY <1>7 DEF Irq!read_interrupt_status, Irq!ringVars, Irq!taskVars
<1>8. CASE Irq!handle_status
  BY <1>8 DEF Irq!handle_status, Irq!wakes, Irq!ringVars, Irq!regVars
<1>9. CASE Irq!write_clear
  BY <1>9 DEF Irq!write_clear, Irq!ringVars, Irq!taskVars
<1>10. CASE Irq!frame_arrives \/ Irq!send_frame \/ Irq!fail_frame \/ UNCHANGED Irq!vars
  BY <1>10 DEF Irq!frame_arrives, Irq!send_frame, Irq!fail_frame, Irq!handlerVars,
               Irq!taskVars, Irq!vars
<1> QED
  BY <1>1, <1>2, <1>3, <1>4, <1>5, <1>6, <1>7, <1>8, <1>9, <1>10
     DEF Irq!Next, Irq!Task, Irq!Handler, Irq!Gem

(* What covers the work stays until the task is woken.                     *)
LEMMA CoveredStep ==
  ASSUME WakeInv, [Irq!Next]_(Irq!vars)
  PROVE  WorkCovered'
<1> SUFFICES ASSUME failed' = 0 PROVE WorkCovered'
  BY DEF WorkCovered
<1> USE DEF WakeInv, IrqTypeOK, TaskState, Irq!Waker, SendHasFrame, WokenIsEmptied, Registered,
            WorkCovered, ReceiveCovered, SlotComes, Irq!WakeComes, Irq!coming, Irq!full
<1>1. CASE Irq!poll
  BY <1>1 DEF Irq!poll, Irq!ringVars, Irq!regVars, Irq!handlerVars
<1>2. CASE Irq!receive_register
  BY <1>2 DEF Irq!receive_register, Irq!ringVars, Irq!regVars, Irq!handlerVars
<1>3. CASE Irq!receive
  BY <1>3 DEF Irq!receive, Irq!regVars, Irq!handlerVars
<1>4. CASE Irq!transmit_register
  BY <1>4 DEF Irq!transmit_register, Irq!ringVars, Irq!regVars, Irq!handlerVars
<1>5. CASE Irq!transmit
  BY <1>5 DEF Irq!transmit, Irq!regVars, Irq!handlerVars
<1>6. CASE Irq!socket_send
  BY <1>6 DEF Irq!socket_send, Irq!regVars, Irq!handlerVars
<1>7. CASE Irq!read_interrupt_status
  BY <1>7 DEF Irq!read_interrupt_status, Irq!cleared_on_read, Irq!ringVars, Irq!taskVars
<1>8. CASE Irq!handle_status
  BY <1>8 DEF Irq!handle_status, Irq!wakes, Irq!ringVars, Irq!regVars
<1>9. CASE Irq!write_clear
  BY <1>9 DEF Irq!write_clear, Irq!clear, Irq!ringVars, Irq!taskVars
<1>10. CASE Irq!frame_arrives
  BY <1>10 DEF Irq!frame_arrives, Irq!handlerVars, Irq!taskVars
<1>11. CASE Irq!send_frame
  BY <1>11 DEF Irq!send_frame, Irq!handlerVars, Irq!taskVars
<1>12. CASE Irq!fail_frame
  BY <1>12 DEF Irq!fail_frame
<1>13. CASE UNCHANGED Irq!vars
  BY <1>13 DEF Irq!vars
<1> QED
  BY <1>1, <1>2, <1>3, <1>4, <1>5, <1>6, <1>7, <1>8, <1>9, <1>10, <1>11, <1>12, <1>13
     DEF Irq!Next, Irq!Task, Irq!Handler, Irq!Gem

(* In every reachable state the work of a task that has given up looking   *)
(* is covered, and no count leaves its ring: a free transmit slot and a    *)
(* received frame are never counted twice.                                 *)
THEOREM WakeInvariant == Irq!Spec => []WakeInv
<1>1. WakeInv /\ [Irq!Next]_(Irq!vars) => WakeInv'
  BY IrqTypeStep, RegisteredStep, CoveredStep DEF WakeInv
<1>2. Irq!Init => WakeInv
  BY InitWake
<1> QED
  BY <1>1, <1>2, PTL DEF Irq!Spec

(* The network task never sleeps over a frame it could handle or send,     *)
(* wherever the interrupt comes between registering, looking and sleeping. *)
THEOREM WakeupNotLost == Irq!Spec => []NoLostWakeup
<1>1. WakeInv => NoLostWakeup
  BY DEF WakeInv, WorkCovered, ReceiveCovered, SlotComes, NoLostWakeup,
         Irq!NoLostWakeup
<1> QED
  BY WakeInvariant, <1>1, PTL
-----------------------------------------------------------------------------
(* The link.                                                               *)

LinkMode == {"common_init", "new_with_mio", "start", "phy_reset", "restart_auto_negotiation",
             "LinkDown", "AutoNegotiating", "AwaitingIpConfig", "StackReady"}

LinkTypeOK ==
  /\ net_ctrl \subseteq {"rx", "tx", "mgmt"} /\ mac \in Link!Settings /\ clk \in Speeds
  /\ driver \in [setting : Link!Settings, clk_divs : Speeds]
  /\ ip_mode \in LinkMode /\ access \in {"none", "status", "setting"}
  /\ asleep \in BOOLEAN /\ seen \in Link!Settings
  /\ LINK_STATE \in BOOLEAN /\ stack_link \in BOOLEAN /\ link_waker \in BOOLEAN
  /\ net_woken \in BOOLEAN /\ config_up \in BOOLEAN
  /\ phy \in [link : BOOLEAN, down : BOOLEAN, complete : BOOLEAN, setting : Link!Settings,
               changes : Nat]

(* Only AutoNegotiating reads the PHY in several accesses.                 *)
AccessInOrder == access # "none" => ip_mode = "AutoNegotiating"

(* Once the negotiation was seen to be complete it still is, or its loss   *)
(* is latched; the same of the setting that was read.                      *)
LossLatched ==
  /\ access = "status" => phy.complete \/ phy.down
  /\ access = "setting" \/ Link!Settled => (phy.complete /\ seen = phy.setting) \/ phy.down

(* configure_clock_and_speed_duplex does not record what it configures: it *)
(* always compares with the setting of the construction.                   *)
DriverAsConstructed == driver = [setting |-> Link!AtConstruction, clk_divs |-> 1000]

BothEnabled ==
  ip_mode \notin {"common_init", "new_with_mio", "start"} => {"rx", "tx"} \subseteq net_ctrl

Configured == Link!Settled /\ seen # Link!AtConstruction => mac = seen

(* The transmit clock is always configured with the MAC.                   *)
ClockFits ==
  /\ ip_mode = "new_with_mio" => mac = Link!AtConstruction
  /\ ip_mode \notin {"common_init", "new_with_mio"} => clk = mac.speed

(* Until a link was lost, the MAC is as constructed, or has the only       *)
(* setting there ever was.                                                 *)
FirstSetting ==
  phy.changes = 0 =>
    /\ ip_mode \in {"start", "phy_reset", "restart_auto_negotiation"} => mac = Link!AtConstruction
    /\ ip_mode \in {"LinkDown", "AutoNegotiating"} =>
         mac = Link!AtConstruction \/ (phy.complete /\ mac = phy.setting)
    /\ access # "none" => phy.complete
    /\ access = "setting" => seen = phy.setting
    /\ Link!Settled => phy.complete /\ seen = phy.setting /\ mac = seen

LinkInv ==
  /\ LinkTypeOK /\ AccessInOrder /\ LossLatched
  /\ DriverAsConstructed /\ BothEnabled /\ Configured /\ ClockFits /\ FirstSetting

LEMMA InitLink ==
  Link!LinkInit => LinkInv
<1>1. 1000 \in Speeds /\ Link!AtConstruction \in Link!Settings
  BY DEF Link!EthLinkAssumption, Link!AtConstruction, Link!Settings
<1> SUFFICES ASSUME Link!LinkInit PROVE LinkInv
  OBVIOUS
<1>2. phy \in [link : BOOLEAN, down : BOOLEAN, complete : BOOLEAN, setting : Link!Settings,
               changes : Nat]
  BY <1>1 DEF Link!LinkInit
<1>3. driver \in [setting : Link!Settings, clk_divs : Speeds]
  BY <1>1 DEF Link!LinkInit
<1>4. LinkTypeOK
  BY <1>1, <1>2, <1>3 DEF Link!LinkInit, LinkTypeOK, LinkMode
<1> QED
  BY <1>4 DEF Link!LinkInit, LinkInv, AccessInOrder, LossLatched, Link!Settled,
              DriverAsConstructed,
              BothEnabled, Configured, ClockFits, FirstSetting

(* The PHY renegotiates only what was lost, and clears no latched loss.    *)
LEMMA PhyStepKeepsLoss ==
  ASSUME LinkTypeOK, Link!PhyStep
  PROVE  /\ phy' \in [link : BOOLEAN, down : BOOLEAN, complete : BOOLEAN, setting : Link!Settings,
                       changes : Nat]
         /\ phy'.down = phy.down /\ phy'.changes = phy.changes
         /\ phy.complete => phy'.complete /\ phy'.setting = phy.setting
<1> USE DEF LinkTypeOK
<1>1. CASE Link!negotiate
  <2>1. PICK s \in Link!Settings : phy' = [phy EXCEPT !.complete = TRUE, !.setting = s]
    BY <1>1 DEF Link!negotiate
  <2> QED
    BY <1>1, <2>1 DEF Link!negotiate
<1>2. CASE Link!bring_up
  BY <1>2 DEF Link!bring_up
<1> QED
  BY <1>1, <1>2 DEF Link!PhyStep

LEMMA LinkTypeStep ==
  ASSUME LinkTypeOK, [Link!LinkNext]_(Link!linkVars)
  PROVE  LinkTypeOK'
<1> USE DEF LinkTypeOK, LinkMode
<1>1. 1000 \in Speeds /\ Link!AtConstruction \in Link!Settings
  BY DEF Link!EthLinkAssumption, Link!AtConstruction, Link!Settings
<1>2. Link!lost \in [link : BOOLEAN, down : BOOLEAN, complete : BOOLEAN, setting : Link!Settings,
                changes : Nat]
  BY DEF Link!lost
<1>3. \A s \in Link!Settings : s.speed \in Speeds
  BY DEF Link!Settings
<1>4. CASE Link!common_init
  BY <1>1, <1>4 DEF Link!common_init, Link!initialize, Link!set_speed_and_duplex, Link!stackVars
<1>5. CASE Link!new_with_mio
  BY <1>1, <1>5 DEF Link!new_with_mio, Link!configure_clock_divs, Link!stackVars
<1>6. CASE Link!start
  BY <1>6 DEF Link!start, Link!set_tx_rx_enable, Link!stackVars
<1>7. CASE Link!phy_reset \/ Link!restart_auto_negotiation
  BY <1>2, <1>7 DEF Link!phy_reset, Link!restart_auto_negotiation, Link!macVars, Link!stackVars
<1>8. CASE Link!LinkDown
  BY <1>8 DEF Link!LinkDown, Link!update_link_state, Link!macVars
<1>9. CASE Link!AutoNegotiating_status
  BY <1>9 DEF Link!AutoNegotiating_status, Link!read_copper_status, Link!macVars, Link!stackVars
<1>10. CASE Link!read_copper_specific_status_register_1
  BY <1>10 DEF Link!read_copper_specific_status_register_1, Link!macVars, Link!stackVars
<1>11. CASE Link!AutoNegotiating_configure
  <2>1. /\ net_ctrl' \subseteq {"rx", "tx", "mgmt"} /\ mac' \in Link!Settings /\ clk' \in Speeds
        /\ driver' = driver
    BY <1>3, <1>11 DEF Link!AutoNegotiating_configure, Link!configure_clock_and_speed_duplex,
                       Link!configure_clock_divs, Link!set_speed_and_duplex,
                       Link!set_tx_rx_enable, Link!macVars
  <2> QED
    BY <1>11, <2>1 DEF Link!AutoNegotiating_configure, Link!update_link_state
<1>12. CASE Link!AwaitingIpConfig \/ Link!timer_expires
  BY <1>12 DEF Link!AwaitingIpConfig, Link!timer_expires, Link!macVars, Link!stackVars
<1>13. CASE Link!StackReady
  BY <1>13 DEF Link!StackReady, Link!read_copper_status, Link!macVars, Link!stackVars
<1>14. CASE Link!link_state \/ Link!get_address
  BY <1>14 DEF Link!link_state, Link!get_address, Link!macVars, Link!mainVars
<1>15. CASE Link!lose_link
  BY <1>2, <1>15 DEF Link!lose_link, Link!macVars, Link!mainVars, Link!stackVars
<1>16. CASE Link!PhyStep
  <2>1. UNCHANGED <<Link!macVars, Link!mainVars, Link!stackVars>>
    BY <1>16 DEF Link!PhyStep, Link!negotiate, Link!bring_up
  <2>2. phy' \in [link : BOOLEAN, down : BOOLEAN, complete : BOOLEAN, setting : Link!Settings,
                  changes : Nat]
    BY <1>16, PhyStepKeepsLoss DEF LinkInv
  <2> QED
    BY <2>1, <2>2 DEF Link!macVars, Link!mainVars, Link!stackVars
<1>17. CASE UNCHANGED Link!linkVars
  BY <1>17 DEF Link!linkVars
<1> QED
  BY <1>4, <1>5, <1>6, <1>7, <1>8, <1>9, <1>10, <1>11, <1>12, <1>13, <1>14, <1>15, <1>16, <1>17
     DEF Link!LinkNext, Link!LinkTask

LEMMA LinkStep ==
  ASSUME LinkInv, [Link!LinkNext]_(Link!linkVars)
  PROVE  LinkInv'
<1>1. LinkTypeOK'
  BY LinkTypeStep DEF LinkInv
<1> USE DEF LinkInv, LinkTypeOK, LinkMode, AccessInOrder, LossLatched, Link!Settled,
            DriverAsConstructed, BothEnabled, Configured, ClockFits, FirstSetting
<1>2. CASE Link!common_init \/ Link!new_with_mio \/ Link!start
  BY <1>1, <1>2 DEF Link!common_init, Link!new_with_mio, Link!start, Link!set_tx_rx_enable,
                    Link!set_speed_and_duplex, Link!configure_clock_divs, Link!AtConstruction,
                    Link!stackVars
<1>3. CASE Link!phy_reset \/ Link!restart_auto_negotiation
  <2>1. /\ ip_mode \in {"phy_reset", "restart_auto_negotiation"}
        /\ ip_mode' \in {"restart_auto_negotiation", "LinkDown"}
        /\ UNCHANGED <<net_ctrl, mac, clk, driver, access, seen>>
    BY <1>3 DEF Link!phy_reset, Link!restart_auto_negotiation, Link!macVars
  <2>2. phy' = Link!lost
    BY <1>3 DEF Link!phy_reset, Link!restart_auto_negotiation
  <2>3. Link!lost.changes = phy.changes /\ Link!lost.down
    BY DEF Link!lost
  <2>4. phy'.changes = phy.changes /\ phy'.down
    BY <2>2, <2>3
  <2> HIDE DEF LinkTypeOK
  <2> QED
    BY <1>1, <2>1, <2>4
<1>4. CASE Link!LinkDown
  BY <1>1, <1>4 DEF Link!LinkDown, Link!macVars
<1>5. CASE Link!AutoNegotiating_status
  BY <1>1, <1>5 DEF Link!AutoNegotiating_status, Link!read_copper_status, Link!macVars
<1>6. CASE Link!read_copper_specific_status_register_1
  BY <1>1, <1>6 DEF Link!read_copper_specific_status_register_1, Link!macVars
<1>7. CASE Link!AutoNegotiating_configure
  <2>1. (mac' = seen \/ (mac' = mac /\ seen = Link!AtConstruction)) /\ clk' = mac'.speed
    <3>1. CASE Link!unchanged_setting
      <4>1. driver.setting = seen
        BY <3>1 DEF Link!unchanged_setting
      <4>2. mac' = mac /\ clk' = clk /\ clk = mac.speed
        BY <1>7, <3>1 DEF Link!AutoNegotiating_configure, Link!configure_clock_and_speed_duplex,
                          Link!macVars
      <4> QED
        BY <4>1, <4>2
    <3>2. CASE ~ Link!unchanged_setting
      BY <1>7, <3>2 DEF Link!AutoNegotiating_configure, Link!configure_clock_and_speed_duplex,
                        Link!configure_clock_divs, Link!set_speed_and_duplex
    <3> QED
      BY <3>1, <3>2
  <2>2. {"rx", "tx"} \subseteq net_ctrl' /\ driver' = driver
    BY <1>7 DEF Link!AutoNegotiating_configure, Link!configure_clock_and_speed_duplex,
                Link!set_tx_rx_enable,
                Link!macVars
  <2>3. /\ ip_mode = "AutoNegotiating" /\ access = "setting" /\ phy' = phy /\ seen' = seen
        /\ ip_mode' = "AwaitingIpConfig" /\ access' = "none"
    BY <1>7 DEF Link!AutoNegotiating_configure
  <2>4. phy.changes = 0 => phy.complete /\ seen = phy.setting /\ mac' = seen
    BY <2>1, <2>3
  <2> QED
    BY <1>1, <2>1, <2>2, <2>3, <2>4
<1>8. CASE Link!AwaitingIpConfig \/ Link!timer_expires
  BY <1>1, <1>8 DEF Link!AwaitingIpConfig, Link!timer_expires, Link!macVars
<1>9. CASE Link!StackReady
  BY <1>1, <1>9 DEF Link!StackReady, Link!read_copper_status, Link!macVars
<1>10. CASE Link!link_state \/ Link!get_address
  BY <1>1, <1>10 DEF Link!link_state, Link!get_address, Link!macVars, Link!mainVars
<1>11. CASE Link!lose_link
  BY <1>1, <1>11 DEF Link!lose_link, Link!lost, Link!macVars, Link!mainVars
<1>12. CASE Link!PhyStep
  <2>1. UNCHANGED <<net_ctrl, mac, clk, driver, ip_mode, access, asleep, seen>>
    BY <1>12 DEF Link!PhyStep, Link!negotiate, Link!bring_up, Link!macVars, Link!mainVars
  <2>2. /\ phy'.down = phy.down /\ phy'.changes = phy.changes
        /\ phy.complete => phy'.complete /\ phy'.setting = phy.setting
    BY <1>12, PhyStepKeepsLoss
  <2> QED
    BY <1>1, <2>1, <2>2
<1>13. CASE UNCHANGED Link!linkVars
  BY <1>1, <1>13 DEF Link!linkVars
<1> QED
  BY <1>2, <1>3, <1>4, <1>5, <1>6, <1>7, <1>8, <1>9, <1>10, <1>11, <1>12, <1>13
     DEF Link!LinkNext, Link!LinkTask

(* The invariant of the link: what the main task has read of the PHY in    *)
(* two accesses is current, or its loss is latched.                        *)
THEOREM LinkInvariant == Link!LinkSpec => []LinkInv
<1>1. Link!LinkInit => LinkInv
  BY InitLink
<1>2. LinkInv /\ [Link!LinkNext]_(Link!linkVars) => LinkInv'
  BY LinkStep
<1> QED
  BY <1>1, <1>2, PTL DEF Link!LinkSpec

(* Once the link is reported up, the setting read is the negotiated one or *)
(* its loss will be seen; the clock is the one of the MAC, both directions *)
(* are on, and the MAC follows what was read: always the first time, and   *)
(* later unless the link went back to the setting of the construction.     *)
THEOREM LinkSettingCurrent ==
  Link!LinkSpec => []SettingCurrent
<1>1. LinkInv => SettingCurrent
  BY DEF LinkInv, LinkMode, LinkTypeOK, LossLatched, BothEnabled, Configured, ClockFits,
         FirstSetting, Link!Settled, SettingCurrent, Link!SettingCurrent
<1> QED
  BY LinkInvariant, <1>1, PTL

-----------------------------------------------------------------------------
(* The receive ring.                                                       *)

Descriptor == [own : {"Hardware", "Software"}, wrap : BOOLEAN, sof : BOOLEAN, eof : BOOLEAN]
CacheLine == [cache : {"absent", "clean", "dirty"}, val : Int, ddr : Int]
Buffer == [Rx!Part -> CacheLine]
ScanState == [at : Rx!Slot, handled : Nat, start : Rx!Slot \cup {Rx!None}]

RxTypeOK ==
  /\ may \in Disturbances
  /\ slot \in [Rx!Slot -> Descriptor]
  /\ frame \in [Rx!Slot -> Nat]
  /\ line \in [Rx!Slot -> Buffer]
  /\ current \in Rx!Slot /\ rx_hwIdx \in Rx!Slot
  /\ rx_pc \in {"idle", "scanning", "clearing", "token", "invalidated", "read", "cleared"}
  /\ scan \in ScanState
  /\ inFrame \in BOOLEAN /\ received \in 0 .. MaxReceived
  /\ delivered \in [Rx!Frame -> 0 .. 2]
  /\ lastRead \in [frame : Nat, first : Int, rest : Int]

LastSlotWraps == \A i \in Rx!Slot : slot[i].wrap <=> i = Slots - 1

(* What is stored has arrived, and was not handed up before it arrived.    *)
StoredHasArrived ==
  /\ \A i \in Rx!Slot : frame[i] <= received
  /\ \A f \in Rx!Frame : delivered[f] > 0 => f <= received

(* A slot that holds a whole frame holds it alone, and it is still to be   *)
(* handed up, but for the slot the token is for once the stack has read.   *)
WholeFramesNew ==
  /\ \A i \in Rx!Slot : Rx!WholeFrame(i) =>
       frame[i] > 0 /\ (delivered[frame[i]] = 0 \/ (rx_pc = "read" /\ i = scan.at))
  /\ \A i, j \in Rx!Slot : Rx!WholeFrame(i) /\ Rx!WholeFrame(j) /\ frame[i] = frame[j] => i = j

(* A token is for a slot with a whole frame.                               *)
TokenHasFrame ==
  /\ rx_pc \in {"token", "invalidated", "read"} => Rx!WholeFrame(scan.at)
  /\ rx_pc = "read" => delivered[frame[scan.at]] = 1
  /\ rx_pc = "clearing" => scan.start \in Rx!Slot

DeliveryInv == RxTypeOK /\ LastSlotWraps /\ StoredHasArrived /\ WholeFramesNew
               /\ TokenHasFrame /\ Rx!DeliveredOnce

(* Without writes of the stack no line is ever dirty, and DDR holds what   *)
(* the GEM stored; the first line is read as it is in DDR, and without     *)
(* speculation no other line is cached when the slot is the GEM's.         *)
LinesInv ==
  "stack_write" \notin may =>
    /\ \A i \in Rx!Slot, p \in Rx!Part : line[i][p].cache # "dirty" /\ line[i][p].ddr = frame[i]
    /\ rx_pc = "invalidated" => Rx!view(line[scan.at]["first"]) = frame[scan.at]
    /\ "prefetch" \notin may =>
         \A i \in Rx!Slot, p \in Rx!Part :
           line[i][p].cache # "absent" => rx_pc \in {"read", "cleared"} /\ i = scan.at

(* Without frames of several slots, the slots behind rx_hwIdx hold the     *)
(* last frames that arrived, in their order; those of slots the GEM may    *)
(* fill again have been handed up, and so has every frame of an earlier    *)
(* lap.                                                                    *)
behind(i) == IF i < rx_hwIdx THEN rx_hwIdx - i ELSE rx_hwIdx - i + Slots

OrderInv ==
  "long_frame" \notin may =>
    /\ ~ inFrame /\ scan.start = Rx!None /\ rx_pc # "clearing"
    /\ \A i \in Rx!Slot : slot[i].own = "Software" => slot[i].sof /\ slot[i].eof
    /\ \A i \in Rx!Slot :
         frame[i] = IF behind(i) <= received THEN received + 1 - behind(i) ELSE 0
    /\ \A i \in Rx!Slot : slot[i].own = "Hardware" /\ frame[i] > 0 => delivered[frame[i]] > 0
    /\ \A f \in Rx!Frame : f <= received - Slots => delivered[f] > 0

RxInv == DeliveryInv /\ LinesInv /\ Rx!FrameIntact /\ OrderInv

USE DEF Rx!RxRingAssumption, Buffer, ScanState

LEMMA NextIndexIsSlot ==
  ASSUME NEW i \in Rx!Slot PROVE Rx!next_index(i) \in Rx!Slot
BY SMTT(30) DEF Rx!next_index, Rx!Slot, Rx!RxRingAssumption

LEMMA InitRx == Rx!Init => RxInv
<1> SUFFICES ASSUME Rx!Init PROVE RxInv
  OBVIOUS
<1> USE DEF Rx!Init
<1>1. Slots \in Nat /\ Slots > 1 /\ 0 \in Rx!Slot /\ MaxReceived \in Nat
  BY DEF Rx!RxRingAssumption, Rx!Slot
<1>2. RxTypeOK
  <2>1. /\ slot \in [Rx!Slot -> Descriptor] /\ line \in [Rx!Slot -> Buffer]
        /\ scan \in ScanState
        /\ lastRead \in [frame : Nat, first : Int, rest : Int]
    BY <1>1 DEF Descriptor, CacheLine
  <2>2. may \in Disturbances /\ frame \in [Rx!Slot -> Nat] /\ delivered \in [Rx!Frame -> 0 .. 2]
    OBVIOUS
  <2>3. rx_pc = "idle" /\ current = 0 /\ rx_hwIdx = 0 /\ inFrame = FALSE /\ received = 0
    OBVIOUS
  <2> HIDE DEF Rx!Init
  <2>4. current \in Rx!Slot /\ rx_hwIdx \in Rx!Slot /\ inFrame \in BOOLEAN
    BY <1>1, <2>3
  <2>5. received \in 0 .. MaxReceived
    BY <1>1, <2>3
  <2> QED
    BY <2>1, <2>2, <2>3, <2>4, <2>5 DEF RxTypeOK
<1>3. LastSlotWraps
  BY DEF LastSlotWraps
<1>4. StoredHasArrived /\ WholeFramesNew /\ TokenHasFrame /\ Rx!DeliveredOnce
  <2>1. /\ received = 0 /\ rx_pc = "idle"
        /\ \A i \in Rx!Slot : frame[i] = 0 /\ slot[i].own = "Hardware"
        /\ \A f \in Rx!Frame : delivered[f] = 0
    OBVIOUS
  <2> HIDE DEF Rx!Init
  <2> QED
    BY <1>1, <2>1 DEF StoredHasArrived, WholeFramesNew, Rx!WholeFrame, TokenHasFrame,
                      Rx!DeliveredOnce
<1>5. LinesInv /\ Rx!FrameIntact
  BY DEF LinesInv, Rx!FrameIntact
<1>6. OrderInv
  <2>1. \A i \in Rx!Slot : behind(i) \in Nat \ {0}
    BY <1>1 DEF behind, Rx!Slot
  <2>2. /\ received = 0 /\ rx_pc = "idle" /\ ~ inFrame /\ scan.start = Rx!None
        /\ \A i \in Rx!Slot : frame[i] = 0 /\ slot[i].own = "Hardware"
    OBVIOUS
  <2> HIDE DEF Rx!Init
  <2> QED
    BY <1>1, <2>1, <2>2 DEF OrderInv, Rx!Frame
<1> QED
  BY <1>2, <1>3, <1>4, <1>5, <1>6 DEF RxInv, DeliveryInv

(* Steps of the scan, which change nothing but the driver's own state.     *)
Scanning ==
  \/ Rx!receive \/ Rx!no_frames \/ Rx!scan_hardware_slot
  \/ Rx!scan_single_frame \/ Rx!scan_start \/ Rx!scan_end

LEMMA ScanningStep ==
  ASSUME RxTypeOK, Scanning
  PROVE  /\ UNCHANGED <<may, slot, frame, line, rx_hwIdx, inFrame, received, delivered, lastRead>>
         /\ current' \in Rx!Slot /\ scan' \in ScanState
         /\ rx_pc \in {"idle", "scanning"} /\ rx_pc' \in {"idle", "scanning", "clearing", "token"}
         /\ rx_pc' = "token" => Rx!WholeFrame(scan.at) /\ scan' = scan
         /\ rx_pc' = "clearing" => /\ scan' = scan /\ scan.start # Rx!None
                               /\ slot[scan.at].own = "Software" /\ ~ slot[scan.at].eof
         /\ scan'.start \in {scan.start, Rx!None}
            \/ (slot[scan.at].own = "Software" /\ ~ slot[scan.at].eof)
<1> USE DEF RxTypeOK
<1>1. Rx!next_index(scan.at) \in Rx!Slot
  BY NextIndexIsSlot
<1>2. ASSUME Rx!scan_on
      PROVE  /\ UNCHANGED <<current, rx_pc>> /\ scan'.start = scan.start
             /\ scan' \in ScanState
  <2>1. /\ scan \in ScanState
        /\ scan' = [scan EXCEPT !.at = Rx!next_index(scan.at), !.handled = scan.handled + 1]
    BY <1>2 DEF Rx!scan_on
  <2>2. scan.handled + 1 \in Nat
    BY <2>1
  <2> HIDE DEF RxTypeOK
  <2>3. scan'.start = scan.start /\ scan' \in ScanState
    BY <1>1, <2>1, <2>2
  <2> QED
    BY <1>2, <2>3 DEF Rx!scan_on
<1>3. CASE Rx!receive
  BY <1>3 DEF Rx!receive, Rx!gemVars
<1>4. CASE Rx!no_frames
  BY <1>4 DEF Rx!no_frames, Rx!gemVars
<1>5. CASE Rx!scan_hardware_slot
  BY <1>5, <1>2 DEF Rx!scan_hardware_slot, Rx!gemVars
<1>6. CASE Rx!scan_single_frame
  BY <1>1, <1>6 DEF Rx!scan_single_frame, Rx!WholeFrame, Rx!gemVars
<1>7. CASE Rx!scan_start
  BY <1>1, <1>7 DEF Rx!scan_start, Rx!gemVars
<1>8. CASE Rx!scan_end
  BY <1>1, <1>8, <1>2 DEF Rx!scan_end, Rx!gemVars
<1> QED
  BY <1>3, <1>4, <1>5, <1>6, <1>7, <1>8 DEF Scanning

(* What storing a part of a frame does.                                    *)
LEMMA StoreStep ==
  ASSUME RxTypeOK, LastSlotWraps, NEW f \in Nat, NEW sof \in BOOLEAN, NEW eof \in BOOLEAN,
         Rx!gem_store(f, sof, eof)
  PROVE  /\ UNCHANGED <<may, current, rx_pc, scan, delivered, lastRead>>
         /\ slot[rx_hwIdx].own = "Hardware"
         /\ slot' \in [Rx!Slot -> Descriptor]
         /\ slot'[rx_hwIdx].own = "Software" /\ slot'[rx_hwIdx].wrap = slot[rx_hwIdx].wrap
         /\ slot'[rx_hwIdx].sof = sof /\ slot'[rx_hwIdx].eof = eof
         /\ \A i \in Rx!Slot : i # rx_hwIdx => slot'[i] = slot[i]
         /\ frame' = [frame EXCEPT ![rx_hwIdx] = f]
         /\ line' \in [Rx!Slot -> Buffer]
         /\ \A p \in Rx!Part : line'[rx_hwIdx][p] = [line[rx_hwIdx][p] EXCEPT !.ddr = f]
         /\ \A i \in Rx!Slot : i # rx_hwIdx => line'[i] = line[i]
         /\ rx_hwIdx' = (IF rx_hwIdx = Slots - 1 THEN 0 ELSE rx_hwIdx + 1)
         /\ rx_hwIdx' \in Rx!Slot
<1> USE DEF RxTypeOK, Rx!gem_store
<1>1. /\ UNCHANGED <<may, current, rx_pc, scan, delivered, lastRead>>
      /\ slot[rx_hwIdx].own = "Hardware"
  BY DEF Rx!driverVars
<1>2. slot' \in [Rx!Slot -> Descriptor]
  <2>1. slot[rx_hwIdx] \in Descriptor
    OBVIOUS
  <2>2. [slot[rx_hwIdx] EXCEPT !.own = "Software", !.sof = sof, !.eof = eof] \in Descriptor
    BY <2>1 DEF Descriptor
  <2> QED
    BY <2>2
<1>3. /\ slot'[rx_hwIdx].own = "Software" /\ slot'[rx_hwIdx].wrap = slot[rx_hwIdx].wrap
      /\ slot'[rx_hwIdx].sof = sof /\ slot'[rx_hwIdx].eof = eof
      /\ \A i \in Rx!Slot : i # rx_hwIdx => slot'[i] = slot[i]
  BY DEF Descriptor
<1>4. /\ \A p \in Rx!Part : line'[rx_hwIdx][p] = [line[rx_hwIdx][p] EXCEPT !.ddr = f]
      /\ \A i \in Rx!Slot : i # rx_hwIdx => line'[i] = line[i]
  OBVIOUS
<1>5. line' \in [Rx!Slot -> Buffer]
  <2>1. \A p \in Rx!Part : line[rx_hwIdx][p] \in CacheLine
    OBVIOUS
  <2>2. [p \in Rx!Part |-> [line[rx_hwIdx][p] EXCEPT !.ddr = f]] \in Buffer
    <3> HIDE DEF RxTypeOK, Rx!gem_store
    <3> QED
      BY <2>1 DEF CacheLine
  <2> QED
    BY <2>2
<1>6. rx_hwIdx' = (IF rx_hwIdx = Slots - 1 THEN 0 ELSE rx_hwIdx + 1) /\ rx_hwIdx' \in Rx!Slot
  <2>1. rx_hwIdx' = IF slot[rx_hwIdx].wrap THEN 0 ELSE rx_hwIdx + 1
    OBVIOUS
  <2>2. slot[rx_hwIdx].wrap <=> rx_hwIdx = Slots - 1
    BY DEF LastSlotWraps
  <2>3. rx_hwIdx \in Rx!Slot
    OBVIOUS
  <2> HIDE DEF RxTypeOK, Rx!gem_store
  <2> QED
    BY <2>1, <2>2, <2>3 DEF Rx!Slot
<1> QED
  BY <1>1, <1>2, <1>3, <1>4, <1>5, <1>6

(* The maintenance operations on a line.                                   *)
LEMMA LineOperations ==
  ASSUME NEW l \in CacheLine
  PROVE  /\ Rx!dropped(l) \in CacheLine /\ Rx!dropped(l).cache = "absent"
         /\ Rx!dropped(l).ddr = l.ddr
         /\ Rx!clean_invalidate(l) \in CacheLine /\ Rx!clean_invalidate(l).cache = "absent"
         /\ l.cache # "dirty" => Rx!clean_invalidate(l).ddr = l.ddr
         /\ Rx!fetched(l) \in CacheLine /\ Rx!fetched(l).ddr = l.ddr
         /\ l.cache # "dirty" => Rx!fetched(l).cache # "dirty"
         /\ Rx!view(Rx!fetched(l)) = Rx!view(l)
         /\ Rx!written(l, Rx!scribble) \in CacheLine
         /\ l.cache = "absent" => Rx!view(l) = l.ddr
         /\ Rx!view(l) \in Int
<1> DEFINE c == [l EXCEPT !.ddr = IF l.cache = "dirty" THEN l.val ELSE @]
<1>1. c \in CacheLine /\ Rx!clean_invalidate(l) = Rx!dropped(c)
  BY DEF CacheLine, Rx!clean_invalidate
<1>2. l.cache # "dirty" => c.ddr = l.ddr
  BY DEF CacheLine
<1>3. \A m \in CacheLine : Rx!dropped(m) \in CacheLine /\ Rx!dropped(m).cache = "absent"
                            /\ Rx!dropped(m).ddr = m.ddr
  <2> TAKE m \in CacheLine
  <2>1. m \in [cache : {"absent", "clean", "dirty"}, val : Int, ddr : Int]
    BY DEF CacheLine
  <2>2. Rx!dropped(m).cache = "absent" /\ Rx!dropped(m).ddr = m.ddr
    BY <2>1 DEF Rx!dropped
  <2>3. Rx!dropped(m) \in [cache : {"absent", "clean", "dirty"}, val : Int, ddr : Int]
    <3>1. /\ 0 \in Int /\ "absent" \in {"absent", "clean", "dirty"}
          /\ Rx!dropped(m) = [m EXCEPT !.cache = "absent", !.val = 0]
      BY DEF Rx!dropped
    <3>2. \A v \in Int, st \in {"absent", "clean", "dirty"} :
            [m EXCEPT !.cache = st, !.val = v]
              \in [cache : {"absent", "clean", "dirty"}, val : Int, ddr : Int]
      BY <2>1
    <3> QED
      BY <3>1, <3>2
  <2> QED
    BY <2>2, <2>3 DEF CacheLine
<1> HIDE DEF c
<1>4. /\ Rx!fetched(l) \in CacheLine /\ Rx!fetched(l).ddr = l.ddr
      /\ Rx!view(Rx!fetched(l)) = Rx!view(l)
      /\ l.cache # "dirty" => Rx!fetched(l).cache # "dirty"
  BY DEF CacheLine, Rx!fetched, Rx!view
<1>5. Rx!written(l, Rx!scribble) \in CacheLine
  <2>1. l \in [cache : {"absent", "clean", "dirty"}, val : Int, ddr : Int]
    BY DEF CacheLine
  <2>2. Rx!scribble \in Int
    BY DEF Rx!scribble
  <2>3. \A v \in Int :
          Rx!written(l, v) \in [cache : {"absent", "clean", "dirty"}, val : Int, ddr : Int]
    BY <2>1 DEF Rx!written
  <2> QED
    BY <2>2, <2>3 DEF CacheLine
<1>6. (l.cache = "absent" => Rx!view(l) = l.ddr) /\ Rx!view(l) \in Int
  BY DEF CacheLine, Rx!view
<1> QED
  BY <1>1, <1>2, <1>3, <1>4, <1>5, <1>6

(* A step that gives the slot i new lines, as the GEM and the maintenance  *)
(* operations do.                                                          *)
LEMMA LinesOfOneSlot ==
  ASSUME RxTypeOK, NEW i \in Rx!Slot, NEW b \in Buffer,
         line' = [line EXCEPT ![i] = b]
  PROVE  /\ line' \in [Rx!Slot -> Buffer] /\ line'[i] = b
         /\ \A j \in Rx!Slot : j # i => line'[j] = line[j]
BY DEF RxTypeOK

(* What each step of consume() and the cache on its own does to the lines. *)
LEMMA InvalidateStep ==
  ASSUME RxTypeOK, Rx!consume_invalidate
  PROVE  /\ line' \in [Rx!Slot -> Buffer]
         /\ line'[scan.at]["first"] = Rx!dropped(line[scan.at]["first"])
         /\ line'[scan.at]["rest"] = line[scan.at]["rest"]
         /\ \A j \in Rx!Slot : j # scan.at => line'[j] = line[j]
<1>1. line[scan.at] \in Buffer /\ scan.at \in Rx!Slot
  BY DEF RxTypeOK
<1>2. Rx!dropped(line[scan.at]["first"]) \in CacheLine
  BY <1>1, LineOperations DEF Rx!Part
<1>3. /\ Rx!invalidate_range(line[scan.at]) \in Buffer
      /\ Rx!invalidate_range(line[scan.at])["first"] = Rx!dropped(line[scan.at]["first"])
      /\ Rx!invalidate_range(line[scan.at])["rest"] = line[scan.at]["rest"]
  BY <1>1, <1>2 DEF Rx!invalidate_range, Rx!Part
<1>4. line' = [line EXCEPT ![scan.at] = Rx!invalidate_range(line[scan.at])]
  BY DEF Rx!consume_invalidate
<1> QED
  BY <1>1, <1>3, <1>4, LinesOfOneSlot

LEMMA FlushStep ==
  ASSUME RxTypeOK, Rx!consume_flush
  PROVE  /\ line' \in [Rx!Slot -> Buffer]
         /\ \A p \in Rx!Part : line'[scan.at][p] = Rx!clean_invalidate(line[scan.at][p])
         /\ \A j \in Rx!Slot : j # scan.at => line'[j] = line[j]
<1>1. line[scan.at] \in Buffer /\ scan.at \in Rx!Slot
  BY DEF RxTypeOK
<1>2. \A p \in Rx!Part : Rx!clean_invalidate(line[scan.at][p]) \in CacheLine
  BY <1>1, LineOperations
<1>3. Rx!clean_and_invalidate_range(line[scan.at]) \in Buffer
  BY <1>2 DEF Rx!clean_and_invalidate_range
<1>4. line' = [line EXCEPT ![scan.at] = Rx!clean_and_invalidate_range(line[scan.at])]
  BY DEF Rx!consume_flush
<1>5. \A p \in Rx!Part :
        Rx!clean_and_invalidate_range(line[scan.at])[p] = Rx!clean_invalidate(line[scan.at][p])
  BY DEF Rx!clean_and_invalidate_range
<1> QED
  BY <1>1, <1>3, <1>4, <1>5, LinesOfOneSlot

LEMMA ReadStep ==
  ASSUME RxTypeOK, Rx!consume_read
  PROVE  /\ line' \in [Rx!Slot -> Buffer]
         /\ "stack_write" \notin may =>
              \A p \in Rx!Part : line'[scan.at][p] = Rx!fetched(line[scan.at][p])
         /\ \A j \in Rx!Slot : j # scan.at => line'[j] = line[j]
<1>1. line[scan.at] \in Buffer /\ scan.at \in Rx!Slot
  BY DEF RxTypeOK
<1>2. \A p \in Rx!Part : /\ Rx!fetched(line[scan.at][p]) \in CacheLine
                       /\ Rx!written(line[scan.at][p], Rx!scribble) \in CacheLine
  BY <1>1, LineOperations
<1>3. /\ [p \in Rx!Part |-> Rx!fetched(line[scan.at][p])] \in Buffer
      /\ [p \in Rx!Part |-> Rx!written(line[scan.at][p], Rx!scribble)] \in Buffer
  BY <1>2
<1>4. CASE line' = [line EXCEPT ![scan.at] = [p \in Rx!Part |-> Rx!fetched(line[scan.at][p])]]
  BY <1>1, <1>3, <1>4, LinesOfOneSlot
<1>5. CASE /\ "stack_write" \in may
           /\ line' = [line EXCEPT ![scan.at] =
                         [p \in Rx!Part |-> Rx!written(line[scan.at][p], Rx!scribble)]]
  BY <1>1, <1>3, <1>5, LinesOfOneSlot
<1> QED
  BY <1>4, <1>5 DEF Rx!consume_read

LEMMA CacheStep ==
  ASSUME RxTypeOK, Rx!prefetch \/ Rx!evict
  PROVE  /\ line' \in [Rx!Slot -> Buffer]
         /\ \A i \in Rx!Slot, p \in Rx!Part :
              \/ line'[i][p] = line[i][p]
              \/ "prefetch" \in may /\ line'[i][p] = Rx!fetched(line[i][p])
              \/ line'[i][p] = Rx!clean_invalidate(line[i][p])
<1>1. \A i \in Rx!Slot, p \in Rx!Part : line[i] \in Buffer /\ line[i][p] \in CacheLine
  BY DEF RxTypeOK
<1>2. PICK i \in Rx!Slot, p \in Rx!Part, l \in CacheLine :
        /\ line' = [line EXCEPT ![i][p] = l]
        /\ \/ "prefetch" \in may /\ l = Rx!fetched(line[i][p])
           \/ l = Rx!clean_invalidate(line[i][p])
  BY <1>1, LineOperations DEF Rx!prefetch, Rx!evict
<1>3. [line[i] EXCEPT ![p] = l] \in Buffer
  BY <1>1
<1>4. line' = [line EXCEPT ![i] = [line[i] EXCEPT ![p] = l]]
  BY <1>2
<1>5. /\ line' \in [Rx!Slot -> Buffer] /\ line'[i] = [line[i] EXCEPT ![p] = l]
      /\ \A j \in Rx!Slot : j # i => line'[j] = line[j]
  BY <1>3, <1>4, LinesOfOneSlot
<1> QED
  BY <1>1, <1>2, <1>5

(* A slot given back to the GEM.                                           *)
LEMMA ClearStep ==
  ASSUME RxTypeOK, LastSlotWraps, NEW i \in Rx!Slot,
         slot' = [slot EXCEPT ![i] = Rx!clear_slot(@)]
  PROVE  /\ slot' \in [Rx!Slot -> Descriptor] /\ LastSlotWraps'
         /\ slot'[i].own = "Hardware"
         /\ \A j \in Rx!Slot : j # i => slot'[j] = slot[j]
<1>1. slot \in [Rx!Slot -> Descriptor] /\ slot[i] \in Descriptor
  BY DEF RxTypeOK
<1>2. Rx!clear_slot(slot[i]) \in Descriptor
  BY <1>1 DEF Rx!clear_slot, Descriptor
<1>3. Rx!clear_slot(slot[i]).own = "Hardware" /\ Rx!clear_slot(slot[i]).wrap = slot[i].wrap
  BY <1>1 DEF Rx!clear_slot, Descriptor
<1>4. /\ slot' \in [Rx!Slot -> Descriptor] /\ slot'[i] = Rx!clear_slot(slot[i])
      /\ \A j \in Rx!Slot : j # i => slot'[j] = slot[j]
  BY <1>1, <1>2
<1> QED
  BY <1>3, <1>4 DEF LastSlotWraps

LEMMA RxTypeStep ==
  RxTypeOK /\ LastSlotWraps /\ TokenHasFrame /\ [Rx!Next]_(Rx!vars)
    => RxTypeOK' /\ LastSlotWraps'
<1> SUFFICES ASSUME RxTypeOK, LastSlotWraps, TokenHasFrame, [Rx!Next]_(Rx!vars)
             PROVE  RxTypeOK' /\ LastSlotWraps'
  OBVIOUS
<1>1. scan.at \in Rx!Slot /\ Rx!next_index(scan.at) \in Rx!Slot
  BY NextIndexIsSlot DEF RxTypeOK
<1>2. CASE Scanning
  <2>1. /\ UNCHANGED <<may, slot, frame, line, rx_hwIdx, inFrame, received, delivered, lastRead>>
        /\ current' \in Rx!Slot /\ scan' \in ScanState
        /\ rx_pc' \in {"idle", "scanning", "clearing", "token"}
    BY <1>2, ScanningStep
  <2> QED
    BY <2>1 DEF RxTypeOK, LastSlotWraps
<1>3. CASE Rx!clear_slots
  <2> USE DEF Rx!clear_slots
  <2>1. CASE scan.start # scan.at
    <3>1. scan.start \in Rx!Slot
      BY <1>3 DEF TokenHasFrame
    <3>2. slot' \in [Rx!Slot -> Descriptor] /\ LastSlotWraps'
      BY <1>3, <2>1, <3>1, ClearStep
    <3>3. scan' \in ScanState
      <4>1. scan' = [scan EXCEPT !.start = Rx!next_index(scan.start)]
        BY <1>3, <2>1
      <4>2. Rx!next_index(scan.start) \in Rx!Slot
        BY <3>1, NextIndexIsSlot
      <4> QED
        BY <4>1, <4>2 DEF RxTypeOK
    <3> QED
      BY <1>3, <2>1, <3>2, <3>3 DEF RxTypeOK, Rx!gemVars
  <2>2. CASE scan.start = scan.at
    BY <1>1, <1>3, <2>2 DEF RxTypeOK, Rx!gemVars, LastSlotWraps
  <2> QED
    BY <2>1, <2>2
<1>4. CASE Rx!consume_invalidate \/ Rx!consume_flush \/ Rx!prefetch \/ Rx!evict
  <2>1. line' \in [Rx!Slot -> Buffer]
    BY <1>4, InvalidateStep, FlushStep, CacheStep
  <2>2. /\ UNCHANGED <<may, slot, frame, current, scan, rx_hwIdx, inFrame, received, delivered,
                       lastRead>>
        /\ rx_pc' \in {rx_pc, "invalidated", "idle"}
    BY <1>4 DEF Rx!consume_invalidate, Rx!consume_flush, Rx!prefetch, Rx!evict, Rx!gemVars,
                Rx!driverVars
  <2> QED
    BY <2>1, <2>2 DEF RxTypeOK, LastSlotWraps
<1>5. CASE Rx!consume_read
  <2>1. line' \in [Rx!Slot -> Buffer]
    BY <1>5, ReadStep
  <2>2. lastRead' \in [frame : Nat, first : Int, rest : Int]
    <3>1. frame[scan.at] \in Nat
      BY <1>1 DEF RxTypeOK
    <3>2. \A p \in Rx!Part : Rx!view(line[scan.at][p]) \in Int
      BY <1>1, LineOperations DEF RxTypeOK
    <3>3. lastRead' = [frame |-> frame[scan.at], first |-> Rx!view(line[scan.at]["first"]),
                       rest |-> Rx!view(line[scan.at]["rest"])]
      BY <1>5 DEF Rx!consume_read
    <3> QED
      BY <3>1, <3>2, <3>3 DEF Rx!Part
  <2>3. delivered' \in [Rx!Frame -> 0 .. 2]
    <3> DEFINE n == IF delivered[frame[scan.at]] = 0 THEN 1 ELSE 2
    <3>1. delivered' = [delivered EXCEPT ![frame[scan.at]] = n] /\ n \in 0 .. 2
      BY <1>5 DEF Rx!consume_read
    <3> HIDE DEF n
    <3> QED
      BY <3>1 DEF RxTypeOK
  <2> QED
    BY <1>5, <2>1, <2>2, <2>3 DEF Rx!consume_read, RxTypeOK, LastSlotWraps, Rx!gemVars
<1>6. CASE Rx!consume_clear_slot
  <2>1. slot' \in [Rx!Slot -> Descriptor] /\ LastSlotWraps'
    BY <1>1, <1>6, ClearStep DEF Rx!consume_clear_slot, Rx!released
  <2> QED
    BY <1>6, <2>1 DEF Rx!consume_clear_slot, RxTypeOK, Rx!gemVars
<1>7. ASSUME NEW f \in Nat, NEW sof \in BOOLEAN, NEW eof \in BOOLEAN, Rx!gem_store(f, sof, eof),
             inFrame' \in BOOLEAN, received' \in 0 .. MaxReceived
      PROVE  RxTypeOK' /\ LastSlotWraps'
  <2>1. /\ UNCHANGED <<may, current, rx_pc, scan, delivered, lastRead>>
        /\ slot' \in [Rx!Slot -> Descriptor]
        /\ slot'[rx_hwIdx].wrap = slot[rx_hwIdx].wrap
        /\ \A i \in Rx!Slot : i # rx_hwIdx => slot'[i] = slot[i]
        /\ frame' = [frame EXCEPT ![rx_hwIdx] = f]
        /\ line' \in [Rx!Slot -> Buffer] /\ rx_hwIdx' \in Rx!Slot
    BY <1>7, StoreStep
  <2>2. RxTypeOK'
    BY <1>7, <2>1 DEF RxTypeOK
  <2>3. LastSlotWraps'
    BY <2>1 DEF LastSlotWraps
  <2> QED
    BY <2>2, <2>3
<1>8. CASE Rx!gem_first_slot
  <2>1. PICK more \in BOOLEAN : Rx!gem_store(received + 1, TRUE, ~ more) /\ inFrame' = more
    BY <1>8 DEF Rx!gem_first_slot
  <2>2. received + 1 \in Nat /\ received' \in 0 .. MaxReceived
    BY <1>8 DEF Rx!gem_first_slot, RxTypeOK
  <2> QED
    BY <1>7, <2>1, <2>2
<1>9. CASE Rx!gem_last_slot
  <2>1. Rx!gem_store(received, FALSE, TRUE) /\ inFrame' = FALSE /\ received' = received
    BY <1>9 DEF Rx!gem_last_slot
  <2>2. received \in Nat /\ received' \in 0 .. MaxReceived
    BY <2>1 DEF RxTypeOK
  <2> QED
    BY <1>7, <2>1, <2>2
<1>10. CASE Rx!gem_out_of_buffers
  BY <1>10 DEF Rx!gem_out_of_buffers, RxTypeOK, LastSlotWraps, Rx!driverVars
<1>11. CASE UNCHANGED Rx!vars
  BY <1>11 DEF Rx!vars, RxTypeOK, LastSlotWraps
<1> QED
  BY <1>2, <1>3, <1>4, <1>5, <1>6, <1>8, <1>9, <1>10, <1>11
     DEF Rx!Next, Rx!Driver, Rx!Gem, Scanning

LEMMA DeliveryStep ==
  DeliveryInv /\ [Rx!Next]_(Rx!vars) => DeliveryInv'
<1> SUFFICES ASSUME DeliveryInv, [Rx!Next]_(Rx!vars)
             PROVE  (StoredHasArrived /\ WholeFramesNew /\ TokenHasFrame /\ Rx!DeliveredOnce)'
  BY RxTypeStep DEF DeliveryInv
<1>1. /\ RxTypeOK /\ LastSlotWraps /\ StoredHasArrived /\ WholeFramesNew /\ TokenHasFrame
      /\ Rx!DeliveredOnce /\ scan.at \in Rx!Slot /\ RxTypeOK'
  BY RxTypeStep DEF DeliveryInv, RxTypeOK
<1> USE DEF StoredHasArrived, WholeFramesNew, TokenHasFrame, Rx!DeliveredOnce, Rx!WholeFrame
<1>2. CASE Scanning
  <2>1. /\ UNCHANGED <<slot, frame, received, delivered>>
        /\ scan' \in ScanState
        /\ rx_pc \in {"idle", "scanning"} /\ rx_pc' \in {"idle", "scanning", "clearing", "token"}
        /\ rx_pc' = "token" => Rx!WholeFrame(scan.at) /\ scan' = scan
        /\ rx_pc' = "clearing" => scan' = scan /\ scan.start # Rx!None
    BY <1>1, <1>2, ScanningStep
  <2>2. StoredHasArrived' /\ WholeFramesNew' /\ Rx!DeliveredOnce'
    BY <1>1, <2>1
  <2>3. TokenHasFrame'
    BY <1>1, <2>1 DEF RxTypeOK
  <2> QED
    BY <2>2, <2>3
<1>3. ASSUME NEW i \in Rx!Slot,
         slot' = [slot EXCEPT ![i] = Rx!clear_slot(@)],
             UNCHANGED <<frame, received, delivered>>, rx_pc' \in {"clearing", "cleared"},
             rx_pc = "read" => i = scan.at, rx_pc' = "clearing" => scan'.start \in Rx!Slot
      PROVE  (StoredHasArrived /\ WholeFramesNew /\ TokenHasFrame /\ Rx!DeliveredOnce)'
  <2>1. /\ slot'[i].own = "Hardware"
        /\ \A j \in Rx!Slot : j # i => slot'[j] = slot[j]
    BY <1>1, <1>3, ClearStep
  <2>2. \A j \in Rx!Slot : Rx!WholeFrame(j)' => Rx!WholeFrame(j) /\ j # i
    BY <2>1
  <2>3. StoredHasArrived' /\ Rx!DeliveredOnce' /\ TokenHasFrame'
    BY <1>1, <1>3
  <2>4. WholeFramesNew'
    BY <1>1, <1>3, <2>2
  <2> QED
    BY <2>3, <2>4
<1>4. CASE Rx!clear_slots
  <2> USE DEF Rx!clear_slots
  <2>1. CASE scan.start # scan.at
    <3>1. scan.start \in Rx!Slot /\ Rx!next_index(scan.start) \in Rx!Slot
      BY <1>1, <1>4, NextIndexIsSlot
    <3>2. /\ slot' = [slot EXCEPT ![scan.start] = Rx!clear_slot(@)]
          /\ scan'.start \in Rx!Slot /\ rx_pc = "clearing" /\ rx_pc' = rx_pc
          /\ UNCHANGED <<frame, received, delivered>>
      BY <1>1, <1>4, <2>1, <3>1 DEF Rx!gemVars, RxTypeOK
    <3> HIDE DEF Rx!clear_slots, StoredHasArrived, WholeFramesNew, TokenHasFrame,
             Rx!DeliveredOnce
    <3> QED
      BY <1>3, <3>1, <3>2
  <2>2. CASE scan.start = scan.at
    BY <1>1, <1>4, <2>2 DEF Rx!gemVars
  <2> QED
    BY <1>4, <2>1, <2>2
<1>5. CASE Rx!consume_invalidate \/ Rx!consume_flush
  BY <1>1, <1>5 DEF Rx!consume_invalidate, Rx!consume_flush, Rx!gemVars
<1>6. CASE Rx!consume_read
  <2> DEFINE f == frame[scan.at]
  <2>1. /\ UNCHANGED <<slot, frame, scan, received>> /\ rx_pc = "invalidated" /\ rx_pc' = "read"
        /\ delivered' = [delivered EXCEPT ![f] = IF delivered[f] = 0 THEN 1 ELSE 2]
    BY <1>6 DEF Rx!consume_read, Rx!gemVars
  <2>2. Rx!WholeFrame(scan.at) /\ f \in Rx!Frame /\ delivered[f] = 0 /\ f <= received
    BY <1>1, <2>1 DEF RxTypeOK, Rx!Frame
  <2>3. delivered'[f] = 1 /\ \A g \in Rx!Frame \ {f} : delivered'[g] = delivered[g]
    BY <1>1, <2>1, <2>2 DEF RxTypeOK
  <2>4. StoredHasArrived' /\ Rx!DeliveredOnce'
    BY <1>1, <2>1, <2>2, <2>3
  <2>5. TokenHasFrame'
    BY <2>1, <2>2, <2>3
  <2>6. WholeFramesNew'
    <3>1. \A j \in Rx!Slot : Rx!WholeFrame(j) => frame[j] \in Rx!Frame
      <4>1. \A j \in Rx!Slot : Rx!WholeFrame(j) => frame[j] > 0 /\ frame[j] <= received
        BY <1>1
      <4>2. received \in 0 .. MaxReceived /\ \A j \in Rx!Slot : frame[j] \in Nat
        BY <1>1 DEF RxTypeOK
      <4> HIDE DEF Rx!WholeFrame, StoredHasArrived, WholeFramesNew, TokenHasFrame,
               Rx!DeliveredOnce
      <4> QED
        BY <4>1, <4>2 DEF Rx!Frame
    <3>2. \A j \in Rx!Slot : Rx!WholeFrame(j) /\ j # scan.at => frame[j] # f
      BY <1>1, <2>2
    <3>3. \A j \in Rx!Slot : Rx!WholeFrame(j)' = Rx!WholeFrame(j)
      BY <2>1
    <3> HIDE DEF Rx!WholeFrame
    <3> QED
      BY <1>1, <2>1, <2>3, <3>1, <3>2, <3>3
  <2> QED
    BY <2>4, <2>5, <2>6
<1>7. CASE Rx!consume_clear_slot
  <2>1. /\ slot' = [slot EXCEPT ![scan.at] = Rx!clear_slot(@)]
        /\ rx_pc' = "cleared" /\ UNCHANGED <<frame, received, delivered>>
    BY <1>7 DEF Rx!consume_clear_slot, Rx!released, Rx!gemVars
  <2> HIDE DEF StoredHasArrived, WholeFramesNew, TokenHasFrame, Rx!DeliveredOnce
  <2> QED
    BY <1>1, <1>3, <2>1
<1>8. ASSUME NEW f \in Nat, NEW sof \in BOOLEAN, NEW eof \in BOOLEAN, Rx!gem_store(f, sof, eof),
             received' >= received, f = received',
             sof /\ eof => f > received
      PROVE  (StoredHasArrived /\ WholeFramesNew /\ TokenHasFrame /\ Rx!DeliveredOnce)'
  <2>1. /\ UNCHANGED <<rx_pc, scan, delivered>>
        /\ slot[rx_hwIdx].own = "Hardware"
        /\ slot'[rx_hwIdx].sof = sof /\ slot'[rx_hwIdx].eof = eof
        /\ \A i \in Rx!Slot : i # rx_hwIdx => slot'[i] = slot[i]
        /\ frame' = [frame EXCEPT ![rx_hwIdx] = f]
    BY <1>1, <1>8, StoreStep DEF Rx!Frame
  <2>2. /\ rx_hwIdx \in Rx!Slot /\ frame'[rx_hwIdx] = f
        /\ \A i \in Rx!Slot : i # rx_hwIdx => frame'[i] = frame[i]
    BY <1>1, <2>1 DEF RxTypeOK
  <2>3. \A i \in Rx!Slot : Rx!WholeFrame(i) => i # rx_hwIdx
    BY <2>1
  <2>4. StoredHasArrived' /\ Rx!DeliveredOnce'
    BY <1>1, <1>8, <2>1, <2>2 DEF RxTypeOK, Rx!Frame
  <2>5. TokenHasFrame'
    BY <1>1, <2>1, <2>2, <2>3
  <2>6. WholeFramesNew'
    <3>1. \A i \in Rx!Slot : Rx!WholeFrame(i)' /\ i # rx_hwIdx =>
            Rx!WholeFrame(i) /\ frame'[i] = frame[i]
      BY <2>1, <2>2
    <3>2. ASSUME NEW i \in Rx!Slot, Rx!WholeFrame(i)', i = rx_hwIdx
          PROVE  frame'[i] > received /\ delivered'[frame'[i]] = 0
      <4>1. f > received /\ frame'[i] = f /\ f \in Rx!Frame
        BY <1>1, <1>8, <2>1, <2>2, <3>2 DEF RxTypeOK, Rx!Frame
      <4>2. delivered \in [Rx!Frame -> 0 .. 2] /\ received \in Nat
        BY <1>1 DEF RxTypeOK
      <4> QED
        BY <1>1, <2>1, <4>1, <4>2
    <3>3. \A i \in Rx!Slot : Rx!WholeFrame(i) => frame[i] <= received /\ frame[i] \in Nat
      BY <1>1 DEF RxTypeOK
    <3>4. \A i \in Rx!Slot : Rx!WholeFrame(i)' =>
            frame'[i] > 0 /\ (delivered'[frame'[i]] = 0 \/ (rx_pc' = "read" /\ i = scan'.at))
      BY <1>1, <2>1, <2>2, <3>1, <3>2 DEF RxTypeOK
    <3>5. \A i, j \in Rx!Slot :
            Rx!WholeFrame(i)' /\ Rx!WholeFrame(j)' /\ frame'[i] = frame'[j] => i = j
      <4>1. \A i \in Rx!Slot : frame'[i] \in Nat
        BY <1>1 DEF RxTypeOK
      <4>2. received \in Nat
        BY <1>1 DEF RxTypeOK
      <4>3. \A i, j \in Rx!Slot :
              Rx!WholeFrame(i) /\ Rx!WholeFrame(j) /\ frame[i] = frame[j] => i = j
        BY <1>1
      <4> HIDE DEF Rx!WholeFrame, StoredHasArrived, WholeFramesNew, TokenHasFrame,
               Rx!DeliveredOnce
      <4> TAKE i, j \in Rx!Slot
      <4>4. CASE i # rx_hwIdx /\ j # rx_hwIdx
        BY <3>1, <4>3, <4>4
      <4>5. CASE i = rx_hwIdx /\ j # rx_hwIdx
        BY <3>1, <3>2, <3>3, <4>1, <4>2, <4>5
      <4>6. CASE i # rx_hwIdx /\ j = rx_hwIdx
        BY <3>1, <3>2, <3>3, <4>1, <4>2, <4>6
      <4> QED
        BY <4>4, <4>5, <4>6
    <3> QED
      BY <3>4, <3>5
  <2> QED
    BY <2>4, <2>5, <2>6
<1>9. CASE Rx!gem_first_slot
  <2>1. PICK more \in BOOLEAN : Rx!gem_store(received + 1, TRUE, ~ more)
    BY <1>9 DEF Rx!gem_first_slot
  <2>2. /\ received + 1 \in Nat /\ received' = received + 1 /\ received' >= received
        /\ received + 1 > received
    BY <1>1, <1>9 DEF Rx!gem_first_slot, RxTypeOK, Rx!Frame
  <2> HIDE DEF StoredHasArrived, WholeFramesNew, TokenHasFrame, Rx!DeliveredOnce
  <2> QED
    BY <1>8, <2>1, <2>2
<1>10. CASE Rx!gem_last_slot
  <2>1. Rx!gem_store(received, FALSE, TRUE) /\ received' = received
    BY <1>10 DEF Rx!gem_last_slot
  <2>2. received \in Nat /\ received >= received
    BY <1>1 DEF RxTypeOK
  <2> HIDE DEF StoredHasArrived, WholeFramesNew, TokenHasFrame, Rx!DeliveredOnce
  <2> QED
    BY <1>8, <2>1, <2>2
<1>11. CASE Rx!gem_out_of_buffers \/ Rx!prefetch \/ Rx!evict \/ UNCHANGED Rx!vars
  BY <1>1, <1>11 DEF Rx!gem_out_of_buffers, Rx!prefetch, Rx!evict, Rx!vars, Rx!driverVars,
                     Rx!gemVars
<1> QED
  BY <1>2, <1>4, <1>5, <1>6, <1>7, <1>9, <1>10, <1>11 DEF Rx!Next, Rx!Driver, Rx!Gem, Scanning

(* What may happen in a behaviour is chosen at its start.                  *)
LEMMA DisturbancesChosen == [Rx!Next]_(Rx!vars) => may' = may
<1>1. Rx!Driver => may' = may
  BY DEF Rx!Driver, Rx!receive, Rx!no_frames, Rx!scan_hardware_slot, Rx!scan_single_frame,
         Rx!scan_start,
         Rx!scan_end, Rx!clear_slots, Rx!consume_invalidate, Rx!consume_read,
         Rx!consume_clear_slot,
         Rx!consume_flush
<1>2. Rx!Gem => may' = may
  BY DEF Rx!Gem, Rx!gem_first_slot, Rx!gem_last_slot, Rx!gem_store, Rx!gem_out_of_buffers
<1>3. Rx!prefetch \/ Rx!evict \/ UNCHANGED Rx!vars => may' = may
  BY DEF Rx!prefetch, Rx!evict, Rx!vars
<1> QED
  BY <1>1, <1>2, <1>3 DEF Rx!Next

LEMMA LinesStep ==
  DeliveryInv /\ LinesInv /\ Rx!FrameIntact /\ [Rx!Next]_(Rx!vars)
    => LinesInv' /\ Rx!FrameIntact'
<1> SUFFICES ASSUME DeliveryInv, LinesInv, Rx!FrameIntact, [Rx!Next]_(Rx!vars)
             PROVE  LinesInv' /\ Rx!FrameIntact'
  OBVIOUS
<1>0. may' = may
  BY DisturbancesChosen
<1> SUFFICES ASSUME "stack_write" \notin may
             PROVE  LinesInv' /\ Rx!FrameIntact'
  BY <1>0 DEF LinesInv, Rx!FrameIntact
<1> DEFINE Clean(i, p) == line[i][p].cache # "dirty" /\ line[i][p].ddr = frame[i]
           Lent(i) == rx_pc \in {"read", "cleared"} /\ i = scan.at
<1>1. /\ RxTypeOK /\ scan.at \in Rx!Slot /\ RxTypeOK' /\ TokenHasFrame /\ LastSlotWraps
      /\ \A i \in Rx!Slot, p \in Rx!Part : line[i][p] \in CacheLine
  BY RxTypeStep DEF DeliveryInv, RxTypeOK
<1>2. /\ \A i \in Rx!Slot, p \in Rx!Part : Clean(i, p)
      /\ rx_pc = "invalidated" => Rx!view(line[scan.at]["first"]) = frame[scan.at]
      /\ "prefetch" \notin may =>
           \A i \in Rx!Slot, p \in Rx!Part : line[i][p].cache # "absent" => Lent(i)
  BY DEF LinesInv
<1>3. ASSUME UNCHANGED <<may, frame, lastRead>>,
             \A i \in Rx!Slot, p \in Rx!Part : Clean(i, p)',
             rx_pc' = "invalidated" => (Rx!view(line[scan.at]["first"]) = frame[scan.at])',
             "prefetch" \notin may => \A i \in Rx!Slot, p \in Rx!Part :
                                        line'[i][p].cache # "absent" => Lent(i)'
      PROVE  LinesInv' /\ Rx!FrameIntact'
  BY <1>3 DEF LinesInv, Rx!FrameIntact
<1>4. CASE \/ Scanning \/ Rx!clear_slots \/ Rx!consume_clear_slot \/ Rx!gem_out_of_buffers
           \/ UNCHANGED Rx!vars
  <2>1. /\ UNCHANGED <<may, frame, line, lastRead>>
        /\ rx_pc \in {"read", "cleared"} => rx_pc' \in {"read", "cleared"} /\ scan' = scan
        /\ rx_pc' = "invalidated" => rx_pc = "invalidated" /\ scan' = scan
    <3>1. CASE Scanning
      BY <1>1, <3>1, ScanningStep
    <3>2. CASE ~ Scanning
      BY <1>4, <3>2 DEF Rx!clear_slots, Rx!consume_clear_slot, Rx!gem_out_of_buffers, Rx!vars,
                        Rx!driverVars
    <3> QED
      BY <3>1, <3>2
  <2> QED
    BY <1>2, <2>1 DEF LinesInv, Rx!FrameIntact
<1>5. CASE Rx!consume_invalidate
  <2>1. /\ line'[scan.at]["first"] = Rx!dropped(line[scan.at]["first"])
        /\ line'[scan.at]["rest"] = line[scan.at]["rest"]
        /\ \A j \in Rx!Slot : j # scan.at => line'[j] = line[j]
    BY <1>1, <1>5, InvalidateStep
  <2>2. UNCHANGED <<may, frame, scan, lastRead>> /\ rx_pc = "token" /\ rx_pc' = "invalidated"
    BY <1>5 DEF Rx!consume_invalidate
  <2>3. \A i \in Rx!Slot, p \in Rx!Part :
          line'[i][p] = line[i][p] \/ line'[i][p] = Rx!dropped(line[i][p])
    BY <2>1 DEF Rx!Part
  <2>4. \A i \in Rx!Slot, p \in Rx!Part :
          line'[i][p].cache \in {"absent", line[i][p].cache} /\ line'[i][p].ddr = line[i][p].ddr
    BY <1>1, <2>3, LineOperations
  <2>5. Rx!view(line'[scan.at]["first"]) = line'[scan.at]["first"].ddr
    BY <1>1, <2>1, LineOperations DEF Rx!Part
  <2>6. "first" \in Rx!Part
    BY DEF Rx!Part
  <2> QED
    BY <1>1, <1>2, <1>3, <2>2, <2>4, <2>5, <2>6
<1>6. CASE Rx!consume_flush
  <2>1. /\ \A p \in Rx!Part : line'[scan.at][p] = Rx!clean_invalidate(line[scan.at][p])
        /\ \A j \in Rx!Slot : j # scan.at => line'[j] = line[j]
    BY <1>1, <1>6, FlushStep
  <2>2. UNCHANGED <<may, frame, scan, lastRead>> /\ rx_pc' = "idle"
    BY <1>6 DEF Rx!consume_flush, Rx!gemVars
  <2>3. \A i \in Rx!Slot, p \in Rx!Part :
          /\ line'[i][p].cache \in {"absent", line[i][p].cache}
          /\ line'[i][p].ddr = line[i][p].ddr
          /\ i = scan.at => line'[i][p].cache = "absent"
    BY <1>1, <1>2, <2>1, LineOperations
  <2> QED
    BY <1>2, <1>3, <2>2, <2>3
<1>7. CASE Rx!consume_read
  <2>1. /\ \A p \in Rx!Part : line'[scan.at][p] = Rx!fetched(line[scan.at][p])
        /\ \A j \in Rx!Slot : j # scan.at => line'[j] = line[j]
    BY <1>1, <1>7, ReadStep
  <2>2. /\ UNCHANGED <<may, frame, scan>> /\ rx_pc = "invalidated" /\ rx_pc' = "read"
        /\ lastRead' = [frame |-> frame[scan.at], first |-> Rx!view(line[scan.at]["first"]),
                        rest |-> Rx!view(line[scan.at]["rest"])]
    BY <1>7 DEF Rx!consume_read, Rx!gemVars
  <2>3. \A i \in Rx!Slot, p \in Rx!Part :
          /\ line'[i][p].cache # "dirty" /\ line'[i][p].ddr = line[i][p].ddr
          /\ i # scan.at => line'[i][p] = line[i][p]
    BY <1>1, <1>2, <2>1, LineOperations
  <2>4. LinesInv'
    BY <1>2, <2>2, <2>3 DEF LinesInv
  <2>5. "prefetch" \notin may => Rx!view(line[scan.at]["rest"]) = frame[scan.at]
    <3>1. "rest" \in Rx!Part
      BY DEF Rx!Part
    <3>2. "prefetch" \notin may => line[scan.at]["rest"].cache = "absent"
      BY <1>1, <1>2, <2>2, <3>1
    <3> QED
      BY <1>1, <1>2, <3>1, <3>2, LineOperations
  <2>6. Rx!FrameIntact'
    BY <1>2, <2>2, <2>5 DEF Rx!FrameIntact
  <2> QED
    BY <2>4, <2>6
<1>8. CASE Rx!gem_first_slot \/ Rx!gem_last_slot
  <2>1. PICK f \in Nat, sof \in BOOLEAN, eof \in BOOLEAN : Rx!gem_store(f, sof, eof)
    <3>1. received \in Nat
      BY <1>1 DEF RxTypeOK
    <3>2. CASE Rx!gem_first_slot
      <4>1. PICK more \in BOOLEAN : Rx!gem_store(received + 1, TRUE, ~ more)
        BY <3>2 DEF Rx!gem_first_slot
      <4>2. received + 1 \in Nat /\ TRUE \in BOOLEAN /\ (~ more) \in BOOLEAN
        BY <3>1
      <4> QED
        BY <4>1, <4>2
    <3>3. CASE Rx!gem_last_slot
      <4>1. Rx!gem_store(received, FALSE, TRUE)
        BY <3>3 DEF Rx!gem_last_slot
      <4>2. TRUE \in BOOLEAN /\ FALSE \in BOOLEAN
        OBVIOUS
      <4> QED
        BY <3>1, <4>1, <4>2
    <3> QED
      BY <1>8, <3>2, <3>3
  <2>2. /\ UNCHANGED <<may, rx_pc, scan, lastRead>>
        /\ slot[rx_hwIdx].own = "Hardware"
        /\ frame' = [frame EXCEPT ![rx_hwIdx] = f]
        /\ \A p \in Rx!Part : line'[rx_hwIdx][p] = [line[rx_hwIdx][p] EXCEPT !.ddr = f]
        /\ \A i \in Rx!Slot : i # rx_hwIdx => line'[i] = line[i]
    BY <1>1, <2>1, StoreStep
  <2>3. /\ rx_hwIdx \in Rx!Slot /\ frame'[rx_hwIdx] = f
        /\ \A i \in Rx!Slot : i # rx_hwIdx => frame'[i] = frame[i]
    BY <1>1, <2>2 DEF RxTypeOK
  <2>4. \A p \in Rx!Part :
          line'[rx_hwIdx][p].ddr = f /\ line'[rx_hwIdx][p].cache = line[rx_hwIdx][p].cache
    <3> TAKE p \in Rx!Part
    <3>1. /\ line[rx_hwIdx][p] \in CacheLine
          /\ line'[rx_hwIdx][p] = [line[rx_hwIdx][p] EXCEPT !.ddr = f]
      BY <1>1, <2>2, <2>3
    <3> QED
      BY <3>1 DEF CacheLine
  <2>5. rx_pc = "invalidated" => scan.at # rx_hwIdx
    BY <1>1, <2>2 DEF TokenHasFrame, Rx!WholeFrame
  <2>6. rx_pc' = "invalidated" => (Rx!view(line[scan.at]["first"]) = frame[scan.at])'
    BY <1>1, <1>2, <2>2, <2>3, <2>5
  <2>7. \A i \in Rx!Slot, p \in Rx!Part : Clean(i, p)'
    BY <1>2, <2>2, <2>3, <2>4
  <2>8. "prefetch" \notin may => \A i \in Rx!Slot, p \in Rx!Part :
                                   line'[i][p].cache # "absent" => Lent(i)'
    BY <1>2, <2>2, <2>3, <2>4
  <2> QED
    BY <2>2, <2>6, <2>7, <2>8 DEF LinesInv, Rx!FrameIntact
<1>9. CASE Rx!prefetch \/ Rx!evict
  <2>1. \A i \in Rx!Slot, p \in Rx!Part :
          \/ line'[i][p] = line[i][p]
          \/ "prefetch" \in may /\ line'[i][p] = Rx!fetched(line[i][p])
          \/ line'[i][p] = Rx!clean_invalidate(line[i][p])
    BY <1>1, <1>9, CacheStep
  <2>2. UNCHANGED <<may, frame, rx_pc, scan, lastRead>>
    BY <1>9 DEF Rx!prefetch, Rx!evict, Rx!driverVars
  <2>3. \A i \in Rx!Slot, p \in Rx!Part :
          /\ line'[i][p].cache # "dirty" /\ line'[i][p].ddr = line[i][p].ddr
          /\ "prefetch" \notin may => line'[i][p].cache \in {"absent", line[i][p].cache}
    BY <1>1, <1>2, <2>1, LineOperations
  <2>4. \A i \in Rx!Slot, p \in Rx!Part :
          Rx!view(line[i][p]) = frame[i] => Rx!view(line'[i][p]) = frame[i]
    <3> TAKE i \in Rx!Slot, p \in Rx!Part
    <3>1. Rx!clean_invalidate(line[i][p]) \in CacheLine
      BY <1>1, LineOperations
    <3>2. Rx!view(Rx!clean_invalidate(line[i][p])) = frame[i]
      BY <1>1, <1>2, <3>1, LineOperations
    <3> QED
      BY <1>1, <2>1, <3>2, LineOperations
  <2>5. "first" \in Rx!Part
    BY DEF Rx!Part
  <2> QED
    BY <1>1, <1>2, <1>3, <2>2, <2>3, <2>4, <2>5
<1> QED
  BY <1>4, <1>5, <1>6, <1>7, <1>8, <1>9 DEF Rx!Next, Rx!Driver, Rx!Gem, Scanning

LEMMA OrderStep ==
  DeliveryInv /\ OrderInv /\ [Rx!Next]_(Rx!vars) => OrderInv'
<1> SUFFICES ASSUME DeliveryInv, OrderInv, [Rx!Next]_(Rx!vars)
             PROVE  OrderInv'
  OBVIOUS
<1>0. may' = may
  BY DisturbancesChosen
<1> SUFFICES ASSUME "long_frame" \notin may
             PROVE  OrderInv'
  BY <1>0 DEF OrderInv
<1> DEFINE Filled(i) == IF behind(i) <= received THEN received + 1 - behind(i) ELSE 0
<1>1. /\ RxTypeOK /\ scan.at \in Rx!Slot /\ RxTypeOK' /\ TokenHasFrame /\ LastSlotWraps
      /\ StoredHasArrived /\ StoredHasArrived' /\ rx_hwIdx \in Rx!Slot
      /\ slot \in [Rx!Slot -> Descriptor] /\ delivered \in [Rx!Frame -> 0 .. 2]
      /\ frame \in [Rx!Slot -> Nat] /\ received \in 0 .. MaxReceived
  BY RxTypeStep, DeliveryStep DEF DeliveryInv, RxTypeOK
<1>2. /\ ~ inFrame /\ scan.start = Rx!None /\ rx_pc # "clearing"
      /\ \A i \in Rx!Slot : slot[i].own = "Software" => slot[i].sof /\ slot[i].eof
      /\ \A i \in Rx!Slot : frame[i] = Filled(i)
      /\ \A i \in Rx!Slot : slot[i].own = "Hardware" /\ frame[i] > 0 => delivered[frame[i]] > 0
      /\ \A f \in Rx!Frame : f <= received - Slots => delivered[f] > 0
  BY DEF OrderInv
<1>3. CASE Scanning
  <2>1. /\ UNCHANGED <<may, slot, frame, rx_hwIdx, inFrame, received, delivered>>
        /\ rx_pc' = "clearing" => /\ scan.start # Rx!None
        /\ scan'.start \in {scan.start, Rx!None}
           \/ (slot[scan.at].own = "Software" /\ ~ slot[scan.at].eof)
    BY <1>1, <1>3, ScanningStep
  <2> QED
    BY <1>1, <1>2, <2>1 DEF OrderInv, behind
<1>4. CASE \/ Rx!consume_invalidate \/ Rx!consume_flush \/ Rx!prefetch \/ Rx!evict
           \/ UNCHANGED Rx!vars
  <2>1. /\ UNCHANGED <<may, slot, frame, scan, rx_hwIdx, inFrame, received, delivered>>
        /\ rx_pc' \in {rx_pc, "invalidated", "idle"}
    BY <1>4 DEF Rx!consume_invalidate, Rx!consume_flush, Rx!prefetch, Rx!evict, Rx!vars,
                Rx!driverVars, Rx!gemVars
  <2> QED
    BY <1>2, <2>1 DEF OrderInv, behind
<1>5. CASE Rx!consume_read
  <2>1. /\ UNCHANGED <<may, slot, frame, scan, rx_hwIdx, inFrame, received>> /\ rx_pc' = "read"
        /\ delivered' = [delivered EXCEPT ![frame[scan.at]] =
                           IF delivered[frame[scan.at]] = 0 THEN 1 ELSE 2]
    BY <1>5 DEF Rx!consume_read, Rx!gemVars
  <2>2. \A f \in Rx!Frame : delivered[f] > 0 => delivered'[f] > 0
    BY <1>1, <2>1
  <2>3. \A i \in Rx!Slot : frame[i] > 0 => frame[i] \in Rx!Frame
    BY <1>1 DEF StoredHasArrived, Rx!Frame
  <2> QED
    BY <1>2, <2>1, <2>2, <2>3 DEF OrderInv, behind
<1>6. CASE Rx!consume_clear_slot
  <2>1. /\ slot' = [slot EXCEPT ![scan.at] = Rx!clear_slot(@)]
        /\ rx_pc = "read" /\ rx_pc' = "cleared"
        /\ UNCHANGED <<may, frame, scan, rx_hwIdx, inFrame, received, delivered>>
    BY <1>6 DEF Rx!consume_clear_slot, Rx!released, Rx!gemVars
  <2>2. /\ slot'[scan.at].own = "Hardware"
        /\ \A j \in Rx!Slot : j # scan.at => slot'[j] = slot[j]
    BY <1>1, <2>1, ClearStep
  <2>3. delivered[frame[scan.at]] > 0
    BY <1>1, <2>1 DEF TokenHasFrame
  <2>4. /\ \A i \in Rx!Slot : slot'[i].own = "Software" => slot'[i].sof /\ slot'[i].eof
        /\ \A i \in Rx!Slot : slot'[i].own = "Hardware" /\ frame[i] > 0 => delivered[frame[i]] > 0
    BY <1>2, <2>2, <2>3
  <2> QED
    BY <1>2, <2>1, <2>4 DEF OrderInv, behind
<1>7. CASE Rx!gem_first_slot
  <2>1. /\ Rx!gem_store(received + 1, TRUE, TRUE) /\ inFrame' = FALSE
        /\ received < MaxReceived /\ received' = received + 1
    <3>1. PICK more \in {b \in BOOLEAN : b => "long_frame" \in may} :
            Rx!gem_store(received + 1, TRUE, ~ more) /\ inFrame' = more
      BY <1>7 DEF Rx!gem_first_slot
    <3>2. more = FALSE /\ (~ more) = TRUE
      BY <3>1
    <3> QED
      BY <1>7, <3>1, <3>2 DEF Rx!gem_first_slot
  <2>2. received + 1 \in Nat /\ TRUE \in BOOLEAN
    BY <1>1
  <2>3. /\ UNCHANGED <<may, rx_pc, scan, delivered>>
        /\ slot[rx_hwIdx].own = "Hardware"
        /\ slot'[rx_hwIdx].own = "Software"
        /\ slot'[rx_hwIdx].sof = TRUE /\ slot'[rx_hwIdx].eof = TRUE
        /\ \A i \in Rx!Slot : i # rx_hwIdx => slot'[i] = slot[i]
        /\ frame' = [frame EXCEPT ![rx_hwIdx] = received + 1]
        /\ rx_hwIdx' = (IF rx_hwIdx = Slots - 1 THEN 0 ELSE rx_hwIdx + 1)
    BY <1>1, <2>1, <2>2, StoreStep
  <2>4. /\ frame'[rx_hwIdx] = received + 1
        /\ \A i \in Rx!Slot : i # rx_hwIdx => frame'[i] = frame[i]
    BY <1>1, <2>3
  <2>5. /\ Slots \in Nat /\ Slots > 1 /\ rx_hwIdx \in 0 .. Slots - 1 /\ received \in Nat
        /\ MaxReceived \in Nat
    BY <1>1 DEF Rx!Slot
  <2>6. \A i \in Rx!Slot : behind(i)' = IF i = rx_hwIdx THEN 1 ELSE behind(i) + 1
    BY <2>3, <2>5 DEF behind, Rx!Slot
  <2>7. behind(rx_hwIdx) = Slots /\ \A i \in Rx!Slot : behind(i) \in 1 .. Slots
    BY <2>5 DEF behind, Rx!Slot
  <2>8. \A i \in Rx!Slot : frame'[i] = Filled(i)'
    BY <1>2, <2>1, <2>4, <2>5, <2>6, <2>7
  <2>9. \A f \in Rx!Frame : f <= received' - Slots => delivered'[f] > 0
    <3> SUFFICES ASSUME NEW f \in Rx!Frame, f = received + 1 - Slots
                 PROVE  delivered[f] > 0
      BY <1>2, <2>1, <2>3, <2>5 DEF Rx!Frame
    <3>1. frame[rx_hwIdx] = f
      BY <1>1, <1>2, <2>5, <2>7 DEF Rx!Frame
    <3> QED
      BY <1>1, <1>2, <2>3, <3>1 DEF Rx!Frame
  <2>10. /\ \A i \in Rx!Slot : slot'[i].own = "Software" => slot'[i].sof /\ slot'[i].eof
         /\ \A i \in Rx!Slot :
              slot'[i].own = "Hardware" /\ frame'[i] > 0 => delivered'[frame'[i]] > 0
    BY <1>2, <2>3, <2>4
  <2> QED
    BY <1>2, <2>1, <2>3, <2>8, <2>9, <2>10 DEF OrderInv
<1> QED
  BY <1>2, <1>3, <1>4, <1>5, <1>6, <1>7
     DEF Rx!Next, Rx!Driver, Rx!Gem, Scanning, Rx!gem_last_slot, Rx!gem_out_of_buffers,
         Rx!clear_slots

(* The receive ring keeps all of the above, whatever happens around it.    *)
THEOREM RxInvariant == Rx!Spec => []RxInv
<1>1. Rx!Init => RxInv
  BY InitRx
<1>2. RxInv /\ [Rx!Next]_(Rx!vars) => RxInv'
  BY RxTypeStep, DeliveryStep, LinesStep, OrderStep DEF RxInv, DeliveryInv
<1> QED
  BY <1>1, <1>2, PTL DEF Rx!Spec

(* The receive ring counts frames with the same cardinality.               *)
LEMMA CardinalityOfRing == ASSUME NEW S PROVE Rx!Cardinality(S) = Cardinality(S)
BY DEF Cardinality, Rx!Cardinality

(* The invariant says what the stack gets.                                 *)
LEMMA RxInvDelivers == RxInv => FramesDelivered
<1> SUFFICES ASSUME RxInv PROVE Rx!OvertakingBounded
  BY DEF RxInv, DeliveryInv, FramesDelivered, Rx!FramesDelivered
<1> SUFFICES ASSUME "long_frame" \notin may, NEW f \in 1 .. received, delivered[f] = 0
             PROVE  Cardinality({g \in f + 1 .. received : delivered[g] > 0}) < Slots
  BY CardinalityOfRing DEF Rx!OvertakingBounded
<1>1. received \in 0 .. MaxReceived /\ Slots \in Nat /\ MaxReceived \in Nat /\ f \in Rx!Frame
  BY DEF RxInv, DeliveryInv, RxTypeOK, Rx!Frame
<1>2. received - f < Slots
  BY <1>1 DEF RxInv, OrderInv, Rx!Frame
<1> DEFINE over == {g \in f + 1 .. received : delivered[g] > 0}
<1>3. IsFiniteSet(f + 1 .. received) /\ Cardinality(f + 1 .. received) = received - f
  <2>1. f + 1 \in Int /\ received \in Int /\ f <= received
    BY <1>1
  <2>2. /\ IsFiniteSet(f + 1 .. received)
        /\ Cardinality(f + 1 .. received) = IF f + 1 > received THEN 0 ELSE received - (f + 1) + 1
    BY <2>1, FS_Interval
  <2> QED
    BY <1>1, <2>1, <2>2
<1>4. Cardinality(over) <= received - f /\ Cardinality(over) \in Nat
  <2>1. over \in SUBSET (f + 1 .. received)
    OBVIOUS
  <2> HIDE DEF over
  <2>2. IsFiniteSet(over) /\ Cardinality(over) <= Cardinality(f + 1 .. received)
    BY <1>3, <2>1, FS_Subset
  <2>3. Cardinality(over) \in Nat
    BY <2>2, FS_CardinalityType
  <2> QED
    BY <1>3, <2>2, <2>3
<1> QED
  BY <1>1, <1>2, <1>4

(* Frames are handed up once each, intact and overtaken by less than a     *)
(* ring, for rings of every size and any number of frames.                 *)
THEOREM StackGetsFrames == Rx!Spec => []FramesDelivered
BY RxInvariant, RxInvDelivers, PTL
=============================================================================
