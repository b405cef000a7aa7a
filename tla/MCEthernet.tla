----------------------------- MODULE MCEthernet -----------------------------
(* The Ethernet driver: its two descriptor rings, the interrupt with the   *)
(* task it wakes, and the link.  One of them runs in a behaviour while the *)
(* others stay as they are initially.                                      *)
EXTENDS EthTxRing

CONSTANTS
  MaxReceived, Disturbances,                             \* receive ring
  RxSlots, TxSlots, MaxArrivals, MaxSend, MaxFailures,   \* interrupt
  Speeds, MaxChanges                                     \* link

VARIABLES
  subject,   \* what runs: "tx", "rx", "interrupt" or "link"
  may, slot, frame, line, current, rx_pc, scan, rx_hwIdx, inFrame, received, delivered, lastRead,
  rx, tx, arrived, to_send, asked, failed, status, enabled, tx_status, handler, copy, tx_copy,
  wakers, task, woken,
  net_ctrl, mac, clk, driver, ip_mode, access, asleep, seen, LINK_STATE, stack_link, link_waker,
  net_woken, config_up, phy

Rx == INSTANCE EthRxRing WITH MaxFrames <- MaxReceived, pc <- rx_pc, hwIdx <- rx_hwIdx
Irq == INSTANCE EthInterrupt WITH MaxFrames <- MaxArrivals
Link == INSTANCE EthLink

ASSUME MCEthernetAssumption ==
  Rx!RxRingAssumption /\ Irq!EthInterruptAssumption /\ Link!EthLinkAssumption

rxVars == <<may, slot, frame, line, current, rx_pc, scan, rx_hwIdx, inFrame, received, delivered,
            lastRead>>
irqVars == <<rx, tx, arrived, to_send, asked, failed, status, enabled, tx_status, handler, copy,
             tx_copy, wakers, task, woken>>
linkVars == <<net_ctrl, mac, clk, driver, ip_mode, access, asleep, seen, LINK_STATE, stack_link,
              link_waker, net_woken, config_up, phy>>
mcVars == <<subject, vars, rxVars, irqVars, linkVars>>

MCInit ==
  /\ subject \in {"tx", "rx", "interrupt", "link"}
  /\ Init /\ Rx!Init /\ Irq!Init /\ Link!LinkInit
  /\ subject # "rx" => may = {}
  /\ subject # "link" => mac = Link!AtConstruction /\ clk = 1000

Part(name, A) == subject = name /\ A /\ UNCHANGED subject
Tx(A) == Part("tx", A) /\ UNCHANGED <<rxVars, irqVars, linkVars>>
R(A) == Part("rx", A) /\ UNCHANGED <<vars, irqVars, linkVars>>
I(A) == Part("interrupt", A) /\ UNCHANGED <<vars, rxVars, linkVars>>
L(A) == Part("link", A) /\ UNCHANGED <<vars, rxVars, irqVars>>

MCNext == Tx(Next) \/ R(Rx!Next) \/ I(Irq!Next) \/ L(Link!LinkNext)

(* The fairness of all parts.  Only one of them runs, so one condition     *)
(* stands for one of each; of the steps of transmit() and consume() only   *)
(* one is possible at a time.                                              *)
MCSpec ==
  /\ MCInit /\ [][MCNext]_mcVars
  /\ WF_mcVars(\/ Tx(\/ check_and_handle_completed_transfer \/ check_full
                      \/ consume_clean \/ consume_prepare \/ consume_start_tx)
               \/ R(Rx!Driver) \/ I(Irq!Task) \/ L(Link!LinkTask))
  /\ WF_mcVars(Tx(Gem) \/ I(Irq!Handler) \/ L(Link!PhyStep))
  /\ WF_mcVars(I(Irq!Gem))
  /\ SF_mcVars(L(Link!link_state)) /\ SF_mcVars(L(Link!get_address))

-----------------------------------------------------------------------------
(* What the modules state, of the part that runs.                          *)

(* Each frame the GEM stored is handed up at most once, intact and in      *)
(* order.                                                                  *)
FramesDelivered == Rx!FramesDelivered
(* A slot with a whole frame is given back to the GEM in the end.          *)
SlotReturned == Rx!SlotReturned
(* The network task never sleeps on work it was not told of.               *)
NoLostWakeup == Irq!NoLostWakeup
(* The setting the link task goes by is the one in force at the PHY.       *)
SettingCurrent == Link!SettingCurrent
(* What arrives is handled and what is to be sent gets its slot; a link    *)
(* that stays up is used again.                                            *)
NothingStuck == Irq!NothingStuck /\ (subject = "link" => Link!LinkRecovers)
=============================================================================
