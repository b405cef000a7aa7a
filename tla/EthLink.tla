------------------------------ MODULE EthLink ------------------------------
(***************************************************************************)
(* The Ethernet link: the set-up of the controller and the PHY, and the    *)
(* task that watches the link, brings the controller to the speed the PHY  *)
(* negotiated and tells the network stack whether the link is up           *)
(* (eth/mod.rs, eth/ll.rs, eth/mdio.rs, phy_marvell.rs, and the main task  *)
(* of examples/zedboard/src/bin/ethernet.rs).  The PHY renegotiates        *)
(* whenever the partner likes: between any two accesses of the task.       *)
(*                                                                         *)
(* The divisors of the transmit clock are named by the speed they are for. *)
(***************************************************************************)
EXTENDS Naturals

CONSTANTS
  Speeds,     \* speeds the PHY can negotiate, 1000 one of them
  MaxChanges  \* bound on how often the link is lost

EthLinkAssumption == 1000 \in Speeds /\ MaxChanges \in Nat

VARIABLES
  net_ctrl,  \* of the network control register: "rx", "tx" and "mgmt" where enabled
  mac,       \* speed and duplex in the network configuration register
  clk,       \* speed the divisors of the transmit clock are for
  driver,    \* current_speed, current_duplex and current_clk_divs of Ethernet
  ip_mode,   \* of the main task, or how far its set-up is
  access,    \* what of the PHY the main task has read in this round
  asleep,    \* it awaits its timer: only then do other tasks run
  seen,      \* the setting it read last
  LINK_STATE, stack_link,  \* what it told the stack, and what the stack knows
  link_waker, net_woken,   \* LINK_WAKER holds the network task; that is woken
  config_up, \* the stack has its address
  phy        \* link, the latch that it was down, whether negotiated, and the setting

macVars == <<net_ctrl, mac, clk, driver>>
mainVars == <<ip_mode, access, asleep, seen>>
stackVars == <<LINK_STATE, stack_link, link_waker, net_woken, config_up>>
linkVars == <<net_ctrl, mac, clk, driver, ip_mode, access, asleep, seen,
              LINK_STATE, stack_link, link_waker, net_woken, config_up, phy>>

Settings == [speed : Speeds, duplex : {"half", "full"}]
AtConstruction == [speed |-> 1000, duplex |-> "full"]

(* Out of reset the controller and the PHY are at some setting.            *)
LinkInit ==
  /\ net_ctrl = {} /\ mac \in Settings /\ clk \in Speeds
  /\ driver = [setting |-> AtConstruction, clk_divs |-> 1000]
  /\ ip_mode = "common_init" /\ access = "none" /\ asleep = FALSE /\ seen = AtConstruction
  /\ LINK_STATE = FALSE /\ stack_link = FALSE /\ config_up = FALSE
  /\ link_waker = FALSE /\ net_woken = TRUE
  /\ phy = [link |-> FALSE, down |-> TRUE, complete |-> FALSE,
            setting |-> AtConstruction, changes |-> 0]

-----------------------------------------------------------------------------
(* Set-up.                                                                 *)

initialize == net_ctrl' = {}
set_speed_and_duplex(setting) == mac' = setting
configure_clock_divs(speed) == clk' = speed
set_tx_rx_enable(ctrl, enables) == (ctrl \ {"rx", "tx"}) \cup enables

common_init ==
  /\ ip_mode = "common_init"
  /\ initialize
  /\ set_speed_and_duplex(AtConstruction)
  /\ ip_mode' = "new_with_mio"
  /\ UNCHANGED <<clk, driver, access, asleep, seen, stackVars, phy>>

new_with_mio ==
  /\ ip_mode = "new_with_mio"
  /\ configure_clock_divs(1000)
  /\ net_ctrl' = net_ctrl \cup {"mgmt"}
  /\ driver' = [setting |-> AtConstruction, clk_divs |-> 1000]
  /\ ip_mode' = "start"
  /\ UNCHANGED <<mac, access, asleep, seen, stackVars, phy>>

start ==
  /\ ip_mode = "start"
  /\ net_ctrl' = set_tx_rx_enable(net_ctrl, {"rx", "tx"})
  /\ ip_mode' = "phy_reset"
  /\ UNCHANGED <<mac, clk, driver, access, asleep, seen, stackVars, phy>>

lost == [phy EXCEPT !.link = FALSE, !.down = TRUE, !.complete = FALSE]

phy_reset ==
  /\ ip_mode = "phy_reset" /\ "mgmt" \in net_ctrl
  /\ phy' = lost
  /\ ip_mode' = "restart_auto_negotiation"
  /\ UNCHANGED <<macVars, access, asleep, seen, stackVars>>

restart_auto_negotiation ==
  /\ ip_mode = "restart_auto_negotiation"
  /\ phy' = lost
  /\ ip_mode' = "LinkDown"
  /\ UNCHANGED <<macVars, access, asleep, seen, stackVars>>

-----------------------------------------------------------------------------
(* The main task, one arm of its match or one access to the PHY at a time. *)

update_link_state(up) ==
  /\ LINK_STATE' = up
  /\ net_woken' = (net_woken \/ (LINK_STATE # up /\ link_waker))
  /\ link_waker' = (link_waker /\ LINK_STATE = up)

LinkDown ==
  /\ ip_mode = "LinkDown"
  /\ update_link_state(FALSE)
  /\ ip_mode' = "AutoNegotiating"
  /\ UNCHANGED <<macVars, access, asleep, seen, stack_link, config_up, phy>>

(* The latching bit holds a loss of the link until it is read.             *)
read_copper_status == phy' = [phy EXCEPT !.down = ~ phy.link]

AutoNegotiating_status ==
  /\ ip_mode = "AutoNegotiating" /\ access = "none" /\ ~ asleep
  /\ read_copper_status
  /\ access' = IF phy.complete THEN "status" ELSE "none"
  /\ asleep' = ~ phy.complete
  /\ UNCHANGED <<macVars, ip_mode, seen, stackVars>>

(* While the PHY negotiates, its specific status shows any setting.        *)
read_copper_specific_status_register_1 ==
  /\ ip_mode = "AutoNegotiating" /\ access = "status"
  /\ seen' \in IF phy.complete THEN {phy.setting} ELSE Settings
  /\ access' = "setting"
  /\ UNCHANGED <<macVars, ip_mode, asleep, stackVars, phy>>

unchanged_setting == driver = [setting |-> seen, clk_divs |-> seen.speed]

configure_clock_and_speed_duplex ==
  IF unchanged_setting
  THEN UNCHANGED macVars
  ELSE /\ configure_clock_divs(seen.speed)
       /\ set_speed_and_duplex(seen)
       /\ net_ctrl' = set_tx_rx_enable(set_tx_rx_enable(net_ctrl, {}), {"rx", "tx"})
       /\ UNCHANGED driver

(* Mutant: the status is read once more, which clears the latch.           *)
AutoNegotiating_configure_rereading ==
  /\ ip_mode = "AutoNegotiating" /\ access = "setting"
  /\ read_copper_status
  /\ configure_clock_and_speed_duplex
  /\ update_link_state(TRUE)
  /\ ip_mode' = "AwaitingIpConfig" /\ access' = "none"
  /\ UNCHANGED <<asleep, seen, stack_link, config_up>>

AutoNegotiating_configure ==
  /\ ip_mode = "AutoNegotiating" /\ access = "setting"
  /\ configure_clock_and_speed_duplex
  /\ update_link_state(TRUE)
  /\ ip_mode' = "AwaitingIpConfig" /\ access' = "none"
  /\ UNCHANGED <<asleep, seen, stack_link, config_up, phy>>

AwaitingIpConfig ==
  /\ ip_mode = "AwaitingIpConfig" /\ ~ asleep
  /\ ip_mode' = IF config_up THEN "StackReady" ELSE ip_mode
  /\ asleep' = ~ config_up
  /\ UNCHANGED <<macVars, access, seen, stackVars, phy>>

StackReady ==
  /\ ip_mode = "StackReady" /\ ~ asleep
  /\ read_copper_status
  /\ ip_mode' = IF phy.down THEN "LinkDown" ELSE "StackReady"
  /\ asleep' = ~ phy.down
  /\ UNCHANGED <<macVars, access, seen, stackVars>>

timer_expires ==
  /\ asleep
  /\ asleep' = FALSE
  /\ UNCHANGED <<macVars, ip_mode, access, seen, stackVars, phy>>

LinkTask ==
  \/ common_init \/ new_with_mio \/ start \/ phy_reset \/ restart_auto_negotiation
  \/ LinkDown \/ AutoNegotiating_status \/ read_copper_specific_status_register_1
  \/ AutoNegotiating_configure \/ AwaitingIpConfig \/ StackReady
  \/ timer_expires

-----------------------------------------------------------------------------
(* The stack looks at the link when it is polled, and drops its address    *)
(* with the link; it gets one when frames pass, that is when the MAC and   *)
(* its clock are at the setting of the link.                               *)
link_state ==
  /\ net_woken /\ asleep
  /\ net_woken' = FALSE /\ link_waker' = TRUE
  /\ stack_link' = LINK_STATE
  /\ config_up' = (config_up /\ LINK_STATE)
  /\ UNCHANGED <<macVars, mainVars, LINK_STATE, phy>>

FramesPass == phy.link /\ mac = phy.setting /\ clk = mac.speed /\ {"rx", "tx"} \subseteq net_ctrl

get_address ==
  /\ asleep /\ stack_link /\ ~ config_up /\ FramesPass
  /\ config_up' = TRUE
  /\ UNCHANGED <<macVars, mainVars, LINK_STATE, stack_link, link_waker, net_woken, phy>>

(* The PHY.                                                                *)
lose_link ==
  /\ phy.complete /\ phy.changes < MaxChanges
  /\ phy' = [lost EXCEPT !.changes = @ + 1]
  /\ UNCHANGED <<macVars, mainVars, stackVars>>

negotiate ==
  /\ ~ phy.complete
  /\ \E s \in Settings : phy' = [phy EXCEPT !.complete = TRUE, !.setting = s]
  /\ UNCHANGED <<macVars, mainVars, stackVars>>

bring_up ==
  /\ phy.complete /\ ~ phy.link
  /\ phy' = [phy EXCEPT !.link = TRUE]
  /\ UNCHANGED <<macVars, mainVars, stackVars>>

PhyStep == negotiate \/ bring_up

LinkNext == LinkTask \/ link_state \/ get_address \/ PhyStep \/ lose_link

(* The executor polls both tasks, addresses are handed out, and the PHY    *)
(* negotiates.                                                             *)
LinkSpec == LinkInit /\ [][LinkNext]_linkVars
            /\ WF_linkVars(LinkTask) /\ SF_linkVars(link_state)
            /\ SF_linkVars(get_address) /\ WF_linkVars(PhyStep)

-----------------------------------------------------------------------------
Settled == ip_mode \in {"AwaitingIpConfig", "StackReady"}

(* Once the link is reported up, the setting read from the PHY in two      *)
(* accesses is the one it negotiated, or the loss of that one is latched   *)
(* and will be seen; receiver and transmitter are on, with the clock of    *)
(* the speed of the MAC; and the setting read is in force if it is the     *)
(* first one or not that of the construction.                              *)
SettingCurrent ==
  Settled =>
    /\ (seen = phy.setting /\ phy.complete) \/ phy.down
    /\ {"rx", "tx"} \subseteq net_ctrl /\ clk = mac.speed
    /\ phy.changes = 0 \/ seen # AtConstruction => mac = seen

(* "This function checks whether new auto-negotiated settings require      *)
(* driver settings updates and perform them if necessary." (eth/mod.rs:610)*)
(* So the MAC and its clock are at the setting negotiated last, unless the *)
(* loss of that one will be seen.                                          *)
RunsAsNegotiated ==
  Settled /\ ~ phy.down => mac = phy.setting /\ clk = phy.setting.speed

(* The link always recovers: if from some time on frames pass, then the    *)
(* main task ends up watching the link, and the stack has the link and     *)
(* its address.                                                            *)
LinkRecovers == <>[]FramesPass => <>[](ip_mode = "StackReady" /\ stack_link /\ config_up)
=============================================================================
