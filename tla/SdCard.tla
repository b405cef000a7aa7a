------------------------------- MODULE SdCard -------------------------------
(***************************************************************************)
(* The SD host controller driver (sd/mod.rs): the identification of a card *)
(* and transfers of blocks, one command at a time.  Commands and responses *)
(* can be lost or garbled.  A command of the identification, whose status  *)
(* nothing else touches, is one step; for the commands that move data the  *)
(* status register has its bits set one by one while the driver polls it.  *)
(***************************************************************************)
EXTENDS Integers, Sequences

CONSTANTS
  BLOCK_LEN,  \* addresses of a block, on cards that count bytes
  CardBlocks, \* blocks of the card
  MaxRun,     \* blocks of a call, at most
  MaxErrors   \* bound on commands, responses and blocks that are lost

SdCardAssumption ==
  {BLOCK_LEN, CardBlocks, MaxRun} \subseteq Nat \ {0} /\ MaxErrors \in Nat

VARIABLES
  card,      \* its type, state, bus width, whether CMD55 came, its power-up
  block,     \* what its blocks hold
  host,      \* bus width, status bits, response on its way, whether it expects data
  sd_step,   \* where the driver is
  sd_info,   \* card_type, and whether the RCA is the card's
  found,     \* the same of the initialization that runs
  responded_to_cmd8, tries,
  call,      \* operation, first block, number of blocks, blocks done, address
  buffer,    \* what the call has read
  before,    \* blocks when the call began
  result,    \* of the last call
  errors,    \* commands, responses and blocks lost so far
  swallowed  \* send_command cleared a data bit with the bits of the command

sdVars == <<card, block, host, sd_step, sd_info, found, responded_to_cmd8, tries, call, buffer,
            before, result, errors, swallowed>>
call_vars == <<call, buffer, before, result, swallowed>>
infos == <<sd_info, found>>
cmd8_vars == <<responded_to_cmd8, tries>>

CardType == {"SD1", "SD2", "SdhcSdxc"}
Ops == {"read_single_block", "read", "read_multiple_blocks", "write", "write_multiple_blocks"}
CMD8_RETRIES == 2
Reading(op) == op \in {"read_single_block", "read", "read_multiple_blocks"}
NoCall == [op |-> "none", start |-> 0, n |-> 0, done |-> 0, addr |-> 0]
data(k) == CardBlocks + k   \* block k of what is written

SdInit ==
  /\ \E t \in CardType :
        card = [type |-> t, state |-> "idle", width |-> 1, app |-> FALSE,
                started |-> FALSE, up |-> FALSE, addr |-> 0]
  /\ block = [b \in 0 .. CardBlocks - 1 |-> b]
  /\ host = [width |-> 1, status |-> {}, response |-> "none", expects |-> FALSE]
  /\ sd_step = "initialize" /\ sd_info = [card_type |-> "none", rca |-> FALSE]
  /\ found = sd_info
  /\ responded_to_cmd8 = FALSE /\ tries = 0
  /\ call = NoCall /\ buffer = <<>> /\ before = block /\ result = "none"
  /\ errors = 0 /\ swallowed = FALSE

-----------------------------------------------------------------------------
(* A command: what comes back, and the card after it.  A card answers only *)
(* the commands of its state.                                              *)
sent(legal, next) ==
  IF ~ legal THEN {[status |-> "timeout", card |-> card, cost |-> 0]}
  ELSE {[status |-> "ok", card |-> next, cost |-> 0],
        [status |-> "crc", card |-> next, cost |-> 1],
        [status |-> "timeout", card |-> next, cost |-> 1],
        [status |-> "timeout", card |-> card, cost |-> 1]}

Send(r) == errors + r.cost <= MaxErrors /\ errors' = errors + r.cost /\ card' = r.card

has_response_errors(r) == r.status # "ok"

powered_down == [card EXCEPT !.state = "idle", !.width = 1, !.app = FALSE,
                             !.started = FALSE, !.up = FALSE]

(* A step of the identification with a command whose errors end it.        *)
fail_or(r, to) == sd_step' = IF has_response_errors(r) THEN "failed" ELSE to

command(from, legal, next, to) ==
  /\ sd_step = from
  /\ \E r \in sent(legal, next) : Send(r) /\ fail_or(r, to)
  /\ UNCHANGED <<block, host, infos, cmd8_vars, call_vars>>

(* Low-level set-up: the controller is reset.                              *)
initialize ==
  /\ sd_step = "initialize"
  /\ host' = [host EXCEPT !.width = 1, !.status = {}, !.response = "none", !.expects = FALSE]
  /\ sd_step' = "cmd0" /\ tries' = 0
  /\ UNCHANGED <<card, block, infos, responded_to_cmd8, call_vars, errors>>

(* The command that resets the card has no response to miss.               *)
go_idle ==
  /\ sd_step = "cmd0"
  /\ \/ card' = powered_down /\ UNCHANGED errors
     \/ errors < MaxErrors /\ errors' = errors + 1 /\ UNCHANGED card
  /\ sd_step' = "cmd8"
  /\ UNCHANGED <<block, host, infos, cmd8_vars, call_vars>>

(* CMD8 is repeated when it times out; a garbled response may fail its     *)
(* check or not.                                                           *)
send_if_cond ==
  /\ sd_step = "cmd8"
  /\ \E r \in sent(card.type # "SD1" /\ card.state = "idle", card) :
        /\ Send(r)
        /\ responded_to_cmd8' = (r.status # "timeout")
        /\ \/ r.status = "timeout" /\ tries < CMD8_RETRIES
              /\ tries' = tries + 1 /\ UNCHANGED sd_step
           \/ r.status = "timeout" /\ tries = CMD8_RETRIES
              /\ sd_step' = "acmd41_cmd55" /\ UNCHANGED tries
           \/ r.status # "timeout" /\ sd_step' = "acmd41_cmd55" /\ UNCHANGED tries
           \/ r.status = "crc" /\ sd_step' = "failed" /\ UNCHANGED tries
  /\ UNCHANGED <<block, host, infos, call_vars>>

app_cmd(from, to) ==
  command(from, card.state \in {"idle", "tran"} /\ (card.state = "tran" => to = "acmd6"),
          [card EXCEPT !.app = TRUE], to)

(* A card starts with an ACMD41 that offers it voltages, one of high       *)
(* capacity if the host supports it; it is ready when it has powered up.   *)
asked(starts) ==
  [card EXCEPT !.app = FALSE, !.started = @ \/ starts,
               !.state = IF card.up THEN "ready" ELSE @]

card_type ==
  CASE ~ responded_to_cmd8 -> "SD1"
    [] responded_to_cmd8 /\ card.type = "SdhcSdxc" -> "SdhcSdxc"
    [] OTHER -> "SD2"

send_op_cond(starts, r) ==
  /\ r \in sent(card.app /\ card.state = "idle", asked(starts))
  /\ Send(r)
  /\ found' = IF r.status # "timeout" /\ card.up
              THEN [found EXCEPT !.card_type = card_type] ELSE found
  /\ UNCHANGED <<block, host, sd_info, cmd8_vars, call_vars>>

(* The status of the first is not looked at: if there was no response, the *)
(* one to CMD55 is read again.                                             *)
acmd41 ==
  /\ sd_step = "acmd41"
  /\ \E r \in sent(card.app /\ card.state = "idle",
                   asked(responded_to_cmd8 \/ card.type # "SdhcSdxc")) :
        /\ send_op_cond(responded_to_cmd8 \/ card.type # "SdhcSdxc", r)
        /\ sd_step' = IF r.status # "timeout" /\ card.up THEN "cmd2" ELSE "wait_cmd55"

(* The ones that wait for the card offer nothing.                          *)
wait_for_amd41_card_ready ==
  /\ sd_step = "wait_acmd41"
  /\ \E r \in sent(card.app /\ card.state = "idle", asked(FALSE)) :
        /\ send_op_cond(FALSE, r)
        /\ sd_step' = IF r.status = "timeout" THEN "failed"
                      ELSE IF card.up THEN "cmd2" ELSE "wait_cmd55"

all_send_cid ==
  command("cmd2", card.state = "ready", [card EXCEPT !.state = "ident"], "cmd3")

send_relative_addr ==
  /\ sd_step = "cmd3"
  /\ \E r \in sent(card.state = "ident", [card EXCEPT !.state = "stby"]) :
        /\ Send(r) /\ fail_or(r, "cmd9")
        /\ found' = [found EXCEPT !.rca = ~ has_response_errors(r)]
  /\ UNCHANGED <<block, host, sd_info, cmd8_vars, call_vars>>

send_csd == command("cmd9", card.state = "stby", card, "cmd7")

select_card ==
  command("cmd7", card.state = "stby", [card EXCEPT !.state = "tran"], "cmd13")

check_transfer_state ==
  command("cmd13", card.state \in {"stby", "tran"}, card,
          IF card.state = "tran" THEN "acmd6_cmd55" ELSE "failed")

(* Neither is the status of ACMD6: the controller goes to four bits.       *)
set_bus_width ==
  /\ sd_step = "acmd6"
  /\ \E r \in sent(card.app /\ card.state = "tran", [card EXCEPT !.app = FALSE, !.width = 4]) :
        Send(r)
  /\ host' = [host EXCEPT !.width = 4]
  /\ sd_info' = found
  /\ sd_step' = "initialized" /\ result' = "none"
  /\ UNCHANGED <<block, found, cmd8_vars, call, buffer, before, swallowed>>

initialize_card ==
  \/ initialize \/ go_idle \/ send_if_cond
  \/ app_cmd("acmd41_cmd55", "acmd41") \/ acmd41
  \/ app_cmd("wait_cmd55", "wait_acmd41") \/ wait_for_amd41_card_ready
  \/ all_send_cid \/ send_relative_addr \/ send_csd \/ select_card \/ check_transfer_state
  \/ app_cmd("acmd6_cmd55", "acmd6") \/ set_bus_width

-----------------------------------------------------------------------------
(* Transfers.  The address of a block, and how it advances in a run.       *)
BlockAddr(b) == IF sd_info.card_type = "SdhcSdxc" THEN b ELSE b * BLOCK_LEN

(* Mutant: writing a run does not advance either.                          *)
increment_never(op) == IF op \in {"read", "write"} THEN 0 ELSE BLOCK_LEN

increment(op) ==
  CASE op = "read" -> 0
    [] op = "write" -> BlockAddr(1)
    [] OTHER -> BLOCK_LEN

(* There is a card to call, with what an earlier initialization found if   *)
(* the last one failed.                                                    *)
ready == sd_step = "initialized" \/ (sd_step = "failed" /\ sd_info.rca)

begin ==
  /\ ready
  /\ \E op \in Ops, start \in 0 .. CardBlocks - 1, n \in 1 .. MaxRun :
        /\ op = "read_single_block" => n = 1
        /\ start + n <= CardBlocks
        /\ call' = [op |-> op, start |-> start, n |-> n, done |-> 0, addr |-> BlockAddr(start)]
  /\ buffer' = <<>> /\ before' = block /\ result' = "none"
  /\ sd_step' = "verify"
  /\ UNCHANGED <<card, block, host, infos, cmd8_vars, errors, swallowed>>

reinitialize ==
  /\ ready
  /\ sd_step' = "initialize" /\ result' = "none" /\ call' = NoCall /\ buffer' = <<>>
  /\ before' = block
  /\ UNCHANGED <<card, block, host, infos, cmd8_vars, errors, swallowed>>

fail == sd_step' = "initialized" /\ result' = "error"

(* CMD13 answers with the state the card is in, once it is addressed.      *)
addressed == card.state \notin {"idle", "ready", "ident"}

read_status(to) ==
  /\ \E r \in sent(addressed, card) :
        /\ Send(r)
        /\ IF has_response_errors(r) THEN fail ELSE to
  /\ UNCHANGED <<block, host, infos, cmd8_vars, call, buffer, before, swallowed>>

verify_sd_card_transfer_state ==
  /\ sd_step = "verify"
  /\ read_status(IF card.state = "tran" THEN sd_step' = "command" /\ UNCHANGED result ELSE fail)

(* The card that is told a byte address reads the block there.             *)
OnCard(addr) == IF card.type = "SdhcSdxc" THEN addr ELSE addr \div BLOCK_LEN

write_command ==
  /\ sd_step = "command"
  /\ \E r \in sent(card.state = "tran",
                   IF OnCard(call.addr) \in DOMAIN block
                   THEN [card EXCEPT !.addr = OnCard(call.addr),
                                     !.state = IF Reading(call.op) THEN "data" ELSE "rcv"]
                   ELSE card) :
        /\ Send(r)
        /\ host' = [host EXCEPT !.status = {}, !.response = r.status, !.expects = FALSE]
  /\ sd_step' = "poll_command"
  /\ UNCHANGED <<block, infos, cmd8_vars, call_vars>>

(* Mutant: the wait is for the response alone.                             *)
answered_complete == "ok" \in host.status

answered == host.status \cap {"ok", "crc", "timeout"} # {}

(* The wait for the response clears all bits it saw.                       *)
poll_command ==
  /\ sd_step = "poll_command" /\ answered
  /\ host' = [host EXCEPT !.status = {}]
  /\ swallowed' = (swallowed \/ host.status \cap {"read_ready", "write_ready", "data_error"} # {})
  /\ IF host.status \cap {"crc", "timeout"} # {} THEN fail
     ELSE sd_step' = "transfer" /\ UNCHANGED result
  /\ UNCHANGED <<card, block, infos, cmd8_vars, call, buffer, before, errors>>

data_error ==
  /\ sd_step \in {"transfer", "completion"} /\ "data_error" \in host.status
  /\ host' = [host EXCEPT !.status = {}]
  /\ fail
  /\ UNCHANGED <<card, block, infos, cmd8_vars, call, buffer, before, errors, swallowed>>

read_data ==
  /\ sd_step = "transfer" /\ "read_ready" \in host.status /\ "data_error" \notin host.status
  /\ buffer' = Append(buffer, block[card.addr])
  /\ host' = [host EXCEPT !.status = {}]
  /\ card' = [card EXCEPT !.state = "sent"]
  /\ sd_step' = "completion"
  /\ UNCHANGED <<block, infos, cmd8_vars, call, before, result, errors, swallowed>>

write_data ==
  /\ sd_step = "transfer" /\ "write_ready" \in host.status /\ "data_error" \notin host.status
  /\ host' = [host EXCEPT !.status = {}]
  /\ card' = [card EXCEPT !.state = "taken"]
  /\ sd_step' = "completion"
  /\ UNCHANGED <<block, infos, cmd8_vars, call_vars, errors>>

next_block ==
  /\ call' = [call EXCEPT !.done = @ + 1, !.addr = @ + increment(call.op)]
  /\ IF call.done + 1 = call.n THEN sd_step' = "initialized" /\ result' = "ok"
     ELSE sd_step' = "verify" /\ UNCHANGED result

read_complete ==
  /\ sd_step = "completion" /\ Reading(call.op)
  /\ "complete" \in host.status /\ "data_error" \notin host.status
  /\ host' = [host EXCEPT !.status = {}]
  /\ next_block
  /\ UNCHANGED <<card, block, infos, cmd8_vars, buffer, before, errors, swallowed>>

write_complete ==
  /\ sd_step = "completion" /\ ~ Reading(call.op)
  /\ "complete" \in host.status /\ "data_error" \notin host.status
  /\ sd_step' = "programming"
  /\ UNCHANGED <<card, block, host, infos, cmd8_vars, call_vars, errors>>

(* After a write the driver asks for the state until the card is done.     *)
wait_programming ==
  /\ sd_step = "programming"
  /\ \E r \in sent(addressed, card) :
        /\ Send(r)
        /\ IF has_response_errors(r) THEN fail /\ UNCHANGED call
           ELSE IF card.state = "tran" THEN next_block
           ELSE UNCHANGED <<sd_step, result, call>>
  /\ UNCHANGED <<block, host, infos, cmd8_vars, buffer, before, swallowed>>

-----------------------------------------------------------------------------
(* The card and the controller.                                            *)
power_up ==
  /\ card.started /\ ~ card.up /\ card' = [card EXCEPT !.up = TRUE]
  /\ UNCHANGED <<block, host, sd_step, infos, cmd8_vars, call_vars, errors>>

respond ==
  /\ host.response # "none"
  /\ host' = [host EXCEPT !.status = @ \cup {host.response}, !.response = "none",
                          !.expects = (host.response = "ok")]
  /\ UNCHANGED <<card, block, sd_step, infos, cmd8_vars, call_vars, errors>>

(* Where the widths differ, or the block is lost, the data are in error;   *)
(* so they are, by a timeout, where the card sends none.                   *)
raise(bit, state) ==
  /\ host' = [host EXCEPT !.status = @ \cup {bit}, !.expects = FALSE]
  /\ card' = [card EXCEPT !.state = state]

data_ready ==
  /\ host.expects /\ card.state \in {"data", "rcv"}
  /\ \/ /\ host.width = card.width \/ card.state = "rcv"
        /\ raise(IF card.state = "data" THEN "read_ready" ELSE "write_ready", card.state)
        /\ UNCHANGED errors
     \/ /\ card.state = "data" /\ (host.width = card.width => errors < MaxErrors)
        /\ errors' = IF host.width = card.width THEN errors + 1 ELSE errors
        /\ raise("data_error", "tran")
  /\ UNCHANGED <<block, sd_step, infos, cmd8_vars, call_vars>>

data_timeout ==
  /\ host.expects /\ card.state \notin {"data", "rcv"}
  /\ raise("data_error", card.state)
  /\ UNCHANGED <<block, sd_step, infos, cmd8_vars, call_vars, errors>>

sent_on ==
  /\ card.state = "sent"
  /\ raise("complete", "tran")
  /\ UNCHANGED <<block, sd_step, infos, cmd8_vars, call_vars, errors>>

taken ==
  /\ card.state = "taken"
  /\ \/ /\ host.width = card.width
        /\ block' = [block EXCEPT ![card.addr] = data(call.done)]
        /\ raise("complete", "prg") /\ UNCHANGED errors
     \/ /\ host.width = card.width => errors < MaxErrors
        /\ errors' = IF host.width = card.width THEN errors + 1 ELSE errors
        /\ raise("data_error", "tran") /\ UNCHANGED block
  /\ UNCHANGED <<sd_step, infos, cmd8_vars, call_vars>>

programmed ==
  /\ card.state = "prg" /\ card' = [card EXCEPT !.state = "tran"]
  /\ UNCHANGED <<block, host, sd_step, infos, cmd8_vars, call_vars, errors>>

(* A block that the controller does not take runs past it.                 *)
unread ==
  /\ card.state = "data" /\ ~ host.expects /\ host.response = "none"
  /\ sd_step \notin {"poll_command", "transfer"}
  /\ card' = [card EXCEPT !.state = "tran"]
  /\ UNCHANGED <<block, host, sd_step, infos, cmd8_vars, call_vars, errors>>

Driver ==
  \/ initialize_card
  \/ verify_sd_card_transfer_state \/ write_command \/ poll_command \/ data_error
  \/ read_data \/ write_data \/ read_complete \/ write_complete \/ wait_programming
Client == begin \/ reinitialize
Card ==
  \/ power_up \/ respond \/ data_ready \/ data_timeout \/ sent_on \/ taken \/ programmed \/ unread

SdNext == Driver \/ Client \/ Card
SdSpec == SdInit /\ [][SdNext]_sdVars /\ WF_sdVars(Driver) /\ WF_sdVars(Card)

-----------------------------------------------------------------------------
(* The driver addresses blocks the way the card counts.                    *)
KnowsCard == (sd_info.card_type = "SdhcSdxc") = (card.type = "SdhcSdxc")

(* When the initialization succeeds, the card is selected and its address  *)
(* is known; the card and the controller use as many data lines, if the    *)
(* last command arrived; and the driver knows the card, unless so much was *)
(* lost that a card an earlier initialization had started, and this one    *)
(* never reset, passes for one that does not know CMD8.                    *)
InitializedRight ==
  [][sd_step = "acmd6" /\ sd_step' = "initialized" =>
       /\ card'.state = "tran" /\ sd_info'.rca
       /\ errors' = errors => host'.width = card'.width
       /\ errors' <= CMD8_RETRIES + 2 => KnowsCard']_sdVars

Run == call.start .. call.start + call.n - 1
Written == [b \in DOMAIN block |-> IF b \in Run THEN data(b - call.start) ELSE before[b]]
Read == [k \in 1 .. call.n |-> before[call.start + k - 1]]
Finished(r) == sd_step = "initialized" /\ call.op # "none" /\ result = r

Right ==
  /\ Finished("ok") => IF Reading(call.op) THEN buffer = Read /\ block = before
                                           ELSE block = Written
  /\ Finished("error") => \A b \in DOMAIN block : b \notin Run => block[b] = before[b]

(* If the driver knows the card, calls of one block, the writing of a run  *)
(* through BlockDevice, and runs on cards that count bytes, hold or wrote  *)
(* the blocks of the run, in order, if they succeed, whatever was lost     *)
(* before; and no other block is written, if they fail either.             *)
TransfersRight ==
  /\ KnowsCard
  /\ call.n = 1 \/ call.op = "write" \/ (call.op # "read" /\ card.type # "SdhcSdxc")
  => Right

(* read_multiple_blocks and write_multiple_blocks do so on every card.     *)
RunsConsecutive == call.op \in {"read_multiple_blocks", "write_multiple_blocks"} => Right

(* Every call and every initialization ends, if the card that is waited    *)
(* for was asked to start, and no data bit was cleared with the response.  *)
DriverEnds ==
  [](~ swallowed /\ (sd_step = "wait_acmd41" => card.started)) => []<>(ready \/ sd_step = "failed")
=============================================================================
