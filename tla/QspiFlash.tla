----------------------------- MODULE QspiFlash -----------------------------
(***************************************************************************)
(* The QSPI controller in I/O mode, the driver of the S25FL256S flash and  *)
(* the flasher that writes a boot image with them (qspi/mod.rs,            *)
(* qspi_spansion.rs, zedboard-qspi-flasher).  A transfer lasts from the    *)
(* construction of its guard, which lowers the chip select, to its drop;   *)
(* the controller shifts words meanwhile, and the flash is busy with what  *)
(* it was told after the chip select has risen.                            *)
(***************************************************************************)
EXTENDS Integers, Sequences, SequencesExt

CONSTANTS
  WORD,          \* bytes of a FIFO word
  FIFO_DEPTH,    \* words of the FIFOs
  PAGE_SIZE, SECTOR_SIZE, RECOMMENDED_PROGRAM_PAGE_SIZE,
  FlashSize,     \* bytes of the flash
  Sizes          \* sizes of the boot image that are tried

QspiFlashAssumption ==
  /\ {WORD, FIFO_DEPTH, PAGE_SIZE, SECTOR_SIZE, RECOMMENDED_PROGRAM_PAGE_SIZE, FlashSize}
       \subseteq Nat \ {0}
  /\ (FIFO_DEPTH - 1) * WORD > 1 /\ PAGE_SIZE % RECOMMENDED_PROGRAM_PAGE_SIZE = 0
  /\ SECTOR_SIZE % PAGE_SIZE = 0 /\ FlashSize % SECTOR_SIZE = 0
  /\ RECOMMENDED_PROGRAM_PAGE_SIZE % WORD = 0 /\ Sizes \subseteq 1 .. FlashSize

VARIABLES
  mem,           \* bytes of the flash
  flash,         \* its status: what it is busy with, write enable latch, error, protection
  tx, rx,        \* words in the FIFOs of the controller
  shifted,       \* words of the transfer that reached the flash
  step,          \* how far the flasher is
  current_addr,  \* of the flasher
  boot_bin_size, \* of the flasher
  read_index,    \* bytes program() takes for received
  write_required \* new() wrote the status and configuration registers

qspiVars == <<mem, flash, tx, rx, shifted, step, current_addr, boot_bin_size,
              read_index, write_required>>
wires == <<tx, rx, shifted>>

u24_MAX == FlashSize - 1
boot_bin(i) == i % 3       \* the bytes of the image
ERASED == 255
OLD == 254                 \* what the flash held before
MANGLED == 253             \* programmed over something else

Smaller(a, b) == IF a < b THEN a ELSE b
write_size == Smaller(RECOMMENDED_PROGRAM_PAGE_SIZE, boot_bin_size - current_addr)

QspiInit ==
  /\ mem = [i \in 0 .. FlashSize - 1 |-> OLD]
  /\ flash \in [busy : {"none"}, wel : {FALSE}, error : {FALSE}, protected : BOOLEAN]
  /\ tx = 0 /\ rx = 0 /\ shifted = 0
  /\ step = "new" /\ current_addr = 0 /\ boot_bin_size \in Sizes
  /\ read_index = 0 /\ write_required \in BOOLEAN
  /\ flash.protected => write_required

-----------------------------------------------------------------------------
(* Commands of one word wait for it to be received; the flash ignores all  *)
(* but the status commands while it is busy.                               *)
idle == flash.busy = "none"
clear_status(f) == [f EXCEPT !.error = FALSE, !.busy = IF f.error THEN "none" ELSE @]
write_disable(f) == [f EXCEPT !.wel = FALSE]

(* The constructor does not wait for the registers to be written.          *)
new ==
  /\ step = "new"
  /\ flash' = IF write_required THEN [flash EXCEPT !.busy = "registers"] ELSE flash
  /\ step' = "loop"
  /\ UNCHANGED <<mem, wires, current_addr, boot_bin_size, read_index, write_required>>

write_enable(from, to) ==
  /\ step = from
  /\ flash' = IF idle THEN [flash EXCEPT !.wel = TRUE] ELSE flash
  /\ step' = to
  /\ UNCHANGED <<mem, wires, current_addr, boot_bin_size, read_index, write_required>>

(* The main loop of the flasher.                                           *)
flash_next ==
  /\ step = "loop"
  /\ step' = CASE current_addr >= boot_bin_size -> "done"
               [] current_addr < boot_bin_size /\ current_addr % SECTOR_SIZE = 0 -> "erase"
               [] OTHER -> "program"
  /\ UNCHANGED <<mem, flash, wires, current_addr, boot_bin_size, read_index, write_required>>

check_erase ==
  /\ step = "erase"
  /\ step' = IF current_addr + SECTOR_SIZE > u24_MAX THEN "panic" ELSE "erase_enable"
  /\ UNCHANGED <<mem, flash, wires, current_addr, boot_bin_size, read_index, write_required>>

Begin(what) ==
  flash' = CASE ~ idle \/ ~ flash.wel -> flash
             [] idle /\ flash.wel /\ flash.protected -> [flash EXCEPT !.busy = what, !.error = TRUE]
             [] OTHER -> [flash EXCEPT !.busy = what]

sector_erase ==
  /\ step = "erase_command"
  /\ Begin("erase")
  /\ step' = "erase_poll"
  /\ UNCHANGED <<mem, wires, current_addr, boot_bin_size, read_index, write_required>>

poll(from, to) ==
  /\ step = from
  /\ flash.error \/ idle
  /\ IF flash.error
     THEN step' = "panic" /\ flash' = write_disable(clear_status(flash))
     ELSE step' = to /\ UNCHANGED flash
  /\ UNCHANGED <<mem, wires, current_addr, boot_bin_size, read_index, write_required>>

check_program ==
  /\ step = "program"
  /\ step' = IF \/ current_addr + write_size > u24_MAX
                \/ write_size % WORD # 0
                \/ (current_addr % PAGE_SIZE) + write_size > PAGE_SIZE
             THEN "panic" ELSE "program_enable"
  /\ UNCHANGED <<mem, flash, wires, current_addr, boot_bin_size, read_index, write_required>>

(* The command with its address is a word, the data follow.                *)
program_start ==
  /\ step = "program_start"
  /\ tx' = 1 + Smaller(write_size \div WORD, FIFO_DEPTH - 1)
  /\ rx' = 0 /\ shifted' = 0
  /\ read_index' = 0
  /\ step' = "program_receive"
  /\ UNCHANGED <<mem, flash, current_addr, boot_bin_size, write_required>>

shift_word ==
  /\ tx > 0 /\ rx < FIFO_DEPTH
  /\ tx' = tx - 1 /\ rx' = rx + 1 /\ shifted' = shifted + 1
  /\ UNCHANGED <<mem, flash, step, current_addr, boot_bin_size, read_index, write_required>>

program_receive ==
  /\ step = "program_receive" /\ read_index < write_size /\ rx > 0
  /\ rx' = rx - 1
  /\ read_index' = read_index + WORD
  /\ UNCHANGED <<mem, flash, tx, shifted, step, current_addr, boot_bin_size, write_required>>

data_received == read_index >= write_size

(* The drop of the guard raises the chip select: the flash programs what   *)
(* has reached it.                                                         *)
program_drop ==
  /\ step = "program_receive" /\ data_received
  /\ Begin("program")
  /\ tx' = 0
  /\ step' = "program_poll"
  /\ UNCHANGED <<mem, rx, shifted, current_addr, boot_bin_size, read_index, write_required>>

-----------------------------------------------------------------------------
(* generic_read: chunks of what fits in the FIFO besides the command; the  *)
(* reply of the command is skipped, and the first byte of the first data   *)
(* word where a dummy byte was asked for.  Of a word that holds it, three  *)
(* bytes of four are taken at most.                                        *)
reply(addr, w, dummy) ==
  [b \in 1 .. WORD |-> LET k == WORD * (w - 1) + b - 1 - dummy
                       IN IF k < 0 \/ ~ idle \/ addr + k >= FlashSize THEN 0 ELSE mem[addr + k]]

taken(bytes, size, dummy) ==
  IF dummy = 1 THEN SubSeq(bytes, 2, Smaller(size + 1, WORD)) ELSE SubSeq(bytes, 1, size)

read_chunk(addr, size, dummy) ==
  LET words[w \in Nat] ==
        IF w = 0 THEN <<>>
        ELSE LET buf == words[w - 1]
             IN buf \o taken(reply(addr, w, dummy), Smaller(size - Len(buf), WORD),
                             IF w = 1 THEN dummy ELSE 0)
  IN words[(size + dummy + WORD - 1) \div WORD]

max_chunk_size(dummy) == (FIFO_DEPTH - 1) * WORD - dummy

generic_read(addr, len, dummy) ==
  LET rest[offset \in 0 .. len] ==
        LET chunk_size == Smaller(max_chunk_size(dummy), len - offset)
        IN IF offset = len THEN <<>>
           ELSE read_chunk(addr + offset, chunk_size, dummy) \o rest[offset + chunk_size]
  IN rest[0]

write_slice == [i \in 1 .. write_size |-> boot_bin(current_addr + i - 1)]

(* Mutant: what was programmed is not read back.                           *)
verify_skipped ==
  /\ step = "verify"
  /\ current_addr' = current_addr + write_size
  /\ step' = "loop"
  /\ UNCHANGED <<mem, flash, wires, boot_bin_size, read_index, write_required>>

verify ==
  /\ step = "verify"
  /\ IF generic_read(current_addr, write_size, 1) = write_slice
     THEN step' = "loop" /\ current_addr' = current_addr + write_size
     ELSE step' = "panic" /\ UNCHANGED current_addr
  /\ UNCHANGED <<mem, flash, wires, boot_bin_size, read_index, write_required>>

-----------------------------------------------------------------------------
(* The flash does what it is busy with, or fails at it.  Bits can only be  *)
(* programmed from one to zero.                                            *)
program_byte(old, v) == IF old \in {ERASED, v} THEN v ELSE MANGLED

programmed == current_addr .. current_addr + (shifted - 1) * WORD - 1
sector == current_addr .. current_addr + SECTOR_SIZE - 1

flash_done ==
  /\ ~ idle /\ ~ flash.error
  /\ mem' = [i \in DOMAIN mem |->
               CASE flash.busy = "erase" /\ i \in sector -> ERASED
                 [] flash.busy = "program" /\ i \in programmed -> program_byte(mem[i], boot_bin(i))
                 [] OTHER -> mem[i]]
  /\ flash' = [flash EXCEPT !.busy = "none", !.wel = FALSE,
                            !.protected = @ /\ flash.busy # "registers"]
  /\ UNCHANGED <<wires, step, current_addr, boot_bin_size, read_index, write_required>>

flash_fails ==
  /\ flash.busy \in {"erase", "program"} /\ ~ flash.error
  /\ flash' = [flash EXCEPT !.error = TRUE]
  /\ UNCHANGED <<mem, wires, step, current_addr, boot_bin_size, read_index, write_required>>

erase_sector ==
  \/ check_erase \/ write_enable("erase_enable", "erase_command") \/ sector_erase
  \/ poll("erase_poll", "program")
program ==
  \/ check_program \/ write_enable("program_enable", "program_start") \/ program_start
  \/ program_receive \/ program_drop \/ poll("program_poll", "verify")
Flasher == new \/ flash_next \/ erase_sector \/ program \/ verify
Device == shift_word \/ flash_done \/ flash_fails

QspiNext == Flasher \/ Device
QspiSpec == QspiInit /\ [][QspiNext]_qspiVars /\ WF_qspiVars(Flasher) /\ WF_qspiVars(Device)

-----------------------------------------------------------------------------
(* Once the flasher reports that it is done, the flash holds the image.    *)
FlashedWhole == step = "done" => \A i \in 0 .. boot_bin_size - 1 : mem[i] = boot_bin(i)

(* What was cut off a program command by its early end.                    *)
WordCut == step \in {"program_poll", "verify"} /\ shifted < 1 + write_size \div WORD

(* The read-back shows what the flash holds, so that an image of whole     *)
(* words that does not reach the last sector is flashed, unless the flash  *)
(* fails, a word was cut off, or it was still writing its registers.       *)
Fits == boot_bin_size % WORD = 0 /\ boot_bin_size <= FlashSize - SECTOR_SIZE
FlasherSucceeds ==
  Fits /\ ~ write_required /\ [](~ flash.error /\ ~ WordCut) => <>(step = "done")
=============================================================================
