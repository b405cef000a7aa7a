-------------------------------- MODULE Boot --------------------------------
(***************************************************************************)
(* The first-stage boot loader of the Zedboard, from the moment DDR and    *)
(* caches are set up (zedboard-fsbl): it copies the metadata of the boot   *)
(* image from the flash to a staging area in DDR, parses them there while  *)
(* it loads the partitions to DDR and to the PL, and jumps to the          *)
(* application.  Addresses of DDR are in bytes from ELF_BASE_ADDR.         *)
(***************************************************************************)
EXTENDS BootImage

CONSTANTS
  ELF_BASE_ADDR, BOOT_BIN_STAGING_OFFSET,
  DDR_WORDS,   \* words of DDR
  BootImages   \* images that are tried, as sequences of [name, partitions]

BootAssumption ==
  /\ ELF_BASE_ADDR \in Nat /\ BOOT_BIN_STAGING_OFFSET \in Nat /\ DDR_WORDS \in Nat
  /\ BOOT_BIN_STAGING_OFFSET % 4 = 0 /\ ELF_BASE_ADDR % 4 = 0
  /\ \A images \in BootImages :
        /\ Layable(images)
        /\ 4 * DataAt(images)[1] + BOOT_BIN_STAGING_OFFSET <= 4 * DDR_WORDS
        /\ \A p \in DOMAIN Partitions(images) :
              LET q == Partitions(images)[p]
              IN p > Len(images[1].partitions) /\ q.dest = 1 =>
                   (q.load - ELF_BASE_ADDR) \div 4 + q.words <= DDR_WORDS

VARIABLES
  images,     \* what is in the flash
  qspi_flash, \* its words
  registers,  \* the flash still writes its registers, and does not answer
  ddr,        \* words of DDR as the processor sees them
  unclean,      \* caches, "L1" and "L2", that hold what is not in DDR yet
  boot_step,  \* how far the loader is
  guard,      \* the controller is enabled for linear reads
  header_len, \* bytes of boot_header_slice
  header, next_header, index,   \* this image's header, the iterator, and its index
  partition, partition_index,   \* of the iterator over partitions
  count,                        \* partition_count of this image
  jump_addr,  \* opt_jump_addr
  pl          \* configuration of the PL, its reset, and the partition it holds

bootVars == <<images, qspi_flash, registers, ddr, unclean, boot_step, guard, header_len, header,
              next_header, index, partition, partition_index, count, jump_addr, pl>>
images_vars == <<header, next_header, index>>
partition_vars == <<partition, partition_index, count>>
flash_vars == <<images, qspi_flash>>

STAGING == BOOT_BIN_STAGING_OFFSET \div 4
boot_header_slice == SubSeq(ddr, STAGING + 1, STAGING + header_len \div 4)
GARBAGE == 1

BootInit ==
  /\ images \in BootImages /\ qspi_flash = Layout(images) /\ registers \in BOOLEAN
  /\ ddr = [i \in 1 .. DDR_WORDS |-> 0] /\ unclean = {}
  /\ boot_step = "header" /\ guard = FALSE /\ header_len = FIXED_BOOT_HEADER_SIZE
  /\ header = 0 /\ next_header = 0 /\ index = 0
  /\ partition = 0 /\ partition_index = 0 /\ count = 0
  /\ jump_addr = None /\ pl = [dma |-> "idle", reset |-> TRUE, holds |-> 0]

-----------------------------------------------------------------------------
(* A read of the mapped flash: nothing without the guard.                  *)
qspi_read(from, n) ==
  [i \in 1 .. n |-> IF registers \/ ~ guard \/ from \div 4 + i \notin DOMAIN qspi_flash
                     THEN GARBAGE ELSE qspi_flash[from \div 4 + i]]

(* What the processor stores may stay in the caches.                       *)
copy(words, to) ==
  /\ ddr' = [i \in DOMAIN ddr |-> IF i - to \div 4 \in DOMAIN words
                                  THEN words[i - to \div 4] ELSE ddr[i]]
  /\ unclean' = unclean \cup {"L1"}

read_guard(from, to) ==
  /\ boot_step = from
  /\ guard' = TRUE /\ boot_step' = to
  /\ UNCHANGED <<flash_vars, registers, ddr, unclean, header_len, images_vars, partition_vars,
                 jump_addr, pl>>

read_header ==
  /\ boot_step = "copy_header"
  /\ copy(qspi_read(0, FIXED_BOOT_HEADER_SIZE \div 4), BOOT_BIN_STAGING_OFFSET)
  /\ guard' = FALSE /\ boot_step' = "check_header"
  /\ UNCHANGED <<flash_vars, registers, header_len, images_vars, partition_vars, jump_addr, pl>>

check_header ==
  /\ boot_step = "check_header"
  /\ IF BootHeader_valid(boot_header_slice) /\ source_offset(boot_header_slice) >= FIXED_BOOT_HEADER_SIZE
     THEN boot_step' = "metadata" /\ header_len' = source_offset(boot_header_slice)
     ELSE boot_step' = "panic" /\ UNCHANGED header_len
  /\ UNCHANGED <<flash_vars, registers, ddr, unclean, guard, images_vars, partition_vars,
                 jump_addr, pl>>

read_metadata ==
  /\ boot_step = "copy_metadata"
  /\ copy(qspi_read(FIXED_BOOT_HEADER_SIZE, (header_len - FIXED_BOOT_HEADER_SIZE) \div 4),
          BOOT_BIN_STAGING_OFFSET + FIXED_BOOT_HEADER_SIZE)
  /\ guard' = FALSE /\ boot_step' = "images"
  /\ UNCHANGED <<flash_vars, registers, header_len, images_vars, partition_vars, jump_addr, pl>>

iterate_images ==
  /\ boot_step = "images"
  /\ next_header' = image_header_iterator(boot_header_slice)
  /\ boot_step' = IF next_header' = None THEN "panic" ELSE "next_image"
  /\ UNCHANGED <<flash_vars, registers, ddr, unclean, guard, header_len, header, index,
                 partition_vars, jump_addr, pl>>

(* ImageHeaderIterator::next and the name; the first image is skipped.  An *)
(* image whose successor is out of range is dropped with it.               *)
next_image ==
  LET data == boot_header_slice
      this == IF next_header = 0 THEN None ELSE ImageHeader_new(data, next_header)
      next == IF this \in {None, Panic} THEN None ELSE next_image_header_offset(data, this)
  IN /\ boot_step = "next_image"
     /\ \/ /\ next = None
           /\ boot_step' = IF this = Panic THEN "panic" ELSE "deassert_reset"
           /\ UNCHANGED images_vars
        \/ /\ next # None
           /\ header' = this /\ next_header' = next /\ index' = index + 1
           /\ boot_step' = IF ~ image_name(data, this) THEN "panic"
                           ELSE IF index = 0 THEN "next_image" ELSE "image"
     /\ UNCHANGED <<flash_vars, registers, ddr, unclean, guard, header_len, partition_vars,
                    jump_addr, pl>>

iterate_partitions ==
  /\ boot_step = "partitions"
  /\ partition' = first_partition_header_offset(boot_header_slice, header)
  /\ partition_index' = 0 /\ count' = partition_count(boot_header_slice, header)
  /\ boot_step' = IF partition' = None THEN "panic" ELSE "next_partition"
  /\ UNCHANGED <<flash_vars, registers, ddr, unclean, guard, header_len, images_vars, jump_addr, pl>>

(* PartitionHeaderIterator::next, and what the device of the partition     *)
(* says: of another device it is skipped.  The header stays in the staging *)
(* area while the partition is loaded.                                     *)
next_partition ==
  /\ boot_step = "next_partition"
  /\ \/ /\ ~ has_partition(boot_header_slice, partition, partition_index, count)
        /\ guard' = FALSE /\ boot_step' = "next_image"
        /\ UNCHANGED <<partition, partition_index>>
     \/ /\ has_partition(boot_header_slice, partition, partition_index, count)
        /\ partition' = partition + PartitionHeader_SIZE
        /\ partition_index' = partition_index + 1
        /\ boot_step' = CASE destination_device(boot_header_slice, partition) = 1 -> "ps"
                          [] destination_device(boot_header_slice, partition) = 2 -> "pl"
                          [] OTHER -> "next_partition"
        /\ UNCHANGED guard
  /\ UNCHANGED <<flash_vars, registers, ddr, unclean, header_len, images_vars, count, jump_addr, pl>>

current == partition - PartitionHeader_SIZE
offset == data_offset(boot_header_slice, current)
length == total_partition_length(boot_header_slice, current)
load_addr == destination_load_address(boot_header_slice, current)

(* Mutant: the last application that was loaded is started.                *)
new_jump_addr_last(addr) == addr

new_jump_addr(addr) == IF jump_addr = None \/ addr < jump_addr THEN addr ELSE jump_addr

load_ps ==
  /\ boot_step = "ps"
  /\ IF offset = None \/ length = None \/ load_addr < ELF_BASE_ADDR
     THEN boot_step' = "panic" /\ UNCHANGED <<ddr, unclean, jump_addr>>
     ELSE /\ copy(qspi_read(offset, length \div 4), load_addr - ELF_BASE_ADDR)
          /\ jump_addr' = new_jump_addr(load_addr)
          /\ boot_step' = "next_partition"
  /\ UNCHANGED <<flash_vars, registers, guard, header_len, images_vars, partition_vars, pl>>

(* configure_bitstream_non_secure: the DMA reads the mapped flash itself.  *)
(* No error of it is looked at: the loader waits for its end.              *)
start_dma ==
  /\ boot_step = "pl"
  /\ IF offset = None \/ length = None \/ offset % 64 # 0
     THEN boot_step' = "panic" /\ UNCHANGED pl
     ELSE IF length = 0 THEN boot_step' = "next_partition" /\ UNCHANGED pl
     ELSE /\ boot_step' = "pl_wait"
          /\ \E outcome \in {"runs", "failed"} : pl' = [pl EXCEPT !.dma = outcome]
  /\ UNCHANGED <<flash_vars, registers, ddr, unclean, guard, header_len, images_vars,
                 partition_vars, jump_addr>>

dma_done ==
  /\ pl.dma = "runs"
  /\ pl' = [pl EXCEPT !.dma = "done",
                      !.holds = IF guard /\ ~ registers THEN offset ELSE GARBAGE]
  /\ UNCHANGED <<flash_vars, registers, ddr, unclean, boot_step, guard, header_len, images_vars,
                 partition_vars, jump_addr>>

end_pl ==
  /\ boot_step = "pl_wait" /\ pl.dma = "done"
  /\ pl' = [pl EXCEPT !.dma = "idle"] /\ boot_step' = "next_partition"
  /\ UNCHANGED <<flash_vars, registers, ddr, unclean, guard, header_len, images_vars,
                 partition_vars, jump_addr>>

deassert_reset ==
  /\ boot_step = "deassert_reset"
  /\ pl' = [pl EXCEPT !.reset = FALSE]
  /\ boot_step' = IF jump_addr = None THEN "panic" ELSE "clean_l1"
  /\ UNCHANGED <<flash_vars, registers, ddr, unclean, guard, header_len, images_vars,
                 partition_vars, jump_addr>>

(* clean_and_invalidate_data_cache, then the L2 cache is switched off with *)
(* what it holds.                                                          *)
clean_l1 ==
  /\ boot_step = "clean_l1"
  /\ unclean' = IF "L1" \in unclean THEN (unclean \ {"L1"}) \cup {"L2"} ELSE unclean
  /\ boot_step' = "clean_l2"
  /\ UNCHANGED <<flash_vars, registers, ddr, guard, header_len, images_vars, partition_vars,
                 jump_addr, pl>>

clean_l2 ==
  /\ boot_step = "clean_l2"
  /\ unclean' = unclean \ {"L2"} /\ boot_step' = "jump"
  /\ UNCHANGED <<flash_vars, registers, ddr, guard, header_len, images_vars, partition_vars,
                 jump_addr, pl>>

(* The caches evict lines when they like; the flash ends what it does.     *)
evict ==
  /\ "L1" \in unclean /\ unclean' = unclean \cup {"L2"}
  /\ UNCHANGED <<flash_vars, registers, ddr, boot_step, guard, header_len, images_vars,
                 partition_vars, jump_addr, pl>>

registers_written ==
  /\ registers /\ registers' = FALSE
  /\ UNCHANGED <<flash_vars, ddr, unclean, boot_step, guard, header_len, images_vars,
                 partition_vars, jump_addr, pl>>

qspi_boot ==
  \/ read_guard("header", "copy_header") \/ read_header \/ check_header
  \/ read_guard("metadata", "copy_metadata") \/ read_metadata \/ iterate_images
  \/ next_image \/ read_guard("image", "partitions") \/ iterate_partitions
  \/ next_partition \/ load_ps \/ start_dma \/ end_pl
  \/ deassert_reset \/ clean_l1 \/ clean_l2

BootNext == qspi_boot \/ dma_done \/ evict \/ registers_written
BootSpec == BootInit /\ [][BootNext]_bootVars /\ WF_bootVars(qspi_boot) /\ WF_bootVars(dma_done)

-----------------------------------------------------------------------------
(* The partitions that are loaded: those of all images but the first.      *)
Skipped == Len(images[1].partitions)
Loaded(dest) == {p \in DOMAIN Partitions(images) :
                   /\ p > Skipped /\ Partitions(images)[p].dest = dest
                   /\ dest = 2 => Partitions(images)[p].words > 0}

Extent(p) == LET q == Partitions(images)[p]
             IN (q.load - ELF_BASE_ADDR) \div 4 + 1 .. (q.load - ELF_BASE_ADDR) \div 4 + q.words

(* Images the loader can load: they hold an application, whose partitions  *)
(* do not overlap, and none but the last of the image reaches into the     *)
(* metadata, which are read up to there.                                   *)
metadata_words == STAGING + 1 .. STAGING + DataAt(images)[1]
Loadable ==
  /\ Loaded(1) # {}
  /\ \A p \in Loaded(1) : p < Len(Partitions(images)) => Extent(p) \cap metadata_words = {}
  /\ \A p, q \in Loaded(1) : p # q => Extent(p) \cap Extent(q) = {}

(* Before the jump to such an application every word of its partitions is  *)
(* in DDR at its load address and no longer only in a cache, the jump goes *)
(* to the lowest of them, and the PL holds the last bitstream, out of      *)
(* reset, while the flash is no longer enabled.                            *)
JumpsToWhole ==
  boot_step = "jump" /\ Loadable =>
    /\ unclean = {}
    /\ \A p \in Loaded(1) : \A i \in Extent(p) :
          ddr[i] = Content(p, i - (Partitions(images)[p].load - ELF_BASE_ADDR) \div 4)
    /\ jump_addr \in {Partitions(images)[p].load : p \in Loaded(1)}
    /\ \A p \in Loaded(1) : jump_addr <= Partitions(images)[p].load
    /\ \A p \in Loaded(2) : (\A q \in Loaded(2) : q <= p) =>
          pl.holds = 4 * DataAt(images)[p]
    /\ ~ pl.reset /\ ~ guard

(* Such an application is started, unless a DMA fails or the flash had its *)
(* registers to write.                                                     *)
Bootable == ~ registers /\ Loadable
BootEnds ==
  Bootable /\ [](pl.dma # "failed") => <>(boot_step = "jump")
=============================================================================
