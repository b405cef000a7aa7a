----------------------------- MODULE MemoryMap ------------------------------
(* The first-level table of the MMU: as the generator on the host writes   *)
(* it, region by region; as it is checked in, row by row; and a change of  *)
(* a section while the program runs.                                       *)
(* (host/mmu-table-gen/src/main.rs, firmware/zynq7000-rt/src/mmu.rs and    *)
(* mmu_table.rs, firmware/zynq7000-mmu/src/lib.rs)                         *)
EXTENDS Integers, Sequences

CONSTANT Accessed   \* sections the program accesses and changes

VARIABLES
  generated,  \* what the generator has written, <<>> before
  region,     \* the region it writes next
  table,      \* MMU_L1_PAGE_TABLE
  tlb,        \* attributes the processor remembers of accessed sections
  mmu_step,   \* how far the generator, or update, is
  dirty_in,   \* accessed sections with data that is only in the L1 cache
  set_to      \* attributes each section was last given

mmuVars == <<generated, region, table, tlb, mmu_step, dirty_in, set_to>>

-----------------------------------------------------------------------------
(* Addresses count half megabytes, so that some are not aligned.           *)
ONE_MB == 2
NUM_L1_PAGE_TABLE_ENTRIES == 4096
MemoryMapAssumption == Accessed \subseteq 0 .. NUM_L1_PAGE_TABLE_ENTRIES - 1

Mb(n) == n * ONE_MB
MAX_DDR_SIZE == Mb(1024)
OFFSET_FPGA_SLAVE_0 == Mb(1024)
OFFSET_FPGA_SLAVE_1_START == Mb(2048)
OFFSET_FPGA_SLAVE_1_END == Mb(3072)
OFFSET_IO_PERIPHERALS_START == Mb(3584)
OFFSET_IO_PERIPHERALS_END == Mb(3587)
OFFSET_NAND_MEMORY == Mb(3600)
OFFSET_NOR_MEMORY == Mb(3616)
OFFSET_SRAM_MEMORY == Mb(3648)
OFFSET_SMC_MEMORIES_END == Mb(3680)
OFFSET_AMBA_APB_START == Mb(3968)
OFFSET_AMBA_APB_END == Mb(3984)
OFFSET_QSPI_XIP_START == Mb(4032)
OFFSET_QSPI_XIP_END == Mb(4064)
OFFSET_OCM_MAPPED_HIGH_START == Mb(4095)
OFFSET_OCM_MAPPED_HIGH_END == Mb(4096)

(* mmu::segments: the sections of a region between two offsets, and the    *)
(* regions in the order in which the generator writes them.                *)
segment(start, end) == (end - start) \div ONE_MB
Regions ==
  << <<1, "DDR">>, <<segment(ONE_MB, MAX_DDR_SIZE), "DDR">>,
     <<segment(OFFSET_FPGA_SLAVE_0, OFFSET_FPGA_SLAVE_1_START), "FPGA_SLAVES">>,
     <<segment(OFFSET_FPGA_SLAVE_0, OFFSET_FPGA_SLAVE_1_START), "FPGA_SLAVES">>,
     <<segment(OFFSET_FPGA_SLAVE_1_END, OFFSET_IO_PERIPHERALS_START), "UNASSIGNED_RESERVED">>,
     <<segment(OFFSET_IO_PERIPHERALS_START, OFFSET_IO_PERIPHERALS_END), "SHAREABLE_DEVICE">>,
     <<segment(OFFSET_IO_PERIPHERALS_END, OFFSET_NAND_MEMORY), "UNASSIGNED_RESERVED">>,
     <<segment(OFFSET_NAND_MEMORY, OFFSET_NOR_MEMORY), "SHAREABLE_DEVICE">>,
     <<segment(OFFSET_NOR_MEMORY, OFFSET_SRAM_MEMORY), "SHAREABLE_DEVICE">>,
     <<segment(OFFSET_SRAM_MEMORY, OFFSET_SMC_MEMORIES_END), "SRAM">>,
     <<segment(OFFSET_SMC_MEMORIES_END, OFFSET_AMBA_APB_START), "UNASSIGNED_RESERVED">>,
     <<segment(OFFSET_AMBA_APB_START, OFFSET_AMBA_APB_END), "SHAREABLE_DEVICE">>,
     <<segment(OFFSET_AMBA_APB_END, OFFSET_QSPI_XIP_START), "UNASSIGNED_RESERVED">>,
     <<segment(OFFSET_QSPI_XIP_START, OFFSET_QSPI_XIP_END), "QSPI_XIP">>,
     <<segment(OFFSET_QSPI_XIP_END, OFFSET_OCM_MAPPED_HIGH_START), "UNASSIGNED_RESERVED">>,
     <<segment(OFFSET_OCM_MAPPED_HIGH_START, OFFSET_OCM_MAPPED_HIGH_END), "OCM_MAPPED_HIGH">> >>

(* section_attrs: the memory attributes, and whether access is granted.    *)
Attrs == {"DDR", "FPGA_SLAVES", "SHAREABLE_DEVICE", "SRAM", "QSPI_XIP", "OCM_MAPPED_HIGH",
          "UNASSIGNED_RESERVED"}
memory_attrs(a) ==
  CASE a \in {"DDR", "SRAM"} -> "write_back"
    [] a \in {"FPGA_SLAVES", "UNASSIGNED_RESERVED"} -> "strongly_ordered"
    [] a = "SHAREABLE_DEVICE" -> "device"
    [] OTHER -> "write_through"
access(a) == IF a = "UNASSIGNED_RESERVED" THEN "permission_fault" ELSE "full"

-----------------------------------------------------------------------------
(* The rows of the table that is checked in: n of them from an address on. *)
Rows(first, n, a) == [i \in 1 .. n |-> [addr |-> Mb(first + i - 1), attrs |-> a]]
first_rows == Rows(0, 1, "DDR")
ddr_rows == Rows(1, 1023, "DDR")
fpga_slave_0_rows == Rows(1024, 1024, "FPGA_SLAVES")
fpga_slave_1_rows == Rows(2048, 1024, "FPGA_SLAVES")
unassigned_0_rows == Rows(3072, 512, "UNASSIGNED_RESERVED")
io_peripheral_rows == Rows(3584, 3, "SHAREABLE_DEVICE")
unassigned_1_rows == Rows(3587, 13, "UNASSIGNED_RESERVED")
nand_rows == Rows(3600, 16, "SHAREABLE_DEVICE")
nor_rows == Rows(3616, 32, "SHAREABLE_DEVICE")
sram_rows == Rows(3648, 32, "SRAM")
unassigned_2_rows == Rows(3680, 288, "UNASSIGNED_RESERVED")
amba_apb_rows == Rows(3968, 16, "SHAREABLE_DEVICE")
unassigned_3_rows == Rows(3984, 48, "UNASSIGNED_RESERVED")
qspi_xip_rows == Rows(4032, 32, "QSPI_XIP")
unassigned_4_rows == Rows(4064, 31, "UNASSIGNED_RESERVED")
ocm_rows == Rows(4095, 1, "OCM_MAPPED_HIGH")
MMU_L1_PAGE_TABLE ==
  first_rows \o ddr_rows \o fpga_slave_0_rows \o fpga_slave_1_rows \o unassigned_0_rows
    \o io_peripheral_rows \o unassigned_1_rows \o nand_rows \o nor_rows \o sram_rows
    \o unassigned_2_rows \o amba_apb_rows \o unassigned_3_rows \o qspi_xip_rows
    \o unassigned_4_rows \o ocm_rows

-----------------------------------------------------------------------------
MmuInit ==
  /\ generated = <<>> /\ region = 1 /\ table = <<>> /\ mmu_step = "generate"
  /\ tlb = [s \in Accessed |-> "none"] /\ dirty_in = {} /\ set_to = [s \in Accessed |-> "none"]

(* One region: the offset advances by a megabyte with each row.            *)
write_region ==
  /\ mmu_step = "generate" /\ region <= Len(Regions)
  /\ generated' = generated \o Rows(Len(generated), Regions[region][1], Regions[region][2])
  /\ region' = region + 1
  /\ UNCHANGED <<table, tlb, mmu_step, dirty_in, set_to>>

(* load_mmu_table, in a program that is built with the table checked in.   *)
load_mmu_table ==
  /\ mmu_step = "generate" /\ region > Len(Regions)
  /\ mmu_step' = "running" /\ table' = MMU_L1_PAGE_TABLE
  /\ set_to' = [s \in Accessed |-> MMU_L1_PAGE_TABLE[s + 1].attrs]
  /\ UNCHANGED <<generated, region, tlb, dirty_in>>

(* The program accesses a section with the attributes the processor        *)
(* remembers, or those of the table.                                       *)
attributes(s) == IF tlb[s] = "none" THEN table[s + 1].attrs ELSE tlb[s]
access_section ==
  /\ mmu_step = "running"
  /\ \E s \in Accessed :
       /\ tlb' = [tlb EXCEPT ![s] = attributes(s)]
       /\ dirty_in' = dirty_in \cup (IF memory_attrs(attributes(s)) = "write_back" THEN {s} ELSE {})
  /\ UNCHANGED <<generated, region, table, mmu_step, set_to>>

(* L1TableRaw::update: an address that is not aligned is refused; else the *)
(* entry changes, the L1 cache is written back, the TLB forgets all.       *)
update ==
  /\ mmu_step = "running"
  /\ \E addr \in {Mb(s) : s \in Accessed} \cup {Mb(s) + 1 : s \in Accessed}, a \in Attrs :
       /\ addr % ONE_MB = 0
       /\ table' = [table EXCEPT ![addr \div ONE_MB + 1].attrs = a]
       /\ set_to' = [set_to EXCEPT ![addr \div ONE_MB] = a]
  /\ mmu_step' = "clean"
  /\ UNCHANGED <<generated, region, tlb, dirty_in>>

clean_and_invalidate_l1 ==
  /\ mmu_step = "clean"
  /\ mmu_step' = "forget" /\ dirty_in' = {}
  /\ UNCHANGED <<generated, region, table, tlb, set_to>>

TlbIAll_dropped == tlb
TlbIAll == [s \in Accessed |-> "none"]
invalidate_tlb ==
  /\ mmu_step = "forget"
  /\ mmu_step' = "running" /\ tlb' = TlbIAll
  /\ UNCHANGED <<generated, region, table, dirty_in, set_to>>

MmuNext == write_region \/ load_mmu_table \/ access_section \/ update
             \/ clean_and_invalidate_l1 \/ invalidate_tlb
MmuSpec == MmuInit /\ [][MmuNext]_mmuVars

-----------------------------------------------------------------------------
(* The memory map as the crate documents it, by megabyte (zynq7000-rt,     *)
(* mmu.rs:3-17).                                                           *)
within(n, first, last) == first <= n /\ n <= last
ocm_entry == NUM_L1_PAGE_TABLE_ENTRIES - 1
documented(n) ==
  CASE within(n, 0, 1023) \/ within(n, 3648, 3679) \/ n = ocm_entry -> "write_back"
    [] within(n, 1024, 3071) -> "strongly_ordered"
    [] within(n, 3584, 3586) \/ within(n, 3600, 3647) \/ within(n, 3968, 3983) -> "device"
    [] within(n, 4032, 4063) -> "write_through"
    [] OTHER -> "unassigned"
kind_of(a) == IF access(a) = "permission_fault" THEN "unassigned" ELSE memory_attrs(a)

(* The table that is checked in is the one the generator writes; each      *)
(* entry maps its own megabyte, with the kind of memory that is            *)
(* documented, but for the megabyte of the OCM, which is documented as     *)
(* write-back (mmu.rs:17) and is write-through in the table; and after a change no access has other attributes than   *)
(* the last ones asked for, and no data of a section that is not cached    *)
(* waits in the L1 cache.                                                  *)
SectionsRight ==
  mmu_step = "running" =>
    /\ generated = MMU_L1_PAGE_TABLE /\ Len(generated) = NUM_L1_PAGE_TABLE_ENTRIES
    /\ \A i \in 1 .. NUM_L1_PAGE_TABLE_ENTRIES :
         /\ table[i].addr = Mb(i - 1)
         /\ i - 1 \notin Accessed \cup {ocm_entry} =>
              kind_of(table[i].attrs) = documented(i - 1)
    /\ \A s \in Accessed : /\ attributes(s) = set_to[s]
                           /\ s \in dirty_in => memory_attrs(set_to[s]) = "write_back"
=============================================================================
