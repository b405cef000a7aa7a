----------------------------- MODULE BootImage -----------------------------
(***************************************************************************)
(* The parser of boot images (zynq7000-boot-image).  An image is a         *)
(* sequence of words; offsets are in bytes, as in the crate, and a slice   *)
(* that is out of bounds, which panics, is Panic.  Layout is how the       *)
(* vendor's tool lays an image out; the parser is meant for what it makes. *)
(***************************************************************************)
EXTENDS Integers, Sequences, SequencesExt

CONSTANTS
  LIMIT,      \* one more than the largest word
  NAME_WORDS  \* words of the buffer for names

BootImageAssumption == LIMIT \in Nat /\ LIMIT > 1024 /\ NAME_WORDS \in Nat

IMAGE_ID_U32 == 588
FIXED_BOOT_HEADER_SIZE == 160
ImageHeaderTable_SIZE == 24
ImageHeader_MIN_SIZE == 28
PartitionHeader_SIZE == 64
ONES == LIMIT - 1
None == -1
Panic == -2

size(data) == 4 * Len(data)
read_u32_le(data, offset) == data[offset \div 4 + 1]
words_to_offset(w) == IF 4 * w < LIMIT THEN 4 * w ELSE None

-----------------------------------------------------------------------------
(* The boot header.                                                        *)
image_id(data) == read_u32_le(data, 36)
source_offset(data) == read_u32_le(data, 48)
header_checksum(data) == read_u32_le(data, 72)
image_header_table_offset(data) == read_u32_le(data, 152)

sum_of_header(data) == FoldLeft(LAMBDA sum, w : (sum + w) % LIMIT, 0, SubSeq(data, 9, 18))
verify_header_checksum(data) == ONES - sum_of_header(data) = header_checksum(data)

BootHeader_valid(data) ==
  /\ size(data) >= FIXED_BOOT_HEADER_SIZE
  /\ image_id(data) = IMAGE_ID_U32
  /\ verify_header_checksum(data)

(* Where the first image header is; None without a table or with no room   *)
(* for a header.                                                           *)
image_header_iterator(data) ==
  LET table == image_header_table_offset(data)
      first == words_to_offset(read_u32_le(data, table + 12))
  IN IF table + ImageHeaderTable_SIZE > size(data) THEN None
     ELSE IF first = None \/ first + ImageHeader_MIN_SIZE > size(data) THEN None
     ELSE first

-----------------------------------------------------------------------------
(* Image headers.  A header ends at a word of ones, or one word after a    *)
(* word of zeros.                                                          *)
header_ends(data, at) ==
  {i \in at \div 4 + 7 .. Len(data) : data[i] = ONES \/ data[i - 1] = 0}

ImageHeader_new(data, at) ==
  IF at > size(data) THEN Panic
  ELSE IF at + ImageHeader_MIN_SIZE > size(data) \/ header_ends(data, at) = {} THEN None
  ELSE at

(* Mutant: the offset is taken for one in bytes.                           *)
next_image_header_offset_in_bytes(data, at) == read_u32_le(data, at)

next_image_header_offset(data, at) == words_to_offset(read_u32_le(data, at))
first_partition_header_offset(data, at) == words_to_offset(read_u32_le(data, at + 4))
partition_count(data, at) == read_u32_le(data, at + 12)

(* A word of the name that is odd stands for one with a null byte, and so  *)
(* does zero: with it the name ends.  Otherwise it must fit in the buffer, *)
(* and end within the header.                                              *)
has_null(w) == w = 0 \/ w % 2 = 1

image_name(data, at) ==
  \E i \in at \div 4 + 5 .. Len(data) :
     /\ has_null(data[i]) /\ \A j \in at \div 4 + 5 .. i - 1 : ~ has_null(data[j])
     /\ \A e \in header_ends(data, at) : i <= e
     /\ i - at \div 4 - 5 < NAME_WORDS \/ (data[i] = 0 /\ i - at \div 4 - 5 = NAME_WORDS)

-----------------------------------------------------------------------------
(* Partition headers.                                                      *)
total_partition_length(data, at) == words_to_offset(read_u32_le(data, at + 8))
destination_load_address(data, at) == read_u32_le(data, at + 12)
data_offset(data, at) == words_to_offset(read_u32_le(data, at + 20))
destination_device(data, at) == (read_u32_le(data, at + 24) \div 16) % 16

has_partition(data, at, index, count) ==
  index < count /\ at + PartitionHeader_SIZE <= size(data)

-----------------------------------------------------------------------------
(* How images are laid out: header, table, image headers, partition        *)
(* headers, and the partitions, each at a multiple of 64 bytes.  An image  *)
(* is its name and the partitions [dest, load, words] it holds.            *)
Padded(s, n, w) == s \o [i \in 1 .. n - Len(s) |-> w]
Aligned(n) == ((n + 15) \div 16) * 16

Partitions(images) == FlattenSeq([k \in DOMAIN images |-> images[k].partitions])
TableAt == FIXED_BOOT_HEADER_SIZE \div 4
ImageAt(k) == TableAt + 6 + 16 * (k - 1)
PartitionHeaderAt(images, p) == ImageAt(Len(images) + 1) + 16 * (p - 1)
FirstPartition(images, k) == Len(Partitions(SubSeq(images, 1, k - 1))) + 1

DataAt(images) ==
  LET ps == Partitions(images)
      at[p \in 1 .. Len(ps) + 1] ==
        IF p = 1 THEN Aligned(PartitionHeaderAt(images, Len(ps) + 1))
        ELSE Aligned(at[p - 1] + ps[p - 1].words)
  IN at

(* What it lays out: names that fit in a header of 16 words, and a last    *)
(* image that holds a partition, in all of less than LIMIT bytes.          *)
Layable(images) ==
  /\ images # <<>> /\ images \in Seq([name : Seq(Nat),
                                     partitions : Seq([dest : 0 .. 15, load : Nat, words : Nat])])
  /\ \A k \in DOMAIN images : Len(images[k].name) <= 11
  /\ images[Len(images)].partitions # <<>>
  /\ 4 * DataAt(images)[Len(Partitions(images)) + 1] < LIMIT

Content(p, i) == 100 * p + i     \* word i of partition p

BootHeaderWords(images) ==
  LET w == [i \in 1 .. TableAt |->
              CASE i = 10 -> IMAGE_ID_U32 [] i = 13 -> 4 * DataAt(images)[1]
                [] i = 39 -> 4 * TableAt [] i = 40 -> 4 * PartitionHeaderAt(images, 1)
                [] OTHER -> 0]
  IN [w EXCEPT ![19] = ONES - sum_of_header(w)]

ImageHeaderWords(images, k) ==
  Padded(<<IF k = Len(images) THEN 0 ELSE ImageAt(k + 1),
           PartitionHeaderAt(images, FirstPartition(images, k)), 0,
           Len(images[k].partitions)>> \o images[k].name \o <<0>>, 16, ONES)

PartitionHeaderWords(images, p) ==
  LET q == Partitions(images)[p]
  IN Padded(<<q.words, q.words, q.words, q.load, q.load, DataAt(images)[p], 16 * q.dest, 1>>, 16, 0)

Layout(images) ==
  LET ps == Partitions(images)
      metadata ==
        BootHeaderWords(images)
        \o <<0, Len(images), PartitionHeaderAt(images, 1), ImageAt(1), 0, 0>>
        \o FlattenSeq([k \in DOMAIN images |-> ImageHeaderWords(images, k)])
        \o FlattenSeq([p \in DOMAIN ps |-> PartitionHeaderWords(images, p)])
      body == [p \in DOMAIN ps |->
                 Padded([i \in 1 .. ps[p].words |-> Content(p, i)],
                        DataAt(images)[p + 1] - DataAt(images)[p], ONES)]
  IN Padded(metadata, DataAt(images)[1], ONES) \o FlattenSeq(body)
=============================================================================
