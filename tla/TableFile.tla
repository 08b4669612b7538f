------------------------------ MODULE TableFile ------------------------------
(***************************************************************************)
(* The contents of one SSTable file: how records become data blocks, how   *)
(* the index, Bloom, meta and footer sections are derived from them, what  *)
(* SSTable::load checks, and how a loaded table answers a lookup.          *)
(*                                                                         *)
(* Every section begins on a block boundary and every section but the data *)
(* section is confined to one block, so a file is a sequence of blocks and *)
(* an offset is a position in it.  Sizes count bytes and matter for        *)
(* capacities only.  A block holds its header fields (type, size), its     *)
(* payload, and `rot`: whether a bit of the payload or of the stored       *)
(* checksum has changed since it was written.  The checksum is ideal: it   *)
(* matches exactly when the bytes read are the bytes written.              *)
(*                                                                         *)
(* A key is a sequence of bytes; a record's value is known by its size.    *)
(***************************************************************************)
EXTENDS Naturals, Sequences, FiniteSets

CONSTANTS Block,        \* BLOCK_SIZE
          SectionHdr,   \* type, payload size, CRC
          RecordFixed,  \* Payload::fixed_part_disk_size
          IndexFixed,   \* IndexSection::Payload::fixed_disk_size
          MetaFixed,    \* MetaSection::Payload::fixed_disk_size
          BloomBits,    \* BLOOM_MASK_BIT_SIZE
          Fnv(_, _)     \* fnv1a64 of a key under a seed

ASSUME TableFileAssumption ==
    /\ {Block, SectionHdr, RecordFixed, IndexFixed, MetaFixed} \subseteq Nat
    /\ RecordFixed > 0
    /\ SectionHdr < Block
    /\ BloomBits \in Nat \ {0}

Capacity == Block - SectionHdr

sum(sizes) ==
    LET upto[i \in 0 .. Len(sizes)] == IF i = 0 THEN 0 ELSE upto[i - 1] + sizes[i]
    IN  upto[Len(sizes)]

(***************************************************************************)
(* Order: keys bytewise, a proper prefix first; versions newest first.     *)
(***************************************************************************)
key_less(a, b) ==
    \/ Len(a) < Len(b) /\ \A i \in DOMAIN a : a[i] = b[i]
    \/ \E i \in DOMAIN a \cap DOMAIN b :
         a[i] < b[i] /\ \A j \in 1 .. i - 1 : a[j] = b[j]

record_less(a, b) ==
    key_less(a.key, b.key) \/ (a.key = b.key /\ a.seq > b.seq)

sorted(records) ==
    \A i \in 1 .. Len(records) - 1 : record_less(records[i], records[i + 1])

(***************************************************************************)
(* The data section while a table is being built: one sequence of records  *)
(* per block.                                                              *)
(***************************************************************************)
payload_size(r) == RecordFixed + Len(r.key) + r.value

block_bytes(records) == sum([i \in DOMAIN records |-> payload_size(records[i])])

payload_valid(r) == payload_size(r) <= Capacity

can_payload_fit(records, r) == block_bytes(records) + payload_size(r) <= Capacity

last_of(s) == s[Len(s)]

\* DataSection::add_payload accepts the record; SSTableStreamingBuilder::add
\* and build_impl make the same demand on the order.
can_add(blocks, r) ==
    /\ payload_valid(r)
    /\ blocks # <<>> => record_less(last_of(last_of(blocks)), r)

add_payload(blocks, r) ==
    IF blocks # <<>> /\ can_payload_fit(last_of(blocks), r)
    THEN [blocks EXCEPT ![Len(blocks)] = Append(@, r)]
    ELSE Append(blocks, <<r>>)

\* SSTableBuilder::build_impl: every record in turn.
build_impl(records) ==
    LET upto[i \in 0 .. Len(records)] ==
            IF i = 0 THEN <<>> ELSE add_payload(upto[i - 1], records[i])
    IN  upto[Len(records)]

buildable(records) ==
    sorted(records) /\ \A i \in DOMAIN records : payload_valid(records[i])

records_of(blocks) ==
    LET upto[i \in 0 .. Len(blocks)] ==
            IF i = 0 THEN <<>> ELSE upto[i - 1] \o blocks[i]
    IN  upto[Len(blocks)]

\* SSTableBuilder::approximate_disk_space.  It splits where the records alone
\* fill a block and counts one key per index entry, so it only approximates
\* the file; Fixed stands for SSTable::fixed_disk_size and the index header.
approximate_disk_space(records, Fixed) ==
    LET step[i \in 0 .. Len(records)] ==
            IF i = 0 THEN [block |-> 0, index |-> 0]
            ELSE LET size == payload_size(records[i])
                     full == step[i - 1].block > 0 /\ step[i - 1].block + size > Block
                 IN  IF full
                     THEN [block |-> size,
                           index |-> step[i - 1].index + IndexFixed + Len(records[i - 1].key)]
                     ELSE [step[i - 1] EXCEPT !.block = @ + size]
        n == Len(records)
    IN  Fixed + block_bytes(records) + step[n].index
          + (IF n > 0 THEN IndexFixed + Len(records[n].key) ELSE 0)

(***************************************************************************)
(* Blocks of a file.                                                       *)
(***************************************************************************)
written_block(type, size, payload) ==
    [type |-> type, size |-> size, payload |-> payload, rot |-> FALSE]

data_block(records) == written_block("Data", block_bytes(records), records)

(***************************************************************************)
(* Index: one entry per data block, in file order.                         *)
(***************************************************************************)
index_entry(at, records) ==
    [at |-> at, first |-> records[1].key, last |-> last_of(records).key]

entry_size(e) == IndexFixed + Len(e.first) + Len(e.last)

index_bytes(entries) == sum([i \in DOMAIN entries |-> entry_size(entries[i])])

\* Adjacent ranges may share one key: its versions may span blocks.
validate_payload_sequence(entries) ==
    /\ \A e \in {entries[i] : i \in DOMAIN entries} : ~key_less(e.last, e.first)
    /\ \A i \in 1 .. Len(entries) - 1 :
         /\ entries[i + 1].at = entries[i].at + 1
         /\ ~key_less(entries[i + 1].first, entries[i].last)
    /\ index_bytes(entries) <= Capacity

\* The entries IndexSection::add_index collects while the data section, whose
\* first block is at DataStart, is written.
DataStart == 2

add_indexes(blocks) ==
    [i \in DOMAIN blocks |-> index_entry(DataStart + i - 1, blocks[i])]

\* The first block whose entry no longer fits: add_index refuses it after the
\* block's own bytes are in the file.
index_full_at(blocks) ==
    {n \in DOMAIN blocks : index_bytes(SubSeq(add_indexes(blocks), 1, n)) > Capacity}

index_block(entries) == written_block("Index", index_bytes(entries), entries)

\* The first position in 1 .. n + 1 from which on below(_) is false: the loop
\* over low and high of find_candidate_range and of find_first_record.
lower_bound(n, below(_)) ==
    LET search[low \in 1 .. n + 1, high \in 1 .. n + 1] ==
            IF low >= high THEN low
            ELSE LET middle == low + (high - low) \div 2
                 IN  IF below(middle) THEN search[middle + 1, high] ELSE search[low, middle]
    IN  search[1, n + 1]

\* A mutant: the range whose last key is the lookup key is passed over.
find_first_candidate_past_last(entries, key) ==
    LET first == lower_bound(Len(entries), LAMBDA m : ~key_less(key, entries[m].last))
    IN  IF first > Len(entries) \/ key_less(key, entries[first].first) THEN 0 ELSE first

\* The entry a lookup begins (and, in SSTable::get, ends) with; 0 when the key
\* lies in no range.
find_first_candidate(entries, key) ==
    LET first == lower_bound(Len(entries), LAMBDA m : key_less(entries[m].last, key))
    IN  IF first > Len(entries) \/ key_less(key, entries[first].first) THEN 0 ELSE first

(***************************************************************************)
(* Bloom filter: two slots per key, double hashing.                        *)
(***************************************************************************)
\* The 64-bit sum may wrap; the slot count, 128, divides 2^64, so the slot is
\* the same.
bloom_hash_i(key, i) == (Fnv(key, 0) + i * Fnv(key, 1)) % BloomBits

bloom_slots(key) == {bloom_hash_i(key, i) : i \in 0 .. 1}

EmptyBloom == [mask |-> {}, keys |-> 0]

add_key_to_payload(bloom, key) ==
    [mask |-> bloom.mask \cup bloom_slots(key), keys |-> bloom.keys + 1]

\* A mutant: one key per block, as the index does it.
bloom_rebuild_by_block(blocks) ==
    LET upto[i \in 0 .. Len(blocks)] ==
            IF i = 0 THEN EmptyBloom ELSE add_key_to_payload(upto[i - 1], blocks[i][1].key)
    IN  upto[Len(blocks)]

\* BloomSection::rebuild: every record of the data section, versions included.
bloom_rebuild(blocks) ==
    LET records == records_of(blocks)
        upto[i \in 0 .. Len(records)] ==
            IF i = 0 THEN EmptyBloom ELSE add_key_to_payload(upto[i - 1], records[i].key)
    IN  upto[Len(records)]

bloom_valid(bloom) ==
    /\ bloom.mask \subseteq 0 .. BloomBits - 1
    /\ (bloom.keys = 0) <=> (bloom.mask = {})

may_contain(bloom, key) == bloom_slots(key) \subseteq bloom.mask

bloom_block(bloom) == written_block("Bloom", BloomBits, bloom)

(***************************************************************************)
(* Meta: counts and bounds of the records.                                 *)
(***************************************************************************)
least(keys) == CHOOSE k \in keys : \A other \in keys : ~key_less(other, k)
greatest(keys) == CHOOSE k \in keys : \A other \in keys : ~key_less(k, other)
lowest(seqs) == CHOOSE s \in seqs : \A other \in seqs : s <= other
highest(seqs) == CHOOSE s \in seqs : \A other \in seqs : s >= other

meta_rebuild(blocks) ==
    LET records == records_of(blocks)
        keys == {records[i].key : i \in DOMAIN records}
        seqs == {records[i].seq : i \in DOMAIN records}
    IN  [records    |-> Len(records),
         tombstones |-> Cardinality({i \in DOMAIN records : records[i].type = "Tombstone"}),
         min_seq    |-> lowest(seqs),
         max_seq    |-> highest(seqs),
         min_key    |-> least(keys),
         max_key    |-> greatest(keys),
         blocks     |-> Len(blocks),
         bytes      |-> Len(blocks) * SectionHdr + block_bytes(records)]

meta_size(meta) == MetaFixed + Len(meta.min_key) + Len(meta.max_key)

meta_valid(meta) ==
    /\ meta_size(meta) <= Capacity
    /\ meta.tombstones <= meta.records
    /\ meta.blocks \in 1 .. meta.records
    /\ meta.min_seq <= meta.max_seq
    /\ ~key_less(meta.max_key, meta.min_key)
    /\ meta.bytes \in meta.blocks * (SectionHdr + RecordFixed) .. meta.blocks * Block

validate_index_consistency(meta, entries) ==
    LET bounds == UNION {{entries[i].first, entries[i].last} : i \in DOMAIN entries}
    IN  /\ meta.blocks = Len(entries)
        /\ bounds # {}
        /\ meta.min_key = least(bounds)
        /\ meta.max_key = greatest(bounds)

meta_block(meta) == written_block("Meta", meta_size(meta), meta)

(***************************************************************************)
(* SSTable::write, up to the footer.                                       *)
(***************************************************************************)
footer_of(blocks) ==
    LET index == DataStart + Len(blocks)
    IN  [data |-> DataStart, count |-> Len(blocks), index |-> index, bloom |-> index + 1,
         meta |-> index + 2, file_size |-> index + 3,
         index_size |-> index_bytes(add_indexes(blocks)),
         bloom_size |-> BloomBits,
         meta_size |-> meta_size(meta_rebuild(blocks))]

header_block(id) == written_block("Header", 0, id)

footer_block(footer) == written_block("Footer", 0, footer)

data_blocks(blocks) == [i \in DOMAIN blocks |-> data_block(blocks[i])]

\* The file a write that meets no error produces.
encoded(id, blocks) ==
    <<header_block(id)>> \o data_blocks(blocks)
      \o <<index_block(add_indexes(blocks)), bloom_block(bloom_rebuild(blocks)),
           meta_block(meta_rebuild(blocks)), footer_block(footer_of(blocks))>>

\* MetaSection::rebuild refuses after the data blocks are in the file.
derivable(blocks) ==
    meta_valid(meta_rebuild(blocks))
      /\ validate_index_consistency(meta_rebuild(blocks), add_indexes(blocks))

\* How many blocks of the file are written when no call fails.
write_reaches(blocks) ==
    IF index_full_at(blocks) # {} THEN 1 + lowest(index_full_at(blocks))
    ELSE IF ~derivable(blocks) THEN 1 + Len(blocks)
    ELSE Len(blocks) + 5

writable(blocks) == index_full_at(blocks) = {} /\ derivable(blocks)

(***************************************************************************)
(* SSTable::load.                                                          *)
(***************************************************************************)
intact(block, bytes) == ~block.rot /\ block.size = bytes

header_load(file) ==
    Len(file) > 0 /\ file[1].type = "Header" /\ ~file[1].rot

footer_valid(f, file) ==
    /\ f.file_size = Len(file)
    /\ f.index = f.data + f.count
    /\ f.bloom_size = BloomBits
    /\ f.meta_size \in MetaFixed .. Capacity
    /\ f.index < f.bloom /\ f.bloom < f.meta /\ f.meta < f.file_size

\* The last bytes of the file, if they are a footer.
footer_load(file) ==
    LET last == last_of(file)
    IN  Len(file) > 1 /\ last.type = "Footer" /\ ~last.rot /\ footer_valid(last.payload, file)

\* DataSectionView::Header::load: the payload itself stays unread.
data_header_load(block) == block.type = "Data" /\ block.size <= Capacity

data_view_load(file, f) ==
    \A i \in f.data .. f.index - 1 : data_header_load(file[i])

index_load(file, f) ==
    LET block == file[f.index]
    IN  /\ block.type = "Index"
        /\ block.size <= Capacity
        /\ intact(block, index_bytes(block.payload))
        /\ validate_payload_sequence(block.payload)
        /\ block.size = f.index_size

bloom_load(file, f) ==
    LET block == file[f.bloom]
    IN  block.type = "Bloom" /\ intact(block, BloomBits) /\ bloom_valid(block.payload)

meta_load(file, f) ==
    LET block == file[f.meta]
    IN  /\ block.type = "Meta"
        /\ intact(block, meta_size(block.payload))
        /\ meta_valid(block.payload)
        /\ validate_index_consistency(block.payload, file[f.index].payload)
        /\ block.size = f.meta_size

loads(file) ==
    /\ header_load(file)
    /\ footer_load(file)
    /\ LET f == last_of(file).payload
       IN  data_view_load(file, f) /\ index_load(file, f) /\ bloom_load(file, f)
             /\ meta_load(file, f)

\* What stays in memory of a loaded table.  A block's header is read once; its
\* payload is checked when a lookup first needs it, and the verdict is cached.
view_of(file) ==
    LET f == last_of(file).payload
    IN  [entries |-> file[f.index].payload,
         bloom   |-> file[f.bloom].payload,
         sizes   |-> [i \in 1 .. f.count |-> file[f.data + i - 1].size],
         state   |-> [i \in 1 .. f.count |-> "Unvalidated"]]

(***************************************************************************)
(* Reading a data block.                                                   *)
(***************************************************************************)
\* What the payload of a block says now: rot changes a record.
payload_read(block) ==
    IF block.rot
    THEN [block.payload EXCEPT ![Len(block.payload)].seq = @ + 1]
    ELSE block.payload

\* DataBlock::validate of the view, given the size the header had at load: the
\* checksum, the record types and lengths, the order.
payload_checks(block, size) ==
    /\ ~block.rot
    /\ size = block_bytes(block.payload)
    /\ Len(block.payload) > 0
    /\ sorted(block.payload)

\* find_first_record and read_record: the newest version of the key in the
\* block, or none.
find_in_block(records, key) ==
    LET first == lower_bound(Len(records), LAMBDA m : key_less(records[m].key, key))
    IN  IF first <= Len(records) /\ records[first].key = key THEN {records[first]} ELSE {}

\* SSTableIterator::load_next_block reads header and payload afresh; it does
\* not look at the order of what passes the checksum.
iterator_block_checks(block) ==
    /\ block.type = "Data"
    /\ block.size <= Capacity
    /\ intact(block, block_bytes(block.payload))
    /\ Len(block.payload) > 0
=============================================================================
