------------------------------ MODULE BlockFile ------------------------------
(***************************************************************************)
(* Files that are written and read field by field in blocks of fixed size. *)
(* A file is a sequence of cells; a field is a sequence of cells that must *)
(* not straddle a block boundary.  The writer fills the rest of a block    *)
(* with padding when the next field does not fit, and the reader skips it  *)
(* by the same arithmetic, without looking at what it skips.               *)
(***************************************************************************)
EXTENDS Naturals, Sequences

\* The byte 0xCD the writer pads with.
Padding == <<"pad">>

left_in_block(offset, block) == block - (offset % block)

fits_in_block(offset, size, block) ==
    size = 0 \/ size <= left_in_block(offset, block)

align_to_block_boundary(offset, block) ==
    IF offset % block = 0 THEN offset ELSE offset + left_in_block(offset, block)

\* Where a field of this size begins, for the writer as for the reader.
ensure_fits_in_block(offset, size, block) ==
    IF fits_in_block(offset, size, block) THEN offset
    ELSE align_to_block_boundary(offset, block)

\* The write side of align_to_block_boundary: append the padding.
pad_to(file, offset) == file \o [i \in 1 .. offset - Len(file) |-> Padding]

\* blockio::write_u32_t_le, write_u64_t_le and write_bytes.
write_field(file, field, block) ==
    pad_to(file, ensure_fits_in_block(Len(file), Len(field), block)) \o field

\* The same, field after field.
write_fields(file, fields, block) ==
    LET after[i \in 0 .. Len(fields)] ==
            IF i = 0 THEN file ELSE write_field(after[i - 1], fields[i], block)
    IN  after[Len(fields)]

\* blockio::read_u32_t_le, read_u64_t_le and read_bytes: the offset behind a
\* field of this size, and whether the file reaches that far (otherwise
\* ReadableFile::read_exact_at reports UnexpectedEOF).
read_field(offset, size, block) ==
    ensure_fits_in_block(offset, size, block) + size

within(file, offset) == offset <= Len(file)

\* WritableFile::append loops over partial writes; when it stops part-way the
\* tracked offset has followed the cursor, and a prefix of the cells is in
\* the file.  The same prefixes are what a kill in the middle leaves.
prefixes_from(file, from) == {SubSeq(file, 1, n) : n \in from .. Len(file)}
=============================================================================
