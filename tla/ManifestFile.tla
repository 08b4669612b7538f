----------------------------- MODULE ManifestFile -----------------------------
(***************************************************************************)
(* The contents of the MANIFEST file: a header, then version edits.        *)
(* Header::write and load, VersionEdit::write and load and Manifest::load  *)
(* as functions of the file's cells.  One cell stands for four bytes.      *)
(*                                                                         *)
(* An edit is [wal, seq, tid, deleted, new]: the counters it sets (0: not  *)
(* set), how many tables it deletes, and the tables it installs, each with *)
(* the width of its path and of its two keys.  The first field of an edit  *)
(* carries the edit, the others only their place in it.                    *)
(***************************************************************************)
EXTENDS BlockFile, SequencesExt

CONSTANTS ManifestBlock   \* MANIFEST_BLOCK_SIZE

ASSUME ManifestFileAssumption == ManifestBlock \in Nat \ {0}

\* Manifest::Header: magic, version, header_size, flags, reserved, crc32.
ManifestHdr == 6

manifest_header == [i \in 1 .. ManifestHdr |-> <<"manifest", i>>]

-----------------------------------------------------------------------------
(* The layout of an edit, as the widths of its fields. *)

\* VersionEdit::Header: crc32, payload_size.
edit_header == <<1, 1>>

optional(counter) == IF counter = 0 THEN <<>> ELSE <<2>>

\* VersionEdit::Payload: flags, the counters that are set, the two counts.
edit_fields(e) ==
    <<1>> \o optional(e.tid) \o optional(e.seq) \o optional(e.wal) \o <<1, 1>>

\* DeletedTable: level, table_id.
deleted_table == <<1, 2>>

\* TableMeta: table_id, level, seven counters, three lengths; then the path
\* and the smallest and largest key.
table_meta(t) == <<2, 1, 2, 2, 2, 2, 2, 2, 2, 1, 1, 1, t.path, t.key, t.key>>

RECURSIVE total(_)
total(widths) == IF widths = <<>> THEN 0 ELSE Head(widths) + total(Tail(widths))

deleted_tables(e) == FlattenSeq([i \in 1 .. e.deleted |-> deleted_table])
new_tables(e)     == FlattenSeq([i \in DOMAIN e.new |-> table_meta(e.new[i])])

payload_widths(e) == edit_fields(e) \o deleted_tables(e) \o new_tables(e)

\* Payload::encoded_size.
payload_size(e) == total(payload_widths(e))

-----------------------------------------------------------------------------
(* Writing. *)

\* The checksum, the first field, is the one that tells the edits apart.
field(e, n, width) ==
    [i \in 1 .. width |-> IF n = 1 THEN <<"edit", e>> ELSE <<"field", n>>]

\* VersionEdit::write: the file behind it.
write_edit(file, e) ==
    LET widths == edit_header \o payload_widths(e)
    IN  write_fields(file, [n \in DOMAIN widths |-> field(e, n, widths[n])], ManifestBlock)

\* ... and whether it reports success: the fields must have taken exactly the
\* encoded size, padding included.
edit_written(file, e) ==
    Len(write_edit(file, e)) - Len(file) = total(edit_header) + payload_size(e)

-----------------------------------------------------------------------------
(* Reading. *)

\* The offset behind fields of these widths, from offset on.
RECURSIVE skip_fields(_, _)
skip_fields(offset, widths) ==
    IF widths = <<>> THEN offset
    ELSE skip_fields(read_field(offset, Head(widths), ManifestBlock), Tail(widths))

\* Payload::load bounds each field of its own, and each deleted table, by the
\* end of the payload before the reader skips padding.
RECURSIVE bounded(_, _, _)
bounded(offset, widths, end) ==
    IF widths = <<>> THEN TRUE
    ELSE /\ offset + Head(widths) <= end
         /\ bounded(read_field(offset, Head(widths), ManifestBlock), Tail(widths), end)

RECURSIVE deleted_bounded(_, _, _)
deleted_bounded(offset, n, end) ==
    IF n = 0 THEN TRUE
    ELSE /\ offset + total(deleted_table) <= end
         /\ deleted_bounded(skip_fields(offset, deleted_table), n - 1, end)

\* A table may start anywhere before the end and must not end behind it.
RECURSIVE tables_bounded(_, _, _)
tables_bounded(offset, tables, end) ==
    IF tables = <<>> THEN TRUE
    ELSE LET next == skip_fields(offset, table_meta(Head(tables)))
         IN  /\ offset < end
             /\ next <= end
             /\ tables_bounded(next, Tail(tables), end)

\* Payload::load of an edit whose payload begins at offset: the offset behind
\* it, or 0 when a bound is crossed or the fields do not end where the header
\* says.
load_payload(e, offset) ==
    LET end     == offset + payload_size(e)
        deleted == skip_fields(offset, edit_fields(e))
        tables  == skip_fields(deleted, deleted_tables(e))
        behind  == skip_fields(tables, new_tables(e))
    IN  IF /\ bounded(offset, edit_fields(e), end)
           /\ deleted_bounded(deleted, e.deleted, end)
           /\ tables_bounded(tables, e.new, end)
           /\ behind = end
        THEN end ELSE 0

\* Mutant: an edit whose payload is cut off is taken for damage.
load_edit_short_is_bad(file, offset) ==
    LET start == skip_fields(offset, edit_header)
        e     == file[ensure_fits_in_block(offset, 1, ManifestBlock) + 1][2]
    IN  IF Len(file) - offset < total(edit_header) THEN [what |-> "short", offset |-> offset]
        ELSE IF ~within(file, start) THEN [what |-> "bad", offset |-> offset]
        ELSE IF ~within(file, start + payload_size(e)) THEN [what |-> "bad", offset |-> offset]
        ELSE [what |-> "ok", offset |-> start + payload_size(e), edit |-> e]

\* VersionEdit::load.  Only a record that the file does not hold to its
\* declared end is a torn tail.
load_edit(file, offset) ==
    LET start == skip_fields(offset, edit_header)
        e     == file[ensure_fits_in_block(offset, 1, ManifestBlock) + 1][2]
    IN  IF Len(file) - offset < total(edit_header) \/ ~within(file, start)
        THEN [what |-> "short", offset |-> offset]
        ELSE IF ~within(file, start + payload_size(e))
        THEN [what |-> "short", offset |-> offset]
        ELSE IF load_payload(e, start) = 0
        THEN [what |-> "bad", offset |-> offset]
        ELSE [what |-> "ok", offset |-> start + payload_size(e), edit |-> e]

\* The loop of Manifest::load: append_offset ends behind the last whole edit.
RECURSIVE load_edits(_, _, _)
keep_edit(file, l, edits) ==
    CASE l.what = "short" -> [ok |-> TRUE, offset |-> l.offset, edits |-> edits]
      [] l.what = "bad"   -> [ok |-> FALSE, offset |-> l.offset, edits |-> edits]
      [] l.what = "ok"    -> load_edits(file, l.offset, Append(edits, l.edit))

load_edits(file, offset, edits) ==
    IF offset = Len(file) THEN [ok |-> TRUE, offset |-> offset, edits |-> edits]
    ELSE keep_edit(file, load_edit(file, offset), edits)

\* Manifest::load.
manifest_load(file) ==
    IF Len(file) < ManifestHdr \/ SubSeq(file, 1, ManifestHdr) # manifest_header
    THEN [ok |-> FALSE, offset |-> 0, edits |-> <<>>]
    ELSE load_edits(file, ManifestHdr, <<>>)
=============================================================================
