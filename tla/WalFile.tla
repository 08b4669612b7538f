------------------------------- MODULE WalFile -------------------------------
(***************************************************************************)
(* The contents of a WAL file: a file header, then logical records, each   *)
(* cut into fragments that do not straddle a block.  WALWriter::write, the *)
(* batch loader WALLoader::load and one call of the streaming loader       *)
(* WALStreamingLoader::load_next as functions of the file's cells.         *)
(*                                                                         *)
(* A record is [op, seq, size]: the write it comes from, its sequence      *)
(* number and the length of its encoded payload.  A cell remembers what it *)
(* is part of, so a checksum matches exactly when the cells it covers are  *)
(* the ones that were written together.                                    *)
(***************************************************************************)
EXTENDS BlockFile, FiniteSetsExt

CONSTANTS WalBlock,   \* WAL_FILE_BLOCK_SIZE
          WalHdr,     \* WALFileHeader::disk_size()
          FragHdr     \* Fragment::Header::disk_size()

ASSUME WalFileAssumption ==
    /\ {WalBlock, WalHdr, FragHdr} \subseteq Nat \ {0}
    /\ WalHdr <= WalBlock
    /\ FragHdr < WalBlock

\* WALFileHeader::write, Fragment::Header::write and Fragment::Payload::write.
wal_header(id) == [i \in 1 .. WalHdr |-> <<"wal", id, i>>]

fragment_header(f) == [i \in 1 .. FragHdr |-> <<"frag", f, i>>]

fragment_payload(f) == [i \in 1 .. f.size |-> <<"data", f.rec, f.from + i>>]

\* encode_record_payload.
payload(rec) == [i \in 1 .. rec.size |-> <<"data", rec, i>>]

fragment_type(first, last) ==
    CASE first /\ last   -> "FULL"
      [] first /\ ~last  -> "FIRST"
      [] ~first /\ last  -> "LAST"
      [] ~first /\ ~last -> "MIDDLE"

\* WALWriter::write_payload with done cells of the payload already written.
RECURSIVE write_payload(_, _, _)
write_payload(file, rec, done) ==
    IF done = rec.size THEN file
    ELSE LET at   == ensure_fits_in_block(Len(file), FragHdr + 1, WalBlock)
             room == left_in_block(at, WalBlock) - FragHdr
             n    == Min({rec.size - done, room})
             f    == [type |-> fragment_type(done = 0, done + n = rec.size),
                      rec |-> rec, from |-> done, size |-> n]
         IN  write_payload(write_fields(pad_to(file, at),
                                        <<fragment_header(f), fragment_payload(f)>>,
                                        WalBlock),
                           rec, done + n)

\* WALWriter::write.
wal_write(file, rec) == write_payload(file, rec, 0)

-----------------------------------------------------------------------------
(* Reading. *)

\* WALFileHeader::load.
load_wal_header(file, id) ==
    CASE file = <<>>                             -> "empty"
      [] file # <<>> /\ Len(file) < WalHdr       -> "short"
      [] Len(file) >= WalHdr                     ->
            IF SubSeq(file, 1, WalHdr) = wal_header(id) THEN "ok" ELSE "bad"

\* The cells at offset are one whole fragment header.
at_header(file, offset) ==
    /\ file[offset + 1][1] = "frag"
    /\ SubSeq(file, offset + 1, offset + FragHdr) = fragment_header(file[offset + 1][2])

\* Mutant: the reader skips the end of a block only when a header does not
\* fit, although the writer also skips it when nothing but a header fits.
load_fragment_header_only(file, offset, garbage) ==
    LET at  == ensure_fits_in_block(offset, FragHdr, WalBlock)
        end == at + FragHdr
        f   == file[at + 1][2]
        result(what, to) == [what |-> what, frag |-> <<>>, offset |-> to]
    IN  IF at >= Len(file) THEN result("eof", Len(file))
        ELSE IF Len(file) < end THEN result("short", offset)
        ELSE IF ~at_header(file, at) THEN result("bad", offset)
        ELSE IF Len(file) < end + f.size THEN result("short", offset)
        ELSE [what |-> "ok", frag |-> f, offset |-> end + f.size]

\* Fragment::load.  Cells that are no header of a fragment are read as one
\* all the same: the checks fail, except that a length taken from them may
\* reach beyond the end of the file before the checksum is looked at.
\* garbage says which of the two happens where both can.
load_fragment(file, offset, garbage) ==
    LET at  == ensure_fits_in_block(offset, FragHdr + 1, WalBlock)
        end == at + FragHdr
        available == left_in_block(end, WalBlock)
        f   == file[at + 1][2]
        result(what, to) == [what |-> what, frag |-> <<>>, offset |-> to]
    IN  IF at >= Len(file) THEN result("eof", Len(file))
        ELSE IF Len(file) - at < FragHdr THEN result("short", offset)
        ELSE IF ~at_header(file, at)
             THEN result(IF Len(file) - end < available THEN garbage ELSE "bad", offset)
        ELSE IF f.size > available THEN result("bad", offset)
        ELSE IF Len(file) - end < f.size THEN result("short", offset)
        ELSE IF SubSeq(file, end + 1, end + f.size) # fragment_payload(f)
             THEN result("bad", offset)
        ELSE [what |-> "ok", frag |-> f, offset |-> end + f.size]

\* LogicalRecordAssembler: no logical record, or the one being put together.
Idle == [active |-> FALSE, seq |-> 0, bytes |-> <<>>]

\* decode_record_payload: the lengths at the front must account for all of it.
decodes(bytes) ==
    /\ bytes # <<>>
    /\ bytes[1][3] = 1
    /\ bytes[1][2].size = Len(bytes)

assembled(seq, bytes) ==
    IF decodes(bytes)
    THEN [what |-> "record", asm |-> Idle, record |-> [seq |-> seq, bytes |-> bytes]]
    ELSE [what |-> "bad", asm |-> Idle, record |-> <<>>]

\* LogicalRecordAssembler::consume.
consume(asm, f) ==
    LET bad     == [what |-> "bad", asm |-> Idle, record |-> <<>>]
        more(a) == [what |-> "more", asm |-> a, record |-> <<>>]
        bytes   == asm.bytes \o fragment_payload(f)
    IN  CASE f.type = "FULL" ->
               IF asm.active THEN bad ELSE assembled(f.rec.seq, fragment_payload(f))
          [] f.type = "FIRST" ->
               IF asm.active THEN bad
               ELSE more([active |-> TRUE, seq |-> f.rec.seq, bytes |-> fragment_payload(f)])
          [] f.type \in {"MIDDLE", "LAST"} ->
               IF ~asm.active \/ asm.seq # f.rec.seq THEN bad
               ELSE IF f.type = "MIDDLE" THEN more([asm EXCEPT !.bytes = bytes])
               ELSE assembled(asm.seq, bytes)

\* The loop of WALLoader::load.  good is last_good_offset, the end of the last
\* complete record; l is the fragment loaded, c what the assembler says to it.
RECURSIVE load_records(_, _, _, _, _, _)
keep_record(file, offset, good, c, records, garbage) ==
    CASE c.what = "bad"    -> [end |-> "corrupt", offset |-> good, records |-> records]
      [] c.what = "more"   -> load_records(file, offset, good, c.asm, records, garbage)
      [] c.what = "record" -> load_records(file, offset, offset, c.asm,
                                           Append(records, c.record), garbage)

keep_fragment(file, l, good, asm, records, garbage) ==
    LET stop(end, at) == [end |-> end, offset |-> at, records |-> records]
    IN  CASE l.what = "short" -> stop("torn", good)
          [] l.what = "bad"   -> stop("corrupt", good)
          [] l.what = "eof"   -> IF asm.active THEN stop("torn", good)
                                 ELSE stop("eof", l.offset)
          [] l.what = "ok"    -> keep_record(file, l.offset, good, consume(asm, l.frag),
                                             records, garbage)

load_records(file, offset, good, asm, records, garbage) ==
    keep_fragment(file, load_fragment(file, offset, garbage), good, asm, records, garbage)

\* WALLoader::load.
wal_load(file, id, garbage) ==
    IF load_wal_header(file, id) = "ok"
    THEN load_records(file, WalHdr, WalHdr, Idle, <<>>, garbage)
    ELSE [end |-> "no_header", offset |-> 0, records |-> <<>>]

-----------------------------------------------------------------------------
(* The streaming loader.  state is Ready, EndOfFile, TornTail or Corrupted;
   header whether the file header has been read. *)

StreamOpen == [state |-> "Ready", header |-> FALSE, offset |-> 0, good |-> 0,
               record |-> <<>>]

\* mark_torn_tail and mark_corruption, back at the last good offset.
stream_stop(st, state) ==
    [st EXCEPT !.state = state, !.offset = st.good, !.record = <<>>]

\* Fragments up to the end of one logical record.
RECURSIVE stream_record(_, _, _, _)
\* Mutant: the last good offset stays behind.
yield_keeping_good(file, st, c, garbage) ==
    CASE c.what = "bad"    -> stream_stop(st, "Corrupted")
      [] c.what = "more"   -> stream_record(file, st, c.asm, garbage)
      [] c.what = "record" -> [st EXCEPT !.record = c.record]

yield(file, st, c, garbage) ==
    CASE c.what = "bad"    -> stream_stop(st, "Corrupted")
      [] c.what = "more"   -> stream_record(file, st, c.asm, garbage)
      [] c.what = "record" -> [st EXCEPT !.good = st.offset, !.record = c.record]

stream_fragment(file, st, l, asm, garbage) ==
    LET to == [st EXCEPT !.offset = l.offset]
    IN  CASE l.what = "short" -> stream_stop(st, "TornTail")
          [] l.what = "bad"   -> stream_stop(st, "Corrupted")
          [] l.what = "eof"   -> IF asm.active THEN stream_stop(st, "TornTail")
                                 ELSE [to EXCEPT !.state = "EndOfFile", !.record = <<>>]
          [] l.what = "ok"    -> yield(file, to, consume(asm, l.frag), garbage)

stream_record(file, st, asm, garbage) ==
    stream_fragment(file, st, load_fragment(file, st.offset, garbage), asm, garbage)

\* WALStreamingLoader::load_next: terminal states report themselves again.
load_next(file, id, st, garbage) ==
    IF st.state # "Ready" THEN [st EXCEPT !.record = <<>>]
    ELSE IF st.header THEN stream_record(file, st, Idle, garbage)
    ELSE CASE load_wal_header(file, id) \in {"empty", "short"} -> stream_stop(st, "TornTail")
           [] load_wal_header(file, id) = "bad" -> stream_stop(st, "Corrupted")
           [] load_wal_header(file, id) = "ok"  ->
                stream_record(file, [st EXCEPT !.header = TRUE, !.offset = WalHdr,
                                               !.good = WalHdr], Idle, garbage)

\* A caller that keeps calling load_next until it is told to stop.
RECURSIVE stream_all(_, _, _, _, _)
stream_on(file, id, next, records, garbage) ==
    IF next.state = "Ready"
    THEN stream_all(file, id, next, Append(records, next.record), garbage)
    ELSE [state |-> next.state, offset |-> next.offset, records |-> records,
          again |-> load_next(file, id, next, garbage)]

stream_all(file, id, st, records, garbage) ==
    stream_on(file, id, load_next(file, id, st, garbage), records, garbage)
=============================================================================
