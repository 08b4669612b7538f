------------------------------ MODULE MCStorage ------------------------------
(***************************************************************************)
(* The MANIFEST and WAL files checked against the journal they implement.  *)
(* The history variable seen is what open would recover in each state, up  *)
(* to the first edit that meets a block boundary (see EditsLoad).          *)
(***************************************************************************)
EXTENDS Storage

VARIABLE seen

MCInit == Init /\ seen = [now |-> Observed(manifest, wal), padded |-> FALSE]

MCNext ==
    /\ Next
    /\ IF seen.padded \/ UNCHANGED <<manifest, wal>> THEN UNCHANGED seen
       ELSE \E m \in {manifest'}, w \in {wal'} :
              seen' = IF Padded(m.cells) THEN [seen EXCEPT !.padded = TRUE]
                      ELSE [seen EXCEPT !.now = Observed(m, w)]

MCSpec == MCInit /\ [][MCNext]_<<vars, seen>>

J == INSTANCE Journal WITH
        log <- seen.now.log, durable <- seen.now.durable, created <- seen.now.created

\* MANIFEST and WAL implement the journal: whatever is written, synced,
\* replaced or removed, and wherever open, put and flush are cut off, the log
\* recovered afterwards only grows by writes and only shrinks by a power loss,
\* down to what was synced.
ImplementsJournal == J!Spec

\* Once the files exist, a write that was acknowledged after a sync, or that a
\* flush or a close covered, is among what the synced parts of the files yield.
PromisesDurable ==
    ~seen.padded /\ seen.now.created =>
        seen.now.durable # Unreadable /\ Len(seen.now.durable) >= promised
=============================================================================
