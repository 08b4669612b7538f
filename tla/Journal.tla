------------------------------- MODULE Journal -------------------------------
(***************************************************************************)
(* What the MANIFEST and the WAL promise together: a journal of writes     *)
(* that only a power loss can shorten, and never below what was synced.    *)
(***************************************************************************)
EXTENDS SequencesExt

CONSTANTS Unreadable   \* files that every open refuses

VARIABLES
    log,      \* what open recovers from the files as they are
    durable,  \* what it recovers from their synced parts
    created   \* the files' headers are synced

journal == <<log, durable, created>>

Init == log = <<>> /\ durable = <<>> /\ created = FALSE

\* The first open makes the files.  When it is interrupted it may leave files
\* that cannot be read, but no write is lost with them.
Create ==
    /\ ~created /\ log \in {<<>>, Unreadable}
    /\ log' \in {<<>>, Unreadable}
    /\ durable' \in {<<>>, Unreadable}

\* A write becomes the last of the log, not yet durable.
Write ==
    /\ log # Unreadable /\ log' # Unreadable
    /\ Len(log') = Len(log) + 1 /\ IsPrefix(log, log')
    /\ UNCHANGED <<durable, created>>

\* Syncing, flushing and replacing files keeps the log and makes more of it
\* durable.
Settle ==
    /\ log # Unreadable /\ log' = log
    /\ durable' # Unreadable
    /\ IsPrefix(durable', log) /\ Len(durable) <= Len(durable')
    /\ created => created'

\* Behind the durable writes the log is cut anywhere.
PowerLoss ==
    /\ log # Unreadable
    /\ durable' = log'
    /\ \/ ~created /\ log' = Unreadable
       \/ log' # Unreadable /\ IsPrefix(durable, log') /\ IsPrefix(log', log)

Next == Create \/ Write \/ Settle \/ PowerLoss

Spec == Init /\ [][Next]_journal
=============================================================================
