------------------------------ MODULE MemTable ------------------------------
(***************************************************************************)
(* MemTable over its drivers and the arena that holds its bytes.  Records  *)
(* enter the active generation, a freeze moves it to the queue of          *)
(* immutable ones, lookups search them all under a shared lock, and flush  *)
(* code pins, dumps, publishes and retires the oldest one.                 *)
(*                                                                         *)
(* What runs under the exclusive lock is one step.  A lookup holds the     *)
(* shared lock from Get to Unlock and takes a step per node it visits, so  *)
(* that lookups overlap; those of a SplayTree rotate the active generation *)
(* one turn at a time.  Arena is not thread-safe: the engine's mutex keeps *)
(* its users apart from each other and from lookups.                       *)
(***************************************************************************)
EXTENDS Drivers, Arena, FiniteSets

CONSTANTS DriverClasses,  \* the builds: values of MemTableDriver
          Key,            \* keys, in order
          KeySize,        \* the size of each key
          ValueSize,      \* the size of each key's value, 0 for a tombstone
          Objects,        \* <<size, alignment, count>> of arrays of arena objects
          MaxCalls,       \* bound for each build: puts, freezes and other allocations
          Tallest,        \* bound for each build: records of a generation alone in memory
          Serialized,     \* builds whose lookups the engine's mutex keeps apart
          MaxShared,      \* bound: calls after which lookups may still overlap
          Readers, Flushers

ASSUME MemTableAssumption ==
    /\ Key \subseteq Nat \ {0}
    /\ KeySize \in [Key -> Nat \ {0}] /\ ValueSize \in [Key -> Nat]
    /\ {MaxCalls, Tallest} \subseteq [DriverClasses -> Nat] /\ MaxShared \in Nat
    /\ Serialized \subseteq DriverClasses

VARIABLES driver,      \* the class of the build
          active,      \* mutable_table_
          queue,       \* immutable_tables_, the oldest first
          next_id,     \* next_generation_id_
          readers, flushers,
          published,   \* records in durable tables
          arena,
          bytes,       \* the places of each record's key and value, once applied
          strays       \* how many allocations back no record

vars == <<driver, active, queue, next_id, readers, flushers, published, arena, bytes, strays>>

\* members, the records a generation was given, and since, the newest version
\* of the key when a lookup began, are history.
Fresh(d) == [table |-> empty_driver(d), members |-> {}]

IdleReader  == [phase |-> "idle", key |-> 0, at |-> NoSearch, since |-> Nil]
IdleFlusher == [phase |-> "idle", id |-> 0]

Init ==
    /\ driver \in DriverClasses
    /\ active = Fresh(driver)
    /\ queue = <<>>
    /\ next_id = 1
    /\ readers = [r \in Readers |-> IdleReader]
    /\ flushers = [f \in Flushers |-> IdleFlusher]
    /\ published = {}
    /\ arena = EmptyArena
    /\ bytes = [n \in Node |-> <<>>]
    /\ strays = 0

generations == {active} \cup {queue[i] : i \in DOMAIN queue}
applied == {n \in Node : bytes[n] # <<>>}
version(n, key) == \E g \in generations : n \in g.members /\ g.table.key[n] = key

\* next_sequence_: one more than the number of records.
next_sequence == Cardinality(applied) + 1

\* The calls so far that are bounded; one that leaves a stray counts twice.
calls == Cardinality(applied) + (next_id - 1) + 2 * strays

InBudget == calls < MaxCalls[driver]

AloneBelow(n) == n <= Tallest[driver] /\ next_id = 1 /\ strays = 0

\* The exclusive lock is to be had.
Unlocked == \A r \in Readers : readers[r].phase = "idle"

-----------------------------------------------------------------------------
\* Engine::put_impl up to the WAL: the copies of the key and of the value.
key_copied(key, memory) == alloc(arena, KeySize[key], 1, memory)
value_copied(key, memory) == alloc(key_copied(key, TRUE).arena, ValueSize[key], 1, memory)

\* A mutant: apply takes the shared lock.
Put_shared(key, drawn) ==
    LET n == next_sequence IN
    /\ n \in Node
    /\ InBudget \/ AloneBelow(n)
    /\ active' = [table   |-> insert(driver, active.table, n, key, drawn),
                  members |-> active.members \cup {n}]
    /\ arena' = value_copied(key, TRUE).arena
    /\ bytes' = [bytes EXCEPT ![n] = <<key_copied(key, TRUE).at, value_copied(key, TRUE).at>>]
    /\ UNCHANGED <<driver, queue, next_id, readers, flushers, published, strays>>

\* MemTable::apply, with its record's bytes and next_sequence_.
Put(key, drawn) ==
    LET n == next_sequence IN
    /\ Unlocked /\ n \in Node
    /\ InBudget \/ AloneBelow(n)
    /\ active' = [table   |-> insert(driver, active.table, n, key, drawn),
                  members |-> active.members \cup {n}]
    /\ arena' = value_copied(key, TRUE).arena
    /\ bytes' = [bytes EXCEPT ![n] = <<key_copied(key, TRUE).at, value_copied(key, TRUE).at>>]
    /\ UNCHANGED <<driver, queue, next_id, readers, flushers, published, strays>>

\* The value's copy or the WAL write fails.
PutFails(key) ==
    /\ Unlocked
    /\ \E got \in {value_copied(key, FALSE), value_copied(key, TRUE)} :
         arena' = rollback(got.arena, checkpoint(arena))
    /\ UNCHANGED <<driver, active, queue, next_id, readers, flushers, published, bytes, strays>>

\* The WAL's sync fails: the copies stay.
PutUnsynced(key) ==
    /\ Unlocked /\ InBudget /\ strays' = strays + 1
    /\ arena' = value_copied(key, TRUE).arena
    /\ UNCHANGED <<driver, active, queue, next_id, readers, flushers, published, bytes>>

\* arena_new and arena_new_array, by any other user of the arena.
NewObjects(o, memory, built) ==
    /\ Unlocked /\ InBudget /\ strays' = strays + 1
    /\ arena' = arena_new_array(arena, o[1], o[2], o[3], memory, built).arena
    /\ UNCHANGED <<driver, active, queue, next_id, readers, flushers, published, bytes>>

-----------------------------------------------------------------------------
\* A mutant: the replacement takes the id of the generation it replaces.
Freeze_same_id ==
    /\ Unlocked /\ InBudget
    /\ ~empty(driver, active.table)
    /\ queue' = Append(queue, [id |-> next_id, table |-> active.table, members |-> active.members])
    /\ active' = Fresh(driver)
    /\ UNCHANGED <<driver, next_id, readers, flushers, published, arena, bytes, strays>>

\* freeze_mutable; an empty active generation stays.
Freeze ==
    /\ Unlocked /\ InBudget
    /\ ~empty(driver, active.table)
    /\ queue' = Append(queue, [id |-> next_id, table |-> active.table, members |-> active.members])
    /\ next_id' = next_id + 1
    /\ active' = Fresh(driver)
    /\ UNCHANGED <<driver, readers, flushers, published, arena, bytes, strays>>

-----------------------------------------------------------------------------
(***************************************************************************)
(* MemTable::get.                                                          *)
(***************************************************************************)
\* The loop over the immutable generations, newest first, given the latest of
\* the active one: the greatest sequence number wins.
latest_of(key, found) ==
    LET hits == {found} \cup {find_latest_by_key(driver, queue[i].table, key) : i \in DOMAIN queue}
    IN CHOOSE n \in hits : \A m \in hits : m <= n

\* A lookup that runs undisturbed.
lookup(key) == latest_of(key, find_latest_by_key(driver, active.table, key))

newest_version(key) ==
    LET versions == {n \in Node : version(n, key)} \cup {Nil}
    IN CHOOSE n \in versions : \A m \in versions : m <= n

\* Lookups share the lock, or come one at a time.
MayLook == IF driver \in Serialized THEN Unlocked ELSE calls <= MaxShared

Get(r, key) ==
    /\ readers[r].phase = "idle"
    /\ MayLook
    /\ readers' = [readers EXCEPT ![r] =
            [phase |-> "search", key |-> key, at |-> search_begin(driver, active.table),
             since |-> newest_version(key)]]
    /\ UNCHANGED <<driver, active, queue, next_id, flushers, published, arena, bytes, strays>>

\* find_latest_by_key of the active generation: one turn of its loop.
Search(r) ==
    /\ readers[r].phase = "search"
    /\ readers[r].at.current # Nil
    /\ readers' = [readers EXCEPT ![r].at =
            search_turn(driver, active.table, readers[r].key, @)]
    /\ UNCHANGED <<driver, active, queue, next_id, flushers, published, arena, bytes, strays>>

\* The node that a lookup of a SplayTree brings to the root: the one found, or
\* the last one visited.
splayed(at) == IF driver # "SplayTree" THEN Nil ELSE IF at.found = Nil THEN at.last ELSE at.found

\* One turn of that splay.
Splay(r) ==
    LET n == splayed(readers[r].at)
    IN /\ readers[r].phase = "search"
       /\ readers[r].at.current = Nil
       /\ n # Nil /\ active.table.parent[n] # Nil
       /\ active' = [active EXCEPT !.table = splay_step(@, n)]
       /\ UNCHANGED <<driver, queue, next_id, readers, flushers, published, arena, bytes, strays>>

\* The rest of MemTable::get, which reads what only the exclusive lock changes.
Immutables(r) ==
    /\ readers[r].phase = "search"
    /\ readers[r].at.current = Nil
    /\ LET n == splayed(readers[r].at) IN n # Nil => active.table.parent[n] = Nil
    /\ readers' = [readers EXCEPT ![r].phase = "done",
                                  ![r].at.found = latest_of(readers[r].key, @)]
    /\ UNCHANGED <<driver, active, queue, next_id, flushers, published, arena, bytes, strays>>

Unlock(r) ==
    /\ readers[r].phase = "done"
    /\ readers' = [readers EXCEPT ![r] = IdleReader]
    /\ UNCHANGED <<driver, active, queue, next_id, flushers, published, arena, bytes, strays>>

-----------------------------------------------------------------------------
(***************************************************************************)
(* Engine::flush_oldest_immutable as MemTable sees it: oldest_immutable,   *)
(* dump_oldest_immutable, publication and retire_oldest_immutable, each    *)
(* under its own lock.                                                     *)
(***************************************************************************)
Pin(f) ==
    /\ flushers[f].phase = "idle"
    /\ queue # <<>>
    /\ flushers' = [flushers EXCEPT ![f].phase = "pinned", ![f].id = queue[1].id]
    /\ UNCHANGED <<driver, active, queue, next_id, readers, published, arena, bytes, strays>>

\* A mutant: the newest generation is dumped.
Publish_newest(f) ==
    /\ flushers[f].phase = "pinned"
    /\ queue # <<>>
    /\ published' = published \cup
            LET dump == dump_inorder(driver, queue[Len(queue)].table) IN {dump[i] : i \in DOMAIN dump}
    /\ flushers' = [flushers EXCEPT ![f].phase = "published"]
    /\ UNCHANGED <<driver, active, queue, next_id, readers, arena, bytes, strays>>

\* SSTableManager::build dumps the generation that is the oldest by now, and
\* finds none when it has been retired meanwhile; the table is then published.
Publish(f) ==
    /\ flushers[f].phase = "pinned"
    /\ queue # <<>>
    /\ published' = published \cup
            LET dump == dump_inorder(driver, queue[1].table) IN {dump[i] : i \in DOMAIN dump}
    /\ flushers' = [flushers EXCEPT ![f].phase = "published"]
    /\ UNCHANGED <<driver, active, queue, next_id, readers, arena, bytes, strays>>

\* There is nothing to dump, or the table cannot be built, written or committed.
PublishFails(f) ==
    /\ flushers[f].phase = "pinned"
    /\ flushers' = [flushers EXCEPT ![f] = IdleFlusher]
    /\ UNCHANGED <<driver, active, queue, next_id, readers, published, arena, bytes, strays>>

Retire(f) ==
    /\ Unlocked
    /\ flushers[f].phase = "published"
    /\ queue' = IF queue = <<>> \/ queue[1].id # flushers[f].id THEN queue ELSE Tail(queue)
    /\ flushers' = [flushers EXCEPT ![f] = IdleFlusher]
    /\ UNCHANGED <<driver, active, next_id, readers, published, arena, bytes, strays>>

-----------------------------------------------------------------------------
Next ==
    \/ \E key \in Key, drawn \in draws(driver) : Put(key, drawn)
    \/ \E key \in Key : PutFails(key) \/ PutUnsynced(key)
    \/ \E o \in Objects, memory \in BOOLEAN : \E built \in 0 .. o[3] : NewObjects(o, memory, built)
    \/ Freeze
    \/ \E r \in Readers, key \in Key : Get(r, key)
    \/ \E r \in Readers : Search(r) \/ Splay(r) \/ Immutables(r) \/ Unlock(r)
    \/ \E f \in Flushers : Pin(f) \/ Publish(f) \/ PublishFails(f) \/ Retire(f)

Spec == Init /\ [][Next]_vars

-----------------------------------------------------------------------------
\* The state has the shape above, and generations are numbered in the order in
\* which they were frozen.
TypeOK ==
    /\ driver \in DriverClasses
    /\ next_id \in Nat \ {0}
    /\ \A i \in DOMAIN queue : queue[i].id \in 1 .. next_id - 1 /\ queue[i].members \subseteq Node
    /\ \A i \in 1 .. Len(queue) - 1 : queue[i].id < queue[i + 1].id
    /\ \A r \in Readers : readers[r].phase \in {"idle", "search", "done"}
    /\ \A f \in Flushers : flushers[f].phase \in {"idle", "pinned", "published"}
    /\ published \subseteq Node
    /\ strays \in 0 .. MaxCalls[driver]

\* While no lookup holds the lock, every generation passes its class's own
\* validate() and lists each record it was given exactly once, in the order
\* SSTableBuilder asks for, whatever rotations, recolourings, random priorities
\* and heights, and splaying lookups made of it.
DriversValid ==
    Unlocked => \A g \in generations :
        \A dump \in {dump_inorder(driver, g.table)} :
            /\ validate(driver, g.table, dump)
            /\ {dump[i] : i \in DOMAIN dump} = g.members

\* MemTable::get answers with a version of its key that is in memory and no
\* older than the newest one there when it began, and finds none only where
\* there was none, however lookups overlap under the shared lock.
GetSeesNewest ==
    /\ \A r \in Readers : readers[r].phase = "done" =>
          LET found == readers[r].at.found
          IN /\ found >= readers[r].since
             /\ found # Nil => version(found, readers[r].key)
    /\ Unlocked => \A key \in Key : lookup(key) = newest_version(key)

\* A record that was applied is in memory or in a published table, however the
\* steps of several flushes interleave with freezes: retire_oldest_immutable
\* only drops a generation whose records its caller has published.
NothingLost ==
    applied \subseteq published \cup UNION {g.members : g \in generations}

\* The bytes of the records in memory and the objects whose destructors are
\* registered lie in pages the arena still has, below the cursor and apart from
\* each other, whatever was rolled back in between: no two owners share a byte.
owners ==
    {<<"record", n, i>> : n \in UNION {g.members : g \in generations}, i \in {1, 2}}
    \cup {<<"object", i, 0>> : i \in DOMAIN arena.destructors}

place(o) == IF o[1] = "record" THEN bytes[o[2]][o[3]] ELSE arena.destructors[o[2]]

BytesBacked ==
    /\ \A o \in owners : backed(arena, place(o))
    /\ \A o, u \in owners : o # u => apart(place(o), place(u))
=============================================================================
