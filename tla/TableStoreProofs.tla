-------------------------- MODULE TableStoreProofs --------------------------
(***************************************************************************)
(* Publication of table files, for every size of block and of table, every *)
(* set of memtables and any number of failures, crashes and damages: a     *)
(* table the catalog names, or a compaction is about to enter into it, is  *)
(* whole at its final path, on the medium and in the directory.            *)
(*                                                                         *)
(* What the sections contain plays no part, so the operators of TableFile  *)
(* stay unexpanded.                                                        *)
(***************************************************************************)
EXTENDS TableStore, TLAPS

IsFile(f) ==
    /\ f = [blocks |-> f.blocks, synced |-> f.synced, linked |-> f.linked, there |-> f.there]
    /\ f.synced \in BOOLEAN /\ f.linked \in BOOLEAN /\ f.there \in BOOLEAN

IsJob(j) ==
    j = [phase |-> j.phase, its |-> j.its, heap |-> j.heap, valid |-> j.valid, key |-> j.key,
         blocks |-> j.blocks, id |-> j.id, next |-> j.next, outputs |-> j.outputs]

Shapes ==
    /\ DOMAIN dumps = Inputs /\ DOMAIN wrote = Ids
    /\ DOMAIN tmp = Ids /\ DOMAIN final = Ids
    /\ \A id \in Ids : IsFile(tmp[id]) /\ IsFile(final[id])
    /\ live \subseteq Ids

complete(f, id) == f.there /\ same_but_damaged(f.blocks, encoded(id, wrote[id]))

\* What SSTable::write has achieved at each of its steps.
WorkInv ==
    work # NoWork =>
        /\ work = [id |-> work.id, step |-> work.step]
        /\ work.id \in Ids \ (live \cup finished)
        /\ work.step = "sync" => complete(tmp[work.id], work.id)
        /\ work.step = "rename" => complete(tmp[work.id], work.id) /\ tmp[work.id].synced
        /\ work.step = "directory" => complete(final[work.id], work.id) /\ final[work.id].synced
        /\ job = NoJob => work.id \in Inputs /\ dumps[work.id] # <<>>
        /\ job # NoJob => work.id = job.id /\ job.blocks # <<>>

\* The ids of a compaction are used once, and not while the catalog names them.
JobInv ==
    job # NoJob =>
        /\ IsJob(job)
        /\ Inputs \subseteq live
        /\ job.outputs \subseteq Outputs
        /\ job.outputs # {} => job.next \in Nat /\ \A o \in job.outputs : o < job.next
        /\ job.blocks # <<>> =>
              /\ job.id \in Outputs \ job.outputs
              /\ job.next \in Nat /\ job.id < job.next

\* A memtable that is still to be flushed has no table in the catalog, and
\* once a compaction has been committed there is nothing left to flush.
LiveInv ==
    /\ \A id \in Inputs : id \in live => dumps[id] = <<>>
    /\ live \cap Outputs # {} => live \cap Inputs = {} /\ \A id \in Inputs : dumps[id] = <<>>

StoreInv == Shapes /\ WorkInv /\ JobInv /\ LiveInv /\ PublishedWhole

-----------------------------------------------------------------------------
\* Ids are positive, and those of inputs and outputs are disjoint.
LEMMA IdFacts ==
    /\ Ids \subseteq Nat \ {0} /\ Inputs \subseteq Ids /\ Outputs \subseteq Ids
    /\ Inputs # {} /\ Inputs \cap Outputs = {}
  BY TableStoreAssumption DEF Ids

\* No file, and a file written from blocks, are files.
LEMMA Files ==
    /\ IsFile(NoFile)
    /\ \A blocks : /\ IsFile(file_of(blocks))
                   /\ file_of(blocks).there /\ file_of(blocks).blocks = blocks
  BY DEF IsFile, NoFile, file_of

\* Before the first flush there is no file, no writer and no table in the catalog.
LEMMA InitStore == Init => StoreInv
  <1> SUFFICES ASSUME Init PROVE StoreInv
    OBVIOUS
  <1>1. live \cup finished = {}
    BY DEF Init, finished
  <1>2. Shapes
    BY Files DEF Init, Shapes
  <1>3. WorkInv /\ JobInv
    BY DEF Init, WorkInv, JobInv
  <1>4. LiveInv /\ PublishedWhole
    BY <1>1 DEF LiveInv, PublishedWhole
  <1> QED
    BY <1>2, <1>3, <1>4 DEF StoreInv

\* A step that leaves every variable of the invariant alone.
LEMMA Unaffected ==
    StoreInv /\ UNCHANGED <<dumps, wrote, tmp, final, live, work, job>> => StoreInv'
  BY DEF StoreInv, Shapes, WorkInv, JobInv, LiveInv, PublishedWhole, complete, finished, IsFile,
         IsJob, same_but_damaged

\* A flush or a compaction hands its blocks to SSTable::write under an id that
\* neither the catalog nor the compaction's outputs contain.
LEMMA StartsWrite ==
    ASSUME StoreInv, NEW id \in Ids \ (live \cup finished), NEW blocks, start_write(id, blocks),
           work = NoWork, UNCHANGED <<dumps, tmp, final, live>>,
           finished' = finished, JobInv',
           job' = NoJob => id \in Inputs /\ dumps[id] # <<>>,
           job' # NoJob => id = job'.id /\ job'.blocks # <<>>
    PROVE  StoreInv'
  <1>1. Ids \subseteq Nat \ {0}
    BY TableStoreAssumption DEF Ids
  <1>2. work' = [id |-> id, step |-> "sections"] /\ work' # NoWork
    BY <1>1 DEF start_write, NoWork
  <1>3. /\ DOMAIN wrote' = Ids
        /\ \A i \in Ids : i # id => wrote'[i] = wrote[i]
    BY DEF start_write, StoreInv, Shapes
  <1>4. Shapes' /\ LiveInv'
    BY <1>3 DEF StoreInv, Shapes, LiveInv
  <1>5. WorkInv'
    BY <1>2 DEF WorkInv
  <1>6. \A i \in live \cup finished : i \in Ids
    BY DEF StoreInv, Shapes, PublishedWhole, JobInv, finished, Ids
  <1>7. PublishedWhole'
    BY <1>3, <1>6 DEF StoreInv, PublishedWhole
  <1> QED
    BY <1>4, <1>5, <1>7 DEF StoreInv

\* While a compaction runs, the catalog names none of the ids it may use.
LEMMA OutputsNotLive ==
    StoreInv => /\ finished \subseteq Outputs
                /\ job # NoJob => live \cap Outputs = {}
                /\ live \cap finished = {}
  BY Zenon, IdFacts DEF StoreInv, JobInv, LiveInv, finished

\* A compaction's step that writes nothing.
LEMMA JobStep ==
    ASSUME StoreInv, work = NoWork, UNCHANGED <<dumps, wrote, tmp, final, live, work>>,
           JobInv', finished' \subseteq finished
    PROVE  StoreInv'
  <1>1. Shapes' /\ LiveInv' /\ WorkInv'
    BY DEF StoreInv, Shapes, LiveInv, WorkInv
  <1>2. PublishedWhole'
    BY DEF StoreInv, PublishedWhole
  <1> QED
    BY <1>1, <1>2 DEF StoreInv

\* A failed write, or a failed merge, with the files that are left.
LEMMA Abandons ==
    ASSUME StoreInv, Abandon(final), UNCHANGED <<dumps, wrote, live>>,
           DOMAIN tmp' = Ids, \A id \in Ids : IsFile(tmp'[id])
    PROVE  StoreInv'
  <1>1. /\ DOMAIN final' = Ids
        /\ \A id \in Ids : final'[id] = IF id \in finished THEN NoFile ELSE final[id]
        /\ job' = NoJob /\ work' = NoWork /\ finished' = {}
    BY DEF Abandon, removed, finished
  <1>2. \A id \in live : id \in Ids /\ final'[id] = final[id]
    BY <1>1, OutputsNotLive DEF StoreInv, Shapes
  <1>3. Shapes'
    BY <1>1, Files DEF StoreInv, Shapes
  <1>4. WorkInv' /\ JobInv' /\ LiveInv'
    BY <1>1 DEF StoreInv, WorkInv, JobInv, LiveInv
  <1>5. PublishedWhole'
    BY <1>1, <1>2 DEF StoreInv, PublishedWhole
  <1> QED
    BY <1>3, <1>4, <1>5 DEF StoreInv

-----------------------------------------------------------------------------
\* SSTable::write.
LEMMA BuildKeeps ==
    ASSUME StoreInv, NEW id \in Inputs, Build(id)
    PROVE  StoreInv'
  <1>1. id \in Ids \ (live \cup finished)
    BY IdFacts DEF Build, StoreInv, LiveInv, finished
  <1>2. finished' = finished /\ JobInv' /\ job' = NoJob /\ dumps[id] # <<>>
    BY DEF Build, finished, JobInv
  <1> QED
    BY <1>1, <1>2, StartsWrite DEF Build

\* The steps between the start of a write and its last touch only the files of
\* the id being written, which nothing published shares.
LEMMA WriteStep ==
    ASSUME StoreInv, work # NoWork, UNCHANGED <<dumps, wrote, live, job>>,
           DOMAIN tmp' = Ids, DOMAIN final' = Ids,
           \A id \in Ids : IsFile(tmp'[id]) /\ IsFile(final'[id]),
           \A id \in Ids \ {work.id} : final'[id] = final[id],
           work' = [id |-> work.id, step |-> work'.step],
           work'.step = "sync" => complete(tmp'[work.id], work.id),
           work'.step = "rename" => complete(tmp'[work.id], work.id) /\ tmp'[work.id].synced,
           work'.step = "directory" =>
               complete(final'[work.id], work.id) /\ final'[work.id].synced
    PROVE  StoreInv'
  <1>1. finished' = finished /\ work'.id = work.id
    BY DEF finished
  <1>2. Shapes' /\ JobInv' /\ LiveInv'
    BY DEF StoreInv, Shapes, JobInv, LiveInv
  <1>3. WorkInv'
    BY <1>1 DEF StoreInv, WorkInv, complete
  <1>4. \A id \in live \cup finished : id \in Ids \ {work.id}
    BY IdFacts, OutputsNotLive DEF StoreInv, Shapes, WorkInv
  <1>5. PublishedWhole'
    BY <1>1, <1>4 DEF StoreInv, PublishedWhole
  <1> QED
    BY <1>2, <1>3, <1>5 DEF StoreInv

\* Writing the sections completes the temporary file.
LEMMA WriteSectionsKeeps == StoreInv /\ WriteSections => StoreInv'
  <1> SUFFICES ASSUME StoreInv, WriteSections PROVE StoreInv'
    OBVIOUS
  <1>1. work # NoWork /\ work = [id |-> work.id, step |-> work.step] /\ work.id \in Ids
    BY DEF WriteSections, writing, StoreInv, WorkInv
  <1>2. work' = [id |-> work.id, step |-> "sync"]
    BY <1>1 DEF WriteSections
  <1>3. /\ tmp'[work.id] = file_of(encoded(work.id, wrote[work.id]))
        /\ DOMAIN tmp' = Ids
        /\ \A id \in Ids : IsFile(tmp'[id])
    BY <1>1, Files DEF WriteSections, StoreInv, Shapes
  <1>4. complete(tmp'[work.id], work.id)
    BY <1>3, Files DEF complete, same_but_damaged
  <1>5. /\ UNCHANGED <<dumps, wrote, live, job, final>> /\ DOMAIN final' = Ids
        /\ \A id \in Ids : IsFile(final'[id])
    BY DEF WriteSections, StoreInv, Shapes
  <1> QED
    BY <1>1, <1>2, <1>3, <1>4, <1>5, WriteStep

\* A write that stops part-way leaves a temporary file nobody names.
LEMMA WriteFailsKeeps == StoreInv /\ WriteFails => StoreInv'
  <1> SUFFICES ASSUME StoreInv, WriteFails PROVE StoreInv'
    OBVIOUS
  <1>1. PICK n \in 0 .. write_reaches(wrote[work.id]) :
            tmp' = [tmp EXCEPT ![work.id] =
                file_of(SubSeq(encoded(work.id, wrote[work.id]), 1, n))]
    BY Zenon DEF WriteFails
  <1>2. DOMAIN tmp' = Ids /\ \A id \in Ids : IsFile(tmp'[id])
    BY <1>1, Files DEF StoreInv, Shapes
  <1> QED
    BY <1>2, Abandons DEF WriteFails

\* The temporary file is complete when it is synced.
LEMMA SyncTableKeeps == StoreInv /\ SyncTable => StoreInv'
  <1> SUFFICES ASSUME StoreInv, SyncTable PROVE StoreInv'
    OBVIOUS
  <1>1. /\ work # NoWork /\ work = [id |-> work.id, step |-> work.step] /\ work.id \in Ids
        /\ complete(tmp[work.id], work.id)
    BY DEF SyncTable, writing, StoreInv, WorkInv
  <1>2. work' = [id |-> work.id, step |-> "rename"]
    BY <1>1 DEF SyncTable
  <1>3. /\ DOMAIN tmp' = Ids
        /\ \A id \in Ids \ {work.id} : tmp'[id] = tmp[id]
        /\ tmp'[work.id] = [tmp[work.id] EXCEPT !.synced = TRUE]
    BY <1>1 DEF SyncTable, StoreInv, Shapes
  <1>4. /\ IsFile(tmp'[work.id]) /\ tmp'[work.id].synced
        /\ tmp'[work.id].there = tmp[work.id].there
        /\ tmp'[work.id].blocks = tmp[work.id].blocks
    BY Zenon, <1>1, <1>3 DEF StoreInv, Shapes, IsFile
  <1>5. complete(tmp'[work.id], work.id)
    BY <1>1, <1>4 DEF complete
  <1>6. /\ UNCHANGED <<dumps, wrote, live, job, final>> /\ DOMAIN final' = Ids
        /\ \A id \in Ids : IsFile(final'[id]) /\ IsFile(tmp'[id])
    BY <1>3, <1>4 DEF SyncTable, StoreInv, Shapes
  <1> QED
    BY <1>1, <1>2, <1>3, <1>4, <1>5, <1>6, WriteStep

\* A complete, synced file reaches the final path.
LEMMA RenameTableKeeps == StoreInv /\ RenameTable => StoreInv'
  <1> SUFFICES ASSUME StoreInv, RenameTable PROVE StoreInv'
    OBVIOUS
  <1>1. /\ work # NoWork /\ work = [id |-> work.id, step |-> work.step] /\ work.id \in Ids
        /\ complete(tmp[work.id], work.id) /\ tmp[work.id].synced
    BY DEF RenameTable, writing, StoreInv, WorkInv
  <1>2. work' = [id |-> work.id, step |-> "directory"]
    BY <1>1 DEF RenameTable
  <1>3. /\ DOMAIN tmp' = Ids /\ DOMAIN final' = Ids
        /\ \A id \in Ids : IsFile(tmp'[id]) /\ IsFile(final'[id])
        /\ \A id \in Ids \ {work.id} : final'[id] = final[id]
        /\ final'[work.id] = tmp[work.id]
    BY <1>1, Files DEF RenameTable, StoreInv, Shapes
  <1>4. UNCHANGED <<dumps, wrote, live, job>>
    BY DEF RenameTable
  <1> QED
    BY <1>1, <1>2, <1>3, <1>4, WriteStep

\* A failing sync or rename gives the table up before the catalog names it.
LEMMA PublishFailsKeeps == StoreInv /\ (PublishFails \/ SyncDirectoryFails) => StoreInv'
  BY Abandons DEF PublishFails, SyncDirectoryFails, StoreInv, Shapes

\* The last step of a write enters its table into the catalog, or into the
\* outputs of the compaction.
LEMMA SyncDirectoryKeeps == StoreInv /\ SyncDirectory => StoreInv'
  <1> SUFFICES ASSUME StoreInv, SyncDirectory PROVE StoreInv'
    OBVIOUS
  <1>1. /\ work # NoWork /\ work.id \in Ids \ (live \cup finished)
        /\ complete(final[work.id], work.id) /\ final[work.id].synced
        /\ job = NoJob => work.id \in Inputs
        /\ job # NoJob => work.id = job.id /\ job.blocks # <<>>
    BY DEF SyncDirectory, writing, StoreInv, WorkInv
  <1>2. /\ DOMAIN final' = Ids
        /\ \A id \in Ids : final'[id] = [final[id] EXCEPT !.linked = final[id].there]
    BY DEF SyncDirectory
  <1>3. \A id \in Ids :
            /\ IsFile(final'[id]) /\ final'[id].linked = final[id].there
            /\ final'[id].there = final[id].there /\ final'[id].synced = final[id].synced
            /\ final'[id].blocks = final[id].blocks
    BY <1>2 DEF StoreInv, Shapes, IsFile
  <1>4. work' = NoWork /\ wrote' = wrote /\ tmp' = tmp
    BY DEF SyncDirectory
  <1>5. \A id \in live \cup finished \cup {work.id} :
            /\ id \in Ids
            /\ final[id].there /\ final[id].synced
            /\ same_but_damaged(final[id].blocks, encoded(id, wrote[id]))
    BY <1>1, IdFacts, OutputsNotLive DEF StoreInv, Shapes, PublishedWhole, complete
  <1>6. CASE job = NoJob
    <2>1. /\ live' = live \cup {work.id} /\ job' = NoJob
          /\ dumps' = [dumps EXCEPT ![work.id] = <<>>]
          /\ finished = {} /\ finished' = {}
      BY <1>6 DEF SyncDirectory, finished
    <2>2. DOMAIN dumps' = Inputs /\ dumps'[work.id] = <<>>
          /\ \A id \in Inputs \ {work.id} : dumps'[id] = dumps[id]
      BY <1>1, <1>6, <2>1 DEF StoreInv, Shapes
    <2>3. Shapes'
      BY <1>1, <1>2, <1>3, <1>4, <2>1, <2>2 DEF StoreInv, Shapes
    <2>4. WorkInv' /\ JobInv'
      BY <1>4, <2>1 DEF WorkInv, JobInv
    <2>5. live \cap Outputs = {}
      BY <1>1, <1>6 DEF StoreInv, LiveInv, WorkInv
    <2>6. LiveInv'
      BY <1>1, <1>6, <2>1, <2>2, <2>5, IdFacts DEF StoreInv, LiveInv
    <2>7. PublishedWhole'
      BY <1>3, <1>4, <1>5, <2>1 DEF PublishedWhole
    <2> QED
      BY <2>3, <2>4, <2>6, <2>7 DEF StoreInv
  <1>7. CASE job # NoJob
    <2>1. /\ job' = [job EXCEPT !.outputs = @ \cup {work.id}, !.blocks = <<>>]
          /\ dumps' = dumps /\ live' = live
      BY <1>7 DEF SyncDirectory
    <2>2. /\ IsJob(job') /\ job'.outputs = job.outputs \cup {work.id}
          /\ job'.blocks = <<>> /\ job'.next = job.next
      BY Zenon, <1>7, <2>1 DEF StoreInv, JobInv, IsJob
    <2>3. JobInv'
      BY <1>1, <1>7, <2>1, <2>2 DEF StoreInv, JobInv
    <2>4. finished' \subseteq finished \cup {work.id}
      BY <1>7, <2>2 DEF finished
    <2>5. Shapes' /\ WorkInv' /\ LiveInv'
      BY <1>2, <1>3, <1>4, <2>1 DEF StoreInv, Shapes, WorkInv, LiveInv
    <2>6. PublishedWhole'
      BY <1>3, <1>4, <1>5, <2>1, <2>4 DEF PublishedWhole
    <2> QED
      BY <2>3, <2>5, <2>6 DEF StoreInv
  <1> QED
    BY <1>6, <1>7

-----------------------------------------------------------------------------
(***************************************************************************)
(* The compaction.  The merge changes its iterators only; the builder      *)
(* takes an id above every id used so far.                                 *)
(***************************************************************************)
LEMMA JobIsRecord == \A j : IsJob(j) => j # NoJob
  <1> SUFFICES ASSUME NEW j, IsJob(j) PROVE j # NoJob
    OBVIOUS
  <1>1. "its" \in DOMAIN j /\ "its" \notin DOMAIN NoJob
    BY DEF IsJob, NoJob
  <1> QED
    BY <1>1

SameIds(m, j) ==
    IsJob(m) /\ m.blocks = j.blocks /\ m.id = j.id /\ m.next = j.next /\ m.outputs = j.outputs

\* Building the heap and taking its next record leave the job's ids alone.
LEMMA Merges ==
    ASSUME NEW j, IsJob(j), NEW x, NEW m, m = merge_build(j, x) \/ m = merge_next(j, x)
    PROVE  SameIds(m, j)
  <1>1. CASE m = merge_build(j, x)
    <2>1. PICK its, heap, valid :
              m = [j EXCEPT !.its = its, !.heap = heap, !.valid = valid, !.phase = "loop"]
      BY Zenon, <1>1 DEF merge_build
    <2> QED
      BY Zenon, <2>1 DEF IsJob, SameIds
  <1>2. CASE m = merge_next(j, x) /\ ~j.valid
    BY <1>2 DEF merge_next, SameIds
  <1>3. CASE m = merge_next(j, x) /\ j.valid
    <2>1. PICK id, it, heap, valid :
              m = [j EXCEPT !.its[id] = it, !.heap = heap, !.valid = valid]
      BY Zenon, <1>3 DEF merge_next
    <2>2. m = [j EXCEPT !.its = [j.its EXCEPT ![id] = it], !.heap = heap, !.valid = valid]
      BY <2>1
    <2> QED
      BY Zenon, <2>2 DEF IsJob, SameIds
  <1> QED
    BY <1>1, <1>2, <1>3

\* So does going on to another phase.
LEMMA Phases ==
    ASSUME NEW j, NEW m, SameIds(m, j), NEW phase, NEW n, n = [m EXCEPT !.phase = phase]
    PROVE  SameIds(n, j)
  BY DEF IsJob, SameIds

\* The merge moves on, and the job's ids stay as they were.
LEMMA JobKeeps ==
    ASSUME StoreInv, job # NoJob, live' = live, SameIds(job', job)
    PROVE  JobInv' /\ finished' = finished
  BY JobIsRecord DEF StoreInv, JobInv, finished, SameIds

\* A compaction starts with no outputs, over inputs in the catalog.
LEMMA StartCompactionKeeps == StoreInv /\ StartCompaction => StoreInv'
  <1> SUFFICES ASSUME StoreInv, StartCompaction PROVE StoreInv'
    OBVIOUS
  <1>1. IsJob(job') /\ job'.outputs = {} /\ job'.blocks = <<>>
    BY DEF StartCompaction, IsJob
  <1>2. JobInv' /\ finished' = {}
    BY Zenon, <1>1, JobIsRecord DEF StartCompaction, JobInv, finished
  <1> QED
    BY <1>2, JobStep DEF StartCompaction

\* Opening the iterators writes nothing.
LEMMA BuildMergeKeeps == StoreInv /\ BuildMerge => StoreInv'
  <1> SUFFICES ASSUME StoreInv, BuildMerge PROVE StoreInv'
    OBVIOUS
  <1>1. job # NoJob /\ IsJob(job)
    BY DEF BuildMerge, NoJob, StoreInv, JobInv
  <1>2. PICK bad : job' = merge_build(job, bad)
    BY DEF BuildMerge
  <1>3. SameIds(job', job)
    BY <1>1, <1>2, Merges
  <1>4. JobInv' /\ finished' = finished
    BY <1>1, <1>3, JobKeeps DEF BuildMerge
  <1> QED
    BY <1>4, JobStep DEF BuildMerge

\* Skipping an older version of a key writes nothing.
LEMMA SkipOlderKeeps == StoreInv /\ SkipOlder => StoreInv'
  <1> SUFFICES ASSUME StoreInv, SkipOlder PROVE StoreInv'
    OBVIOUS
  <1>1. job # NoJob /\ IsJob(job)
    BY DEF SkipOlder, NoJob, StoreInv, JobInv
  <1>2. PICK fails : job' = [merge_next(job, fails) EXCEPT !.phase = "older"]
    BY DEF SkipOlder, Advance
  <1>3. SameIds(merge_next(job, fails), job)
    BY <1>1, Merges
  <1>4. SameIds(job', job)
    BY <1>2, <1>3, Phases
  <1>5. JobInv' /\ finished' = finished
    BY <1>1, <1>4, JobKeeps DEF SkipOlder
  <1> QED
    BY <1>5, JobStep DEF SkipOlder

added(j, r, key) == [add_output(j, r) EXCEPT !.key = key]

\* The builder's id, when it changes, is the next one.
LEMMA Adds ==
    ASSUME NEW j, IsJob(j), NEW r, NEW key, NEW n, n = added(j, r, key)
    PROVE  /\ IsJob(n) /\ n.outputs = j.outputs
           /\ \/ n.blocks = j.blocks /\ n.id = j.id /\ n.next = j.next
              \/ j.blocks # <<>> /\ n.id = j.id /\ n.next = j.next
              \/ /\ compaction_keep_newest_record(r) /\ j.blocks = <<>>
                 /\ n.id = j.next /\ n.next = j.next + 1
  <1>0. PICK m : m = add_output(j, r) /\ n = [m EXCEPT !.key = key]
    BY DEF added
  <1>1. /\ IsJob(m) /\ m.outputs = j.outputs
        /\ \/ m.blocks = j.blocks /\ m.id = j.id /\ m.next = j.next
           \/ j.blocks # <<>> /\ m.id = j.id /\ m.next = j.next
           \/ /\ compaction_keep_newest_record(r) /\ j.blocks = <<>>
              /\ m.id = j.next /\ m.next = j.next + 1
    <2>1. CASE ~compaction_keep_newest_record(r)
      BY <1>0, <2>1 DEF add_output
    <2>2. CASE compaction_keep_newest_record(r) /\ j.blocks = <<>>
      <3>1. m = [j EXCEPT !.blocks = add_payload(<<>>, r), !.id = j.next, !.next = j.next + 1]
        BY <1>0, <2>2 DEF add_output
      <3> QED
        BY Zenon, <2>2, <3>1 DEF IsJob
    <2>3. CASE compaction_keep_newest_record(r) /\ j.blocks # <<>>
      <3>1. m = [j EXCEPT !.blocks = add_payload(j.blocks, r)]
        BY <1>0, <2>3 DEF add_output
      <3> QED
        BY <2>3, <3>1 DEF IsJob
    <2> QED
      BY <2>1, <2>2, <2>3
  <1>2. /\ IsJob(n) /\ n.outputs = m.outputs /\ n.blocks = m.blocks
        /\ n.id = m.id /\ n.next = m.next
    BY <1>0, <1>1 DEF IsJob
  <1> QED
    BY <1>1, <1>2

\* The first record of an output takes a new id; later ones join it.
LEMMA TakeNewestKeeps == StoreInv /\ TakeNewest => StoreInv'
  <1> SUFFICES ASSUME StoreInv, TakeNewest PROVE StoreInv'
    OBVIOUS
  <1>1. job # NoJob /\ IsJob(job)
    BY DEF TakeNewest, NoJob, StoreInv, JobInv
  <1>2. PICK r, key, j :
            /\ compaction_keep_newest_record(r) => (job.blocks = <<>> => job.next \in Outputs)
            /\ j = added(job, r, key)
            /\ Advance(j, "older")
    BY Zenon DEF TakeNewest, added
  <1>3. /\ IsJob(j) /\ j.outputs = job.outputs
        /\ \/ j.blocks = job.blocks /\ j.id = job.id /\ j.next = job.next
           \/ job.blocks # <<>> /\ j.id = job.id /\ j.next = job.next
           \/ /\ compaction_keep_newest_record(r) /\ job.blocks = <<>>
              /\ j.id = job.next /\ j.next = job.next + 1
    BY <1>1, <1>2, Adds
  <1>4. /\ IsJob(j) /\ j.outputs = job.outputs
        /\ \/ j.blocks = job.blocks /\ j.id = job.id /\ j.next = job.next
           \/ job.blocks # <<>> /\ j.id = job.id /\ j.next = job.next
           \/ job.next \in Outputs /\ j.id = job.next /\ j.next = job.next + 1
    BY <1>2, <1>3, Zenon
  <1>5. PICK fails : job' = [merge_next(j, fails) EXCEPT !.phase = "older"]
    BY <1>2 DEF Advance
  <1>6. SameIds(merge_next(j, fails), j)
    BY <1>4, Merges
  <1>7. SameIds(job', j)
    BY <1>5, <1>6, Phases
  <1>8. Outputs \subseteq Nat /\ live' = live
    BY IdFacts DEF TakeNewest
  <1>9. JobInv'
    <2>1. /\ IsJob(job') /\ job'.blocks = j.blocks /\ job'.id = j.id
          /\ job'.next = j.next /\ job'.outputs = job.outputs
      BY <1>4, <1>7, Zenon DEF SameIds
    <2>2. /\ Inputs \subseteq live' /\ job.outputs \subseteq Outputs
          /\ job.outputs # {} => job.next \in Nat /\ \A o \in job.outputs : o < job.next
          /\ job.blocks # <<>> =>
                /\ job.id \in Outputs \ job.outputs
                /\ job.next \in Nat /\ job.id < job.next
      BY <1>1, <1>8 DEF StoreInv, JobInv
    <2> HIDE <1>1, <1>2, <1>3, <1>5, <1>6, <1>7
    <2>3. \A o \in job.outputs : o \in Nat
      BY Zenon, <1>8, <2>2
    <2>4. ASSUME job.next \in Outputs
          PROVE  /\ job.next \notin job.outputs
                 /\ job.next + 1 \in Nat /\ job.next < job.next + 1
                 /\ \A o \in job.outputs : o < job.next + 1
      <3>1. PICK k \in Nat : k = job.next
        BY Zenon, <1>8, <2>4
      <3>2. \A o \in job.outputs : o \in Nat /\ o < k
        BY <2>2, <2>3, <3>1
      <3>3. k \notin job.outputs /\ k + 1 \in Nat /\ k < k + 1
        BY <3>2
      <3>4. \A o \in job.outputs : o < k + 1
        BY <3>2
      <3> QED
        BY <3>1, <3>3, <3>4
    <2>5. /\ j.next \in Nat \/ (j.blocks = <<>> /\ job.outputs = {})
          /\ \A o \in job.outputs : o < j.next
      <3>1. CASE j.next = job.next /\ (j.blocks = job.blocks \/ job.blocks # <<>>)
        BY <2>2, <3>1
      <3>2. CASE job.next \in Outputs /\ j.next = job.next + 1
        BY <2>4, <3>2
      <3> QED
        BY <1>4, <3>1, <3>2
    <2>6. j.blocks # <<>> => j.id \in Outputs \ job.outputs /\ j.next \in Nat /\ j.id < j.next
      <3>1. CASE j.id = job.id /\ j.next = job.next /\ (j.blocks = job.blocks \/ job.blocks # <<>>)
        BY <2>2, <3>1
      <3>2. CASE job.next \in Outputs /\ j.id = job.next /\ j.next = job.next + 1
        BY <2>4, <3>2
      <3> QED
        BY <1>4, <3>1, <3>2
    <2> QED
      BY <2>1, <2>2, <2>5, <2>6 DEF JobInv
  <1>10. finished' = finished
    BY <1>1, <1>4, <1>7, JobIsRecord DEF finished, SameIds
  <1> QED
    BY <1>9, <1>10, JobStep DEF TakeNewest

\* Finishing an output starts its write, under the builder's id.
LEMMA FinishesOutput ==
    ASSUME StoreInv, work = NoWork, job # NoJob, SameIds(job', job),
           UNCHANGED <<dumps, tmp, final, live>>,
           \/ job.blocks # <<>> /\ start_write(job.id, job.blocks)
           \/ UNCHANGED <<work, wrote>>
    PROVE  StoreInv'
  <1>1. JobInv' /\ finished' = finished
    BY JobKeeps
  <1>2. CASE UNCHANGED <<work, wrote>>
    BY <1>1, <1>2, JobStep
  <1>3. CASE job.blocks # <<>> /\ start_write(job.id, job.blocks)
    <2>1. job.id \in Outputs /\ job.id \notin job.outputs
      BY <1>3 DEF StoreInv, JobInv
    <2>2. job.id \in Ids \ (live \cup finished)
      BY Zenon, <2>1, IdFacts, OutputsNotLive DEF finished
    <2>3. job' # NoJob /\ job'.id = job.id /\ job'.blocks # <<>>
      BY <1>3, JobIsRecord DEF SameIds
    <2> QED
      BY <1>1, <1>3, <2>2, <2>3, StartsWrite
  <1> QED
    BY <1>2, <1>3

\* An output that is full, and the last one, are handed to the writer.
LEMMA RollOutputKeeps == StoreInv /\ (RollOutput \/ FinishMerge) => StoreInv'
  <1> SUFFICES ASSUME StoreInv, RollOutput \/ FinishMerge PROVE StoreInv'
    OBVIOUS
  <1>1. job # NoJob /\ IsJob(job) /\ work = NoWork
    BY DEF RollOutput, FinishMerge, NoJob, StoreInv, JobInv
  <1>2. SameIds(job, job)
    BY <1>1 DEF SameIds
  <1>3. PICK phase : job' = [job EXCEPT !.phase = phase]
    BY DEF RollOutput, FinishMerge
  <1>4. SameIds(job', job)
    BY <1>2, <1>3, Phases
  <1>5. /\ UNCHANGED <<dumps, tmp, final, live>>
        /\ \/ job.blocks # <<>> /\ start_write(job.id, job.blocks)
           \/ UNCHANGED <<work, wrote>>
    BY DEF RollOutput, FinishMerge, full
  <1> QED
    BY <1>1, <1>4, <1>5, FinishesOutput

\* A merge that fails gives its outputs up.
LEMMA FailMergeKeeps == StoreInv /\ FailMerge => StoreInv'
  BY Abandons DEF FailMerge, StoreInv, Shapes, IsFile

\* The commit exchanges the inputs for outputs that are all published.
LEMMA CommitCompactionKeeps == StoreInv /\ CommitCompaction => StoreInv'
  <1> SUFFICES ASSUME StoreInv, CommitCompaction PROVE StoreInv'
    OBVIOUS
  <1>1. job # NoJob /\ Inputs \subseteq live /\ finished = job.outputs
    BY DEF CommitCompaction, NoJob, StoreInv, JobInv, finished
  <1>2. /\ DOMAIN final' = Ids
        /\ \A id \in Ids : final'[id] = IF id \in Inputs THEN NoFile ELSE final[id]
    BY DEF CommitCompaction, removed
  <1>3. /\ live' = (live \ Inputs) \cup finished /\ finished' = {}
        /\ UNCHANGED <<dumps, wrote, tmp>> /\ work' = NoWork /\ job' = NoJob
    BY <1>1 DEF CommitCompaction, finished
  <1>4. finished \subseteq Outputs
    BY OutputsNotLive
  <1>5. Shapes'
    BY Zenon, <1>2, <1>3, <1>4, Files, IdFacts DEF StoreInv, Shapes
  <1>6. WorkInv' /\ JobInv'
    BY <1>3 DEF WorkInv, JobInv
  <1>7. \A id \in Inputs : id \notin live' /\ dumps'[id] = <<>>
    BY <1>1, <1>3, <1>4, IdFacts DEF StoreInv, LiveInv
  <1>8. LiveInv'
    BY <1>7 DEF LiveInv
  <1>9. PublishedWhole'
    BY Zenon, <1>2, <1>3, <1>4, <1>7, IdFacts DEF StoreInv, Shapes, PublishedWhole
  <1> QED
    BY <1>5, <1>6, <1>8, <1>9 DEF StoreInv

-----------------------------------------------------------------------------
(***************************************************************************)
(* The environment.                                                        *)
(***************************************************************************)
\* A process that starts again remembers no write and no compaction.
LEMMA Forgets ==
    ASSUME StoreInv, Forget, UNCHANGED <<dumps, wrote, live>>,
           DOMAIN tmp' = Ids, DOMAIN final' = Ids,
           \A id \in Ids : IsFile(tmp'[id]) /\ IsFile(final'[id]),
           \A id \in live : /\ final'[id].there /\ final'[id].synced /\ final'[id].linked
                            /\ final'[id].blocks = final[id].blocks
    PROVE  StoreInv'
  <1>1. work' = NoWork /\ job' = NoJob /\ finished' = {}
    BY DEF Forget, finished
  <1>2. Shapes' /\ WorkInv' /\ JobInv' /\ LiveInv'
    BY <1>1 DEF StoreInv, Shapes, WorkInv, JobInv, LiveInv
  <1>3. PublishedWhole'
    BY <1>1 DEF StoreInv, PublishedWhole
  <1> QED
    BY <1>2, <1>3 DEF StoreInv

\* A kill forgets the writer and the job and keeps the files.
LEMMA KillKeeps == StoreInv /\ Kill => StoreInv'
  <1> SUFFICES ASSUME StoreInv, Kill PROVE StoreInv'
    OBVIOUS
  <1>1. Forget /\ UNCHANGED <<dumps, wrote, tmp, final, live>>
    BY DEF Kill
  <1>2. \A id \in live : final[id].there /\ final[id].synced /\ final[id].linked
    BY DEF StoreInv, PublishedWhole
  <1>3. /\ DOMAIN tmp' = Ids /\ DOMAIN final' = Ids
        /\ \A id \in Ids : IsFile(tmp'[id]) /\ IsFile(final'[id])
    BY <1>1 DEF StoreInv, Shapes
  <1> QED
    BY <1>1, <1>2, <1>3, Forgets

\* What is synced and whose name is synced survives a power loss as it is.
LEMMA Survives ==
    ASSUME NEW file, IsFile(file), NEW f \in survivors(file)
    PROVE  /\ IsFile(f)
           /\ file.there /\ file.synced /\ file.linked =>
                f.there /\ f.synced /\ f.linked /\ f.blocks = file.blocks
  <1>1. CASE f = NoFile
    BY <1>1, Files DEF survivors
  <1>2. CASE f # NoFile
    <2>1. PICK blocks : f = [file EXCEPT !.blocks = blocks, !.synced = TRUE, !.linked = TRUE]
      BY Zenon, <1>2 DEF survivors
    <2>2. file.there /\ (file.synced => f.blocks = file.blocks)
      BY Zenon, <1>2 DEF survivors
    <2> QED
      BY Zenon, <2>1, <2>2 DEF IsFile
  <1> QED
    BY <1>1, <1>2

\* A power loss takes nothing from files that were synced and linked.
LEMMA PowerLossKeeps == StoreInv /\ PowerLoss => StoreInv'
  <1> SUFFICES ASSUME StoreInv, PowerLoss PROVE StoreInv'
    OBVIOUS
  <1>1. Forget /\ UNCHANGED <<dumps, wrote, live>>
    BY DEF PowerLoss
  <1>2. PICK id \in Ids :
            /\ \E t \in survivors(tmp[id]) : tmp' = [tmp EXCEPT ![id] = t]
            /\ \E f \in survivors(final[id]) : final' = [final EXCEPT ![id] = f]
    BY Zenon DEF PowerLoss
  <1>3. PICK t \in survivors(tmp[id]) : tmp' = [tmp EXCEPT ![id] = t]
    BY Zenon, <1>2
  <1>4. PICK f \in survivors(final[id]) : final' = [final EXCEPT ![id] = f]
    BY Zenon, <1>2
  <1>5. /\ IsFile(t) /\ IsFile(f)
        /\ final[id].there /\ final[id].synced /\ final[id].linked =>
             f.there /\ f.synced /\ f.linked /\ f.blocks = final[id].blocks
    BY Survives DEF StoreInv, Shapes
  <1>6. /\ DOMAIN tmp' = Ids /\ DOMAIN final' = Ids
        /\ final'[id] = f /\ \A i \in Ids \ {id} : final'[i] = final[i]
        /\ tmp'[id] = t /\ \A i \in Ids \ {id} : tmp'[i] = tmp[i]
    BY <1>3, <1>4 DEF StoreInv, Shapes
  <1>7. \A i \in Ids : IsFile(tmp'[i]) /\ IsFile(final'[i])
    BY <1>5, <1>6 DEF StoreInv, Shapes
  <1>8. \A i \in live : /\ final'[i].there /\ final'[i].synced /\ final'[i].linked
                        /\ final'[i].blocks = final[i].blocks
    BY <1>5, <1>6 DEF StoreInv, Shapes, PublishedWhole
  <1> QED
    BY <1>1, <1>6, <1>7, <1>8, Forgets

\* Damage changes what a block holds, not how many blocks there are.
LEMMA DamageKeeps == StoreInv /\ Damage => StoreInv'
  <1> SUFFICES ASSUME StoreInv, Damage PROVE StoreInv'
    OBVIOUS
  <1>0. PICK id \in live : \E n, block : final' = [final EXCEPT ![id].blocks[n] = block]
    BY Zenon DEF Damage
  <1>1. PICK n, block : final' = [final EXCEPT ![id].blocks[n] = block]
    BY Zenon, <1>0
  <1>2. /\ work = NoWork /\ job = NoJob
        /\ UNCHANGED <<dumps, wrote, tmp, live, work, job>>
    BY DEF Damage
  <1>3. id \in Ids
    BY DEF StoreInv, Shapes
  <1>4. PICK blocks : /\ final' = [final EXCEPT ![id] = [final[id] EXCEPT !.blocks = blocks]]
                      /\ DOMAIN blocks = DOMAIN final[id].blocks
    <2>1. final' = [final EXCEPT ![id] =
              [final[id] EXCEPT !.blocks = [final[id].blocks EXCEPT ![n] = block]]]
      BY <1>1
    <2>2. DOMAIN [final[id].blocks EXCEPT ![n] = block] = DOMAIN final[id].blocks
      OBVIOUS
    <2> QED
      BY Zenon, <2>1, <2>2
  <1>5. PICK f : f = [final[id] EXCEPT !.blocks = blocks]
    BY Zenon
  <1>6. /\ IsFile(f) /\ f.blocks = blocks /\ f.there = final[id].there
        /\ f.synced = final[id].synced /\ f.linked = final[id].linked
    BY <1>3, <1>5 DEF StoreInv, Shapes, IsFile
  <1>7. /\ DOMAIN final' = Ids /\ final'[id] = f
        /\ \A i \in Ids \ {id} : final'[i] = final[i]
    BY <1>3, <1>4, <1>5 DEF StoreInv, Shapes
  <1>8. Shapes'
    BY <1>2, <1>6, <1>7 DEF StoreInv, Shapes
  <1>9. WorkInv' /\ JobInv' /\ LiveInv' /\ finished' = {} /\ finished = {}
    BY <1>2 DEF StoreInv, WorkInv, JobInv, LiveInv, finished
  <1>10. PublishedWhole'
    BY <1>2, <1>3, <1>4, <1>6, <1>7, <1>9
       DEF StoreInv, Shapes, PublishedWhole, same_but_damaged
  <1> QED
    BY <1>8, <1>9, <1>10 DEF StoreInv

-----------------------------------------------------------------------------
\* Every step keeps the invariant.
LEMMA NextStore == StoreInv /\ [Next]_vars => StoreInv'
  <1> SUFFICES ASSUME StoreInv, [Next]_vars PROVE StoreInv'
    OBVIOUS
  <1>1. CASE \E id \in Inputs : Build(id)
    BY <1>1, BuildKeeps
  <1>2. CASE Write
    BY <1>2, WriteSectionsKeeps, WriteFailsKeeps, SyncTableKeeps, RenameTableKeeps,
       PublishFailsKeeps, SyncDirectoryKeeps DEF Write
  <1>3. CASE \/ \E id \in Ids, key \in Key : Lookup(id, key)
             \/ LookupNowhere
             \/ StartCompactionFails
             \/ UNCHANGED vars
    BY Zenon, <1>3, Unaffected DEF Lookup, LookupNowhere, StartCompactionFails, vars
  <1>4. CASE StartCompaction
    BY <1>4, StartCompactionKeeps
  <1>5. CASE Compact
    BY <1>5, BuildMergeKeeps, TakeNewestKeeps, SkipOlderKeeps, RollOutputKeeps, FailMergeKeeps,
       CommitCompactionKeeps DEF Compact
  <1>6. CASE Kill \/ PowerLoss \/ Damage
    BY <1>6, KillKeeps, PowerLossKeeps, DamageKeeps
  <1> QED
    BY <1>1, <1>2, <1>3, <1>4, <1>5, <1>6 DEF Next

\* A table that the catalog names, or that a compaction is about to enter, is
\* whole at its final path and would be after a power loss, whatever fails and
\* wherever the process stops: SSTable::write syncs the temporary file, renames
\* it and syncs the directory, in that order, before it returns success.
THEOREM PublishedTablesWhole == Spec => []PublishedWhole
  <1>1. StoreInv => PublishedWhole
    BY DEF StoreInv
  <1> QED
    BY <1>1, InitStore, NextStore, PTL DEF Spec
=============================================================================
