------------------------- MODULE EvidenceCacheProofs -------------------------
(***************************************************************************)
(* What a completed run cached outlives every later run and crash, save    *)
(* those that are given its target or crash in its month: for any targets, *)
(* months, evidence, and numbers of runs and crashes.                      *)
(***************************************************************************)
EXTENDS EvidenceCache, TLAPS

(* A file of a month has every row of a snapshot.                            *)
Holds(f, s) == RowsOf(s, f) \subseteq disk[f][MonthOf[s.target]].rows

(* The files still to be written, and the forms their sequence takes.        *)
Pending == {run.files[n] : n \in DOMAIN run.files}
Unwritten == {<<>>, <<"rows">>, <<"observations">>, <<"snapshots", "observations">>}

(* Every file of the cache has a content for every month.                    *)
Shaped == /\ DOMAIN disk = Names
          /\ \A f \in Names : DOMAIN disk[f] = Months

(* A run has what it was given and nothing kept of the same targets; of the  *)
(* months it is through with, all it was given is there; what it is about to *)
(* write has all it was given and all that is kept of the month.             *)
Fresh == \A s \in kept, i \in run.input : i.target # s.target
Progress ==
    \A s \in run.input : \A f \in FileSet :
        \/ MonthOf[s.target] \in run.todo
        \/ MonthOf[s.target] = run.month /\ f \in Pending
        \/ Holds(f, s)
Prepared ==
    run.files # <<>> =>
        /\ run.month \in Months
        /\ DOMAIN run.rows = FileSet
        /\ \A f \in FileSet : \A s \in kept \cup run.input :
              MonthOf[s.target] = run.month => RowsOf(s, f) \subseteq run.rows[f]
InProgress ==
    run # NoRun =>
        /\ run = [input |-> run.input, todo |-> run.todo, month |-> run.month,
                  files |-> run.files, rows |-> run.rows]
        /\ run.input \in Batches /\ run.todo \subseteq Months
        /\ run.files \in Unwritten /\ Pending \subseteq FileSet
        /\ Fresh /\ Progress /\ Prepared

CacheInv == /\ cache \in {"cross-section", "reference", "dvol"}
            /\ kept \subseteq CacheSnapshot
            /\ Shaped /\ InProgress /\ EvidenceOutlivesRuns

-----------------------------------------------------------------------------
(* The rows of a snapshot name its target and are of the current method.      *)
LEMMA RowsAreOfTheirTarget ==
    ASSUME NEW s, NEW f, NEW r \in RowsOf(s, f)
    PROVE  r.target = s.target /\ r.current = TRUE
  BY DEF RowsOf, CacheRow

(* What a run merges for a month has the rows of what it is given.            *)
LEMMA MergedHasTheGiven ==
    ASSUME NEW s \in run.input, NEW f \in FileSet
    PROVE  RowsOf(s, f) \subseteq Merged(MonthOf[s.target])[f]
  <1>1. RowsOf(s, f) \subseteq Incoming(MonthOf[s.target], f)
    BY DEF Incoming
  <1> QED
    BY <1>1 DEF Merged, Merge

(* It keeps the rows of any other target that the disk holds.                 *)
LEMMA MergedHasTheKept ==
    ASSUME NEW s, NEW f \in FileSet, Holds(f, s), \A i \in run.input : i.target # s.target
    PROVE  RowsOf(s, f) \subseteq Merged(MonthOf[s.target])[f]
  <1> DEFINE m == MonthOf[s.target]
  <1>1. SUFFICES ASSUME NEW r \in RowsOf(s, f)
                 PROVE  r \in Merged(m)[f]
    OBVIOUS
  <1>2. r \in Read(disk[f][m])
    BY <1>1 DEF Holds, Read
  <1>3. r.target = s.target /\ r.current = TRUE
    BY <1>1, RowsAreOfTheirTarget
  <1>4. \A i \in Incoming(m, f) : i.target # r.target
    <2>1. ASSUME NEW i \in Incoming(m, f)
          PROVE  i.target # r.target
      <3>1. PICK x \in run.input : i \in RowsOf(x, f)
        BY <2>1 DEF Incoming
      <3> QED
        BY <3>1, <1>3, RowsAreOfTheirTarget
    <2> QED
      BY <2>1
  <1>5. r \in Merge(Read(disk[f][m]), Incoming(m, f))
    BY <1>2, <1>3, <1>4 DEF Merge
  <1> QED
    BY <1>5 DEF Merged

(* The files of the cache are its sequence's members.                         *)
LEMMA FilesAreTheSet ==
    ASSUME cache \in {"cross-section", "reference", "dvol"}
    PROVE  /\ Files \in Unwritten
           /\ {Files[n] : n \in DOMAIN Files} = FileSet
           /\ FileSet \subseteq Names
  BY DEF Files, FileSet, Unwritten, Names

-----------------------------------------------------------------------------
LEMMA CacheInitially == CacheInit => CacheInv
  <1> SUFFICES ASSUME CacheInit PROVE CacheInv
    OBVIOUS
  <1>1. Shaped
    BY DEF CacheInit, Shards, Shaped
  <1> QED
    BY <1>1 DEF CacheInit, CacheInv, InProgress, EvidenceOutlivesRuns

(* A run begins: what was kept of its targets is so no more.                  *)
LEMMA BeginKeeps ==
    ASSUME CacheInv, NEW input \in Batches, BeginRun(input)
    PROVE  CacheInv'
  <1>1. Shaped' /\ EvidenceOutlivesRuns'
    BY DEF CacheInv, BeginRun, Shaped, EvidenceOutlivesRuns, Cached, RowsOf, FileSet
  <1>2. kept' \subseteq CacheSnapshot /\ cache' = cache
    BY DEF CacheInv, BeginRun
  <1>3. InProgress'
    <2>1. /\ run' = [input |-> run'.input, todo |-> run'.todo, month |-> run'.month,
                     files |-> run'.files, rows |-> run'.rows]
          /\ run'.input = input /\ run'.files = <<>>
          /\ run'.todo = {MonthOf[s.target] : s \in input}
      BY DEF BeginRun
    <2>2. run'.todo \subseteq Months
      BY <2>1, CacheAssumption DEF CacheAssumption, CacheSnapshot, Months
    <2>3. Fresh'
      BY <2>1 DEF Fresh, BeginRun
    <2>4. Progress'
      <3>1. ASSUME NEW s \in input
            PROVE  MonthOf[s.target] \in run'.todo
        BY <2>1, <3>1
      <3> QED
        BY <2>1, <3>1 DEF Progress
    <2>5. Prepared'
      BY <2>1 DEF Prepared
    <2>6. run'.files \in Unwritten /\ Pending' \subseteq FileSet'
      BY <2>1 DEF Unwritten, Pending
    <2> QED
      BY <2>1, <2>2, <2>3, <2>4, <2>5, <2>6 DEF InProgress
  <1> QED
    BY <1>1, <1>2, <1>3 DEF CacheInv

(* A month is read and decided: either it has everything already, or what is  *)
(* to be written has.                                                         *)
LEMMA NextMonthKeeps ==
    ASSUME CacheInv, NextMonth
    PROVE  CacheInv'
  <1>0. PICK month \in run.todo :
           run' = [run EXCEPT !.todo = @ \ {month}, !.month = month, !.rows = Merged(month),
                              !.files = IF Unchanged(month) THEN <<>> ELSE Files]
    BY DEF NextMonth
  <1>1. UNCHANGED <<cache, disk, kept>> /\ run # NoRun /\ run.files = <<>>
    BY DEF NextMonth
  <1>2. InProgress /\ cache \in {"cross-section", "reference", "dvol"} /\ EvidenceOutlivesRuns
    BY DEF CacheInv
  <1>3. /\ run.input \in Batches /\ run.todo \subseteq Months /\ Pending = {}
        /\ Fresh /\ Progress
    BY <1>1, <1>2 DEF InProgress, Pending
  <1>4. /\ run'.input = run.input /\ run'.todo = run.todo \ {month} /\ run'.month = month
        /\ run'.rows = Merged(month)
        /\ run'.files = IF Unchanged(month) THEN <<>> ELSE Files
        /\ run' = [input |-> run'.input, todo |-> run'.todo, month |-> run'.month,
                   files |-> run'.files, rows |-> run'.rows]
    BY <1>0, <1>1, <1>2 DEF InProgress
  <1>5. Shaped' /\ EvidenceOutlivesRuns' /\ FileSet' = FileSet
        /\ \A s, f : Holds(f, s)' = Holds(f, s) /\ RowsOf(s, f)' = RowsOf(s, f)
    BY <1>1 DEF CacheInv, Shaped, EvidenceOutlivesRuns, Cached, RowsOf, FileSet, Holds
  <1>6. run'.files \in Unwritten /\ Pending' = IF Unchanged(month) THEN {} ELSE FileSet
    BY <1>2, <1>4, FilesAreTheSet DEF Unwritten, Pending
  <1>7. Fresh'
    BY <1>1, <1>3, <1>4 DEF Fresh
  <1>8. ASSUME NEW s \in run.input, NEW f \in FileSet
        PROVE  \/ MonthOf[s.target] \in run'.todo
               \/ MonthOf[s.target] = run'.month /\ f \in Pending'
               \/ Holds(f, s)
    <2>1. CASE MonthOf[s.target] # month
      BY <2>1, <1>3, <1>4, <1>8 DEF Progress
    <2>2. CASE MonthOf[s.target] = month /\ ~Unchanged(month)
      BY <2>2, <1>4, <1>6
    <2>3. CASE MonthOf[s.target] = month /\ Unchanged(month)
      BY <2>3, MergedHasTheGiven DEF Unchanged, Holds, Read
    <2> QED
      BY <2>1, <2>2, <2>3
  <1>9. Progress'
    BY <1>8, <1>5, <1>4 DEF Progress
  <1>10. ASSUME NEW s \in kept \cup run.input, NEW f \in FileSet, MonthOf[s.target] = month
         PROVE  RowsOf(s, f) \subseteq Merged(month)[f]
    <2>1. CASE s \in run.input
      BY <2>1, <1>10, MergedHasTheGiven
    <2>2. CASE s \in kept
      <3>1. Holds(f, s)
        BY <2>2, <1>2 DEF EvidenceOutlivesRuns, Cached, Holds, Read
      <3>2. \A i \in run.input : i.target # s.target
        BY <2>2, <1>3 DEF Fresh
      <3> QED
        BY <3>1, <3>2, <1>10, MergedHasTheKept
    <2> QED
      BY <2>1, <2>2
  <1>11. Prepared'
    <2>1. month \in Months /\ DOMAIN Merged(month) = FileSet
      BY <1>3 DEF Merged
    <2> QED
      BY <2>1, <1>1, <1>4, <1>5, <1>10 DEF Prepared
  <1>12. InProgress'
    <2>1. run'.input \in Batches /\ run'.todo \subseteq Months /\ Pending' \subseteq FileSet'
      BY <1>3, <1>4, <1>5, <1>6
    <2> QED
      BY <2>1, <1>4, <1>6, <1>7, <1>9, <1>11 DEF InProgress
  <1> QED
    BY <1>1, <1>5, <1>12 DEF CacheInv

(* A file is written: what it holds now is what was prepared.                 *)
LEMMA WriteKeeps ==
    ASSUME CacheInv, WriteFile
    PROVE  CacheInv'
  <1> DEFINE w == Head(run.files)
             m == run.month
  <1>1. /\ run # NoRun /\ run.files # <<>>
        /\ UNCHANGED <<cache, kept>>
        /\ disk' = [disk EXCEPT ![w][m] = Whole(run.rows[w])]
        /\ run' = [run EXCEPT !.files = Tail(@)]
    BY DEF WriteFile, Writing
  <1>2. /\ InProgress /\ EvidenceOutlivesRuns /\ Shaped
        /\ cache \in {"cross-section", "reference", "dvol"}
    BY DEF CacheInv
  <1>3. /\ run.input \in Batches /\ run.todo \subseteq Months
        /\ run.files \in Unwritten /\ Pending \subseteq FileSet
        /\ Fresh /\ Progress /\ Prepared
    BY <1>1, <1>2 DEF InProgress
  <1>4. /\ run'.input = run.input /\ run'.todo = run.todo /\ run'.month = m
        /\ run'.rows = run.rows /\ run'.files = Tail(run.files)
        /\ run' = [input |-> run'.input, todo |-> run'.todo, month |-> run'.month,
                   files |-> run'.files, rows |-> run'.rows]
    BY <1>1, <1>2 DEF InProgress
  <1>5. /\ w \in Pending /\ Pending' = Pending \ {w}
        /\ run'.files \in Unwritten
    <2>1. CASE run.files = <<"rows">>
      BY <2>1, <1>4 DEF Pending, Unwritten
    <2>2. CASE run.files = <<"observations">>
      BY <2>2, <1>4 DEF Pending, Unwritten
    <2>3. CASE run.files = <<"snapshots", "observations">>
      BY <2>3, <1>4 DEF Pending, Unwritten
    <2> QED
      BY <2>1, <2>2, <2>3, <1>1, <1>3 DEF Unwritten
  <1>6. w \in FileSet /\ w \in Names /\ m \in Months
    BY <1>1, <1>2, <1>3, <1>5, FilesAreTheSet DEF Prepared
  <1>7. FileSet' = FileSet /\ \A s, f : RowsOf(s, f)' = RowsOf(s, f)
    BY <1>1 DEF FileSet, RowsOf
  <1>8. Shaped'
    BY <1>1, <1>2, <1>6 DEF Shaped
  <1>9. disk'[w][m].rows = run.rows[w]
    BY <1>1, <1>2, <1>6 DEF Shaped, Whole
  <1>10. \A f \in Names, n \in Months : f # w \/ n # m => disk'[f][n] = disk[f][n]
    BY <1>1, <1>2, <1>6 DEF Shaped
  <1>11. ASSUME NEW s \in kept \cup run.input, NEW f \in FileSet,
                MonthOf[s.target] \in Months,
                Holds(f, s) \/ (f = w /\ MonthOf[s.target] = m)
         PROVE  Holds(f, s)'
    <2>1. CASE f = w /\ MonthOf[s.target] = m
      BY <2>1, <1>1, <1>3, <1>6, <1>7, <1>9 DEF Prepared, Holds
    <2>2. CASE ~(f = w /\ MonthOf[s.target] = m)
      <3>1. f \in Names
        BY <1>2, FilesAreTheSet
      <3>2. disk'[f][MonthOf[s.target]] = disk[f][MonthOf[s.target]]
        BY <3>1, <2>2, <1>10, <1>11
      <3> QED
        BY <3>2, <2>2, <1>7, <1>11 DEF Holds
    <2> QED
      BY <2>1, <2>2
  <1>12. \A s \in kept \cup run.input : MonthOf[s.target] \in Months
    <2>1. run.input \subseteq CacheSnapshot
      BY <1>3, CacheAssumption DEF CacheAssumption
    <2>2. kept \subseteq CacheSnapshot
      BY DEF CacheInv
    <2> QED
      BY <2>1, <2>2 DEF CacheSnapshot, Months
  <1>13. EvidenceOutlivesRuns'
    <2>1. ASSUME NEW s \in kept, NEW f \in FileSet
          PROVE  Holds(f, s)'
      BY <2>1, <1>2, <1>11, <1>12 DEF EvidenceOutlivesRuns, Cached, Holds, Read
    <2> QED
      BY <2>1, <1>1, <1>7 DEF EvidenceOutlivesRuns, Cached, Holds, Read
  <1>14. Progress'
    <2>1. ASSUME NEW s \in run.input, NEW f \in FileSet
          PROVE  \/ MonthOf[s.target] \in run.todo
                 \/ MonthOf[s.target] = m /\ f \in Pending \ {w}
                 \/ Holds(f, s)'
      BY <2>1, <1>3, <1>11, <1>12 DEF Progress
    <2> QED
      BY <2>1, <1>4, <1>5, <1>7 DEF Progress
  <1>15. Fresh' /\ Prepared'
    BY <1>1, <1>3, <1>4, <1>7 DEF Fresh, Prepared
  <1>16. InProgress'
    BY <1>3, <1>4, <1>5, <1>7, <1>14, <1>15 DEF InProgress
  <1> QED
    BY <1>1, <1>2, <1>8, <1>13, <1>16 DEF CacheInv

(* A run completes: it is through with every month it was given.              *)
LEMMA EndKeeps ==
    ASSUME CacheInv, EndRun
    PROVE  CacheInv'
  <1>1. /\ run # NoRun /\ run.files = <<>> /\ run.todo = {}
        /\ run' = NoRun /\ kept' = kept \cup run.input
        /\ UNCHANGED <<cache, disk>>
    BY DEF EndRun
  <1>2. run.input \in Batches /\ Progress /\ Pending = {}
    BY <1>1 DEF CacheInv, InProgress, Pending
  <1>3. \A s \in kept \cup run.input : \A f \in FileSet : Holds(f, s)
    BY <1>1, <1>2 DEF Progress, CacheInv, EvidenceOutlivesRuns, Cached, Holds, Read
  <1>4. EvidenceOutlivesRuns'
    BY <1>1, <1>3 DEF EvidenceOutlivesRuns, Cached, Holds, Read, RowsOf, FileSet
  <1>5. kept' \subseteq CacheSnapshot /\ Shaped'
    BY <1>1, <1>2, CacheAssumption DEF CacheAssumption, CacheInv, Shaped
  <1> QED
    BY <1>1, <1>4, <1>5 DEF CacheInv, InProgress

(* A crash while a file is written damages that file of that month only, and  *)
(* nothing of that month counts as kept from then on.                         *)
LEMMA CrashInFileKeeps ==
    ASSUME CacheInv, CrashInFile
    PROVE  CacheInv'
  <1>1. PICK content :
           /\ disk' = [disk EXCEPT ![Writing][run.month] = content]
           /\ kept' = {s \in kept : MonthOf[s.target] # run.month}
           /\ run' = NoRun /\ cache' = cache
    BY DEF CrashInFile
  <1>2. Shaped'
    BY <1>1 DEF CacheInv, Shaped
  <1>3. ASSUME NEW s \in kept, MonthOf[s.target] # run.month, NEW f \in FileSet
        PROVE  disk'[f][MonthOf[s.target]] = disk[f][MonthOf[s.target]]
    <2>1. f \in Names /\ MonthOf[s.target] \in Months
      BY FilesAreTheSet DEF CacheInv, CacheSnapshot, Months
    <2> QED
      BY <2>1, <1>1, <1>3 DEF CacheInv, Shaped
  <1>4. EvidenceOutlivesRuns'
    <2>1. FileSet' = FileSet /\ \A s, f : RowsOf(s, f)' = RowsOf(s, f)
      BY <1>1 DEF FileSet, RowsOf
    <2> QED
      BY <2>1, <1>1, <1>3 DEF CacheInv, EvidenceOutlivesRuns, Cached, Read
  <1> QED
    BY <1>1, <1>2, <1>4 DEF CacheInv, InProgress

(* A crash between two files leaves the disk alone.                           *)
LEMMA CrashBetweenKeeps ==
    ASSUME CacheInv, CrashBetween
    PROVE  CacheInv'
  <1>1. UNCHANGED <<cache, disk, kept>> /\ run' = NoRun
    BY DEF CrashBetween
  <1>2. FileSet' = FileSet /\ \A s, f : RowsOf(s, f)' = RowsOf(s, f)
    BY <1>1 DEF FileSet, RowsOf
  <1> QED
    BY <1>1, <1>2 DEF CacheInv, Shaped, InProgress, EvidenceOutlivesRuns, Cached, Read

LEMMA CacheSteps == CacheInv /\ [CacheNext]_cachevars => CacheInv'
  <1> SUFFICES ASSUME CacheInv, [CacheNext]_cachevars
               PROVE  CacheInv'
    OBVIOUS
  <1>1. ASSUME NEW input \in Batches, BeginRun(input) PROVE CacheInv'
    BY <1>1, BeginKeeps
  <1>2. CASE NextMonth
    BY <1>2, NextMonthKeeps
  <1>3. CASE WriteFile
    BY <1>3, WriteKeeps
  <1>4. CASE EndRun
    BY <1>4, EndKeeps
  <1>5. CASE CrashInFile
    BY <1>5, CrashInFileKeeps
  <1>6. CASE CrashBetween
    BY <1>6, CrashBetweenKeeps
  <1>7. CASE UNCHANGED cachevars
    <2>1. UNCHANGED <<cache, disk, run, kept>>
      BY <1>7 DEF cachevars
    <2>2. FileSet' = FileSet /\ \A s, f : RowsOf(s, f)' = RowsOf(s, f)
      BY <2>1 DEF FileSet, RowsOf
    <2>3. Fresh' = Fresh /\ Progress' = Progress /\ Prepared' = Prepared /\ Pending' = Pending
      BY <2>1, <2>2 DEF Fresh, Progress, Prepared, Pending, Holds
    <2> QED
      BY <2>1, <2>2, <2>3 DEF CacheInv, Shaped, InProgress, EvidenceOutlivesRuns, Cached, Read
  <1> QED
    BY <1>1, <1>2, <1>3, <1>4, <1>5, <1>6, <1>7 DEF CacheNext

(* What a completed run cached stays, with all of its evidence, until a run   *)
(* is given the same target or crashes while it writes a file of that month   *)
(* (writeCrossSectionShards, writeReferenceShards, writeDvolShards).          *)
THEOREM CachedEvidenceStays == CacheSpec => []EvidenceOutlivesRuns
  <1>1. CacheInv => EvidenceOutlivesRuns
    BY DEF CacheInv
  <1> QED
    BY <1>1, CacheInitially, CacheSteps, PTL DEF CacheSpec
=============================================================================
