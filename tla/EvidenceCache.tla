---------------------------- MODULE EvidenceCache ----------------------------
(***************************************************************************)
(* The caches of the volatility research: what was built from evidence is  *)
(* kept in monthly shards, which runs read, add to and write in place, one *)
(* file after the other, and may crash while they do.                      *)
(*                                                                         *)
(* A row is [target, key, value, current]; a file is absent, torn (it does *)
(* not parse) or whole with a set of rows.  The cross-section keeps two    *)
(* files a month, snapshots (one row a target, its value the hash of the   *)
(* evidence) and observations; the reference and the index series one.     *)
(***************************************************************************)
EXTENDS Naturals, Sequences, FiniteSets

CONSTANTS Target,                     \* the moments evidence is for, in order
          MonthOf,                    \* MonthOf[t]: the month target t is in
          Trade,
          Batches,                    \* the sets of snapshots a run may be given
          NoRun,
          MaxCacheRuns, MaxCrashes    \* bounds

CacheSnapshot == [target : Target, evidence : SUBSET Trade]

ASSUME CacheAssumption ==
    /\ Target \subseteq Nat /\ MonthOf \in [Target -> Nat]
    /\ Batches \subseteq SUBSET CacheSnapshot
    /\ \A input \in Batches : \A s, t \in input : s.target = t.target => s = t

VARIABLES
    cache,      \* "cross-section", "reference" or "dvol"
    disk,       \* file -> month -> content
    described,  \* the manifest
    run,        \* the run in progress
    kept,       \* history: the snapshots completed runs left that no crash has hit since
    runs, crashes
cachevars == <<cache, disk, described, run, kept, runs, crashes>>

Months == {MonthOf[t] : t \in Target}
Names == {"snapshots", "observations", "rows"}
Files == IF cache = "cross-section" THEN <<"snapshots", "observations">> ELSE <<"rows">>
FileSet == IF cache = "cross-section" THEN {"snapshots", "observations"} ELSE {"rows"}

Absent == [state |-> "absent", rows |-> {}]
Torn == [state |-> "torn", rows |-> {}]
Whole(rows) == [state |-> "whole", rows |-> rows]
Read(file) == file.rows

CacheRow(target, key, value) == [target |-> target, key |-> key, value |-> value, current |-> TRUE]

\* The rows of one snapshot in a file.
RowsOf(s, file) ==
    CASE file = "snapshots" -> {CacheRow(s.target, "header", s.evidence)}
      [] file = "observations" -> {CacheRow(s.target, trade, {trade}) : trade \in s.evidence}
      [] OTHER -> {CacheRow(s.target, cache, s.evidence)}

\* A row replaces the one of the same target and key; rows of an older method are
\* dropped from the reference series.
Merge(existing, incoming) ==
    incoming \cup {r \in existing : /\ ~\E i \in incoming : i.target = r.target /\ i.key = r.key
                                    /\ cache = "reference" => r.current}

Incoming(month, file) == UNION {RowsOf(s, file) : s \in {x \in run.input : MonthOf[x.target] = month}}
Merged(month) == [f \in FileSet |-> Merge(Read(disk[f][month]), Incoming(month, f))]

\* A month that would not change is left alone, save by the index series.
\* Mutant: the observations are not compared.
UnchangedHeaders(month) ==
    LET first == Files[1]
    IN cache # "dvol" /\ Read(disk[first][month]) = Merged(month)[first]
Unchanged(month) ==
    cache # "dvol" /\ \A f \in FileSet : Read(disk[f][month]) = Merged(month)[f]

\* The disk at first: nothing, or a reference row of an older method.
Shards(old) ==
    [f \in Names |-> [m \in Months |->
        LET rows == {r \in old : f = "rows" /\ MonthOf[r.target] = m}
        IN IF rows = {} THEN Absent ELSE Whole(rows)]]
OldRow(t) == [CacheRow(t, "reference", {}) EXCEPT !.current = FALSE]

CacheInit ==
    /\ cache \in {"cross-section", "reference", "dvol"}
    /\ \E old \in {{}} \cup {{OldRow(t)} : t \in Target} :
         (old # {} => cache = "reference") /\ disk = Shards(old)
    /\ described = Absent /\ run = NoRun /\ kept = {}
    /\ runs = 0 /\ crashes = 0

\* A run is given snapshots, one a target.
BeginRun(input) ==
    /\ run = NoRun /\ runs < MaxCacheRuns
    /\ run' = [input |-> input, todo |-> {MonthOf[s.target] : s \in input},
               month |-> 0, files |-> <<>>, rows |-> <<>>]
    /\ runs' = runs + 1
    /\ kept' = {s \in kept : ~\E i \in input : i.target = s.target}
    /\ UNCHANGED <<cache, disk, described, crashes>>

\* Read the next month and decide; its files are then written one after the other.
NextMonth ==
    /\ run # NoRun /\ run.files = <<>>
    /\ \E month \in run.todo :
         /\ \A later \in run.todo : month <= later
         /\ run' = [run EXCEPT !.todo = @ \ {month}, !.month = month, !.rows = Merged(month),
                               !.files = IF Unchanged(month) THEN <<>> ELSE Files]
    /\ UNCHANGED <<cache, disk, described, kept, runs, crashes>>

Writing == Head(run.files)

WriteFile ==
    /\ run # NoRun /\ run.files # <<>>
    /\ disk' = [disk EXCEPT ![Writing][run.month] = Whole(run.rows[Writing])]
    /\ run' = [run EXCEPT !.files = Tail(@)]
    /\ UNCHANGED <<cache, described, kept, runs, crashes>>

\* The manifest describes what is on disk, the index series' the run's own rows.
DiskRows(file) == UNION {Read(disk[file][m]) : m \in Months}
Describe ==
    CASE cache = "cross-section" ->
            [months |-> {m \in Months : disk["snapshots"][m] # Absent},
             rows |-> DiskRows("snapshots"), count |-> Cardinality(DiskRows("observations"))]
      [] cache = "reference" ->
            LET current == {r \in DiskRows("rows") : r.current}
            IN [months |-> {MonthOf[r.target] : r \in current}, rows |-> current, count |-> 0]
      [] OTHER -> [months |-> {}, rows |-> UNION {RowsOf(s, "rows") : s \in run.input}, count |-> 0]

EndRun ==
    /\ run # NoRun /\ run.files = <<>> /\ run.todo = {}
    /\ described' = Describe
    /\ run' = NoRun /\ kept' = kept \cup run.input
    /\ UNCHANGED <<cache, disk, runs, crashes>>

\* A crash leaves the file being written as it was, whole, torn, or cut after some
\* of its rows; while the manifest is written, the manifest.
Cut(rows) == {Whole({r \in rows : r.target < t}) : t \in {r.target : r \in rows}}
CrashInFile ==
    /\ run # NoRun /\ run.files # <<>> /\ crashes < MaxCrashes
    /\ \E content \in {Torn, Whole(run.rows[Writing])} \cup Cut(run.rows[Writing]) :
         disk' = [disk EXCEPT ![Writing][run.month] = content]
    /\ kept' = {s \in kept : MonthOf[s.target] # run.month}
    /\ run' = NoRun /\ crashes' = crashes + 1
    /\ UNCHANGED <<cache, described, runs>>

CrashBetween ==
    /\ run # NoRun /\ crashes < MaxCrashes
    /\ described' \in {described} \cup IF run.files = <<>> /\ run.todo = {} THEN {Torn} ELSE {}
    /\ run' = NoRun /\ crashes' = crashes + 1
    /\ UNCHANGED <<cache, disk, kept, runs>>

CacheNext ==
    \/ \E input \in Batches : BeginRun(input)
    \/ NextMonth \/ WriteFile \/ EndRun \/ CrashInFile \/ CrashBetween

CacheSpec == CacheInit /\ [][CacheNext]_cachevars

\* Reading back: the rows a consumer of the cache sees for a snapshot.
Cached(s) == \A f \in FileSet : RowsOf(s, f) \subseteq Read(disk[f][MonthOf[s.target]])

\* What a completed run cached, its snapshots with all of their evidence, stays
\* until a run is given the same target or crashes writing that month, whatever
\* else is run, crashes, or is run again (writeCrossSectionShards,
\* writeReferenceShards, writeDvolShards).
EvidenceOutlivesRuns == \A s \in kept : Cached(s)
=============================================================================
