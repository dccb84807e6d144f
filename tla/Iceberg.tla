------------------------------ MODULE Iceberg ------------------------------
(* An Iceberg external table: a chain of snapshots in files.                  *)
(*                                                                            *)
(* INSERT, DELETE and compaction each read the metadata that version-hint     *)
(* names, write a manifest list, the next version of the metadata and the     *)
(* hint, in this order and without a lock; a process may stop between any two *)
(* of these writes.  Data, delete and manifest files have names of their own  *)
(* and are never written again, so a list holds their contents.  A list is    *)
(* named by its snapshot id, which is the time in milliseconds: `collided`    *)
(* records that a name was used twice, `raced` that a commit replaced one it  *)
(* had not read, `blinded` that a compaction took an unreadable table for an  *)
(* empty one.  The properties say which of them they exclude.                 *)
EXTENDS Integers, Sequences, FiniteSets, SequencesExt, BagsExt

CONSTANTS Writers,          \* sessions that write
          Batches,          \* what INSERT may add: sequences of rows <<partition, value>>
          Predicates,       \* [col, op, lit], the WHERE clauses
          NullCell,
          MaxCommits,       \* bound on the commits begun
          MaxClock          \* bound on the clock

VARIABLES partitioned,      \* PARTITIONED BY (identity of the first column)
          clock,
          lists,            \* manifest lists: name -> entries
          metas,            \* metadata files: version -> current and snapshots
          hint,             \* version-hint.text
          writer,           \* what each session is doing
          commits,          \* commits begun
          meant,            \* commit -> bag of rows its snapshot should hold
          acked,            \* the commits acknowledged, in order
          raced, collided, blinded

Torn == 0                   \* an empty version-hint.text
NoSnapshot == 0
Resting == [pc |-> "idle"]

\* A function with one more entry, or another value.
With(f, k, x) == [y \in DOMAIN f \union {k} |-> IF y = k THEN x ELSE f[y]]

\* NULL is less than every value, and different from it.
Holds(p, row) ==
    LET x == row[p.col]
    IN CASE p.op = "eq" -> x = p.lit
         [] p.op = "ne" -> x # p.lit
         [] p.op = "lt" -> x = NullCell \/ x < p.lit
         [] p.op = "gt" -> x # NullCell /\ x > p.lit

-----------------------------------------------------------------------------
(* Files.                                                                     *)

Cells(rs, c) == {rs[i][c] : i \in DOMAIN rs} \ {NullCell}

\* A data file with the least and greatest value of its columns, none for all NULL.
write_parquet_data_file(id, part, rs) ==
    [id |-> id, content |-> 0, partition |-> part, rows |-> rs,
     bounds |-> [c \in 1..2 |-> IF Cells(rs, c) = {} THEN <<>> ELSE <<Min(Cells(rs, c)), Max(Cells(rs, c))>>]]

\* One file for each value of the partition column, or one for all rows.
Grouped(commit, rs) ==
    IF ~partitioned THEN <<write_parquet_data_file(<<commit, 1>>, <<>>, rs)>>
    ELSE LET values == SetToSeq({rs[i][1] : i \in DOMAIN rs})
         IN [i \in DOMAIN values |->
                write_parquet_data_file(<<commit, i>>, <<values[i]>>, SelectSeq(rs, LAMBDA r : r[1] = values[i]))]

\* Entries of a manifest: 0 existing, 1 added, 2 deleted.
Added(fs) == [i \in DOMAIN fs |-> [status |-> 1, file |-> fs[i]]]
Active(entries) ==
    LET kept == SelectSeq(entries, LAMBDA e : e.status # 2)
    IN [i \in DOMAIN kept |-> [kept[i] EXCEPT !.status = 0]]
DataFiles(entries) == SelectSeq(Active(entries), LAMBDA e : e.file.content = 0)
DeleteFiles(entries) == SelectSeq(Active(entries), LAMBDA e : e.file.content = 1)

\* The (file, position) pairs that the delete files of a snapshot name.
DeletedPositions(entries) == UNION {e.file.rows : e \in Range(DeleteFiles(entries))}

\* The rows of a data file that no delete file names.
LiveRows(entries, file) ==
    LET live == SelectSeq([i \in DOMAIN file.rows |-> i], LAMBDA i : <<file.id, i>> \notin DeletedPositions(entries))
    IN [i \in DOMAIN live |-> file.rows[live[i]]]

-----------------------------------------------------------------------------
(* Reading.                                                                   *)

\* The clauses are single comparisons `column op literal`; the code goes through AND and
\* OR to them.
should_prune_by_partition(file, p) ==
    /\ file.partition # <<>> /\ p.col = 1
    /\ \/ p.op = "eq" /\ file.partition[1] # p.lit
       \/ p.op = "ne" /\ file.partition[1] = p.lit

\* A plausible slip: a value at the upper bound counts as beyond it.
should_skip_data_file_at_bound(file, p) ==
    LET b == file.bounds[p.col]
    IN b # <<>> /\ p.op = "eq" /\ (p.lit < b[1] \/ p.lit >= b[2])

should_skip_data_file(file, p) ==
    LET b == file.bounds[p.col]
    IN b # <<>> /\ \/ p.op = "eq" /\ (p.lit < b[1] \/ p.lit > b[2])
                   \/ p.op = "gt" /\ b[2] <= p.lit
                   \/ p.op = "lt" /\ b[1] >= p.lit

\* The rows of a snapshot's entries, without the files that Skip passes over.
Merged(entries, Skip(_)) ==
    FlattenSeq([i \in DOMAIN DataFiles(entries) |->
        LET file == DataFiles(entries)[i].file IN IF Skip(file) THEN <<>> ELSE LiveRows(entries, file)])

read_iceberg_table_rows(entries) == Merged(entries, LAMBDA f : FALSE)
ReadWhere(entries, p) ==
    Merged(entries, LAMBDA f : should_prune_by_partition(f, p) \/ should_skip_data_file(f, p))

\* The first snapshot with an id, and its entries.
SnapshotOf(meta, id) == meta.snapshots[Min({i \in DOMAIN meta.snapshots : meta.snapshots[i].id = id})]
EntriesOf(meta, id) == IF id = NoSnapshot THEN <<>> ELSE lists[SnapshotOf(meta, id).list]

-----------------------------------------------------------------------------
(* A commit: four steps of a session.                                         *)

\* A read that finds the hint empty fails; a query then answers no rows.
Readable == hint \in DOMAIN metas

\* What a commit starts from: the metadata, its current entries and what they should hold.
Base == [version |-> hint, meta |-> metas[hint]]
Current(base) == EntriesOf(base.meta, base.meta.current)
Meant(base) == IF base.meta.current = NoSnapshot THEN EmptyBag
               ELSE meant[SnapshotOf(base.meta, base.meta.current).commit]

\* The commit has its base and new files; `entries` are those of its new snapshot.
Begin(w, base, kind, entries, rs) ==
    LET name == IF kind = "compact" THEN <<"snap-compact", clock>> ELSE <<"snap", clock>>
        commit == commits + 1
    IN /\ commits < MaxCommits
       /\ commits' = commit
       /\ meant' = Append(meant, rs)
       /\ writer' = [writer EXCEPT ![w] =
             [pc |-> "list", base |-> base.version, commit |-> commit, list |-> name, entries |-> entries,
              meta |-> [current |-> clock,
                        snapshots |-> Append(base.meta.snapshots, [id |-> clock, parent |-> base.meta.current,
                                                                   list |-> name, commit |-> commit])]]]
       /\ UNCHANGED <<partitioned, clock, lists, metas, hint, acked, raced, collided>>

Ready(w) == writer[w].pc = "idle" /\ Readable

BagOf(rs) == [r \in Range(rs) |-> Cardinality({i \in DOMAIN rs : rs[i] = r})]

\* A plausible slip: only the data files of the base are carried over.
Carried_data(entries) == DataFiles(entries)

\* INSERT carries over every entry that is not deleted.
Carried(entries) == Active(entries)

write_iceberg_table_rows(w, rs) ==
    /\ Ready(w)
    /\ Begin(w, Base, "append", Carried(Current(Base)) \o Added(Grouped(commits + 1, rs)), Meant(Base) (+) BagOf(rs))
    /\ UNCHANGED blinded

\* DELETE names the positions of the matching rows that are still there; without any it
\* commits nothing.
Matching(entries, p) ==
    UNION {LET file == DataFiles(entries)[i].file
           IN {<<file.id, j>> : j \in {k \in DOMAIN file.rows : Holds(p, file.rows[k])}} \ DeletedPositions(entries)
           : i \in DOMAIN DataFiles(entries)}

PositionDeletes(id, positions) ==
    [id |-> id, content |-> 1, partition |-> <<>>, rows |-> positions, bounds |-> <<>>]

write_iceberg_position_deletes(w, p) ==
    /\ Ready(w) /\ metas[hint].current # NoSnapshot /\ Matching(Current(Base), p) # {}
    /\ Begin(w, Base, "delete",
             Active(Current(Base)) \o Added(<<PositionDeletes(<<commits + 1, 0>>, Matching(Current(Base), p))>>),
             [r \in {x \in BagToSet(Meant(Base)) : ~Holds(p, x)} |-> Meant(Base)[r]])
    /\ UNCHANGED blinded

\* Compaction; one data file without deletes is left alone.
compact_iceberg_table(w) ==
    /\ Ready(w) /\ metas[hint].current # NoSnapshot /\ commits < MaxCommits
    /\ Len(DataFiles(Current(Base))) > 1 \/ DeleteFiles(Current(Base)) # <<>>
    /\ writer' = [writer EXCEPT ![w] = [pc |-> "rows", read |-> Base]]
    /\ UNCHANGED <<partitioned, clock, lists, metas, hint, commits, meant, acked, raced, collided, blinded>>

\* It lists the old files as deleted and the surviving rows in new ones.
Replaced(entries, rs) ==
    LET old == DataFiles(entries) \o DeleteFiles(entries)
    IN [i \in DOMAIN old |-> [old[i] EXCEPT !.status = 2]]
           \o (IF rs = <<>> THEN <<>> ELSE Added(Grouped(commits + 1, rs)))

\* The rows are read from the metadata there is now: of the snapshot of the base, which
\* it must have; none if the hint is empty at the moment.
read_surviving_rows(w) ==
    /\ writer[w].pc = "rows"
    /\ LET base == writer[w].read
           known == Readable /\ \E i \in DOMAIN metas[hint].snapshots : metas[hint].snapshots[i].id = base.meta.current
       IN \/ /\ Readable /\ ~known
             /\ writer' = [writer EXCEPT ![w] = Resting]
             /\ UNCHANGED <<partitioned, clock, lists, metas, hint, commits, meant, acked, raced, collided, blinded>>
          \/ /\ known
             /\ Begin(w, base, "compact",
                      Replaced(Current(base), read_iceberg_table_rows(EntriesOf(metas[hint], base.meta.current))),
                      Meant(base))
             /\ UNCHANGED blinded
          \/ /\ ~Readable
             /\ Begin(w, base, "compact", Replaced(Current(base), <<>>), Meant(base))
             /\ blinded' = TRUE

Goes(w, pc) == writer' = [writer EXCEPT ![w].pc = pc]

write_manifest_list(w) ==
    /\ writer[w].pc = "list" /\ Goes(w, "metadata")
    /\ collided' = (collided \/ writer[w].list \in DOMAIN lists \/ \E v \in DOMAIN metas :
                        \E i \in DOMAIN metas[v].snapshots : metas[v].snapshots[i].id = writer[w].meta.current)
    /\ lists' = With(lists, writer[w].list, writer[w].entries)
    /\ UNCHANGED <<partitioned, clock, metas, hint, commits, meant, acked, raced, blinded>>

\* The next version, over whatever file has its name.  One step: no hint leads to the file
\* yet, unless commits overlap.
write_table_metadata(w) ==
    /\ writer[w].pc = "metadata" /\ Goes(w, "hint")
    /\ metas' = With(metas, writer[w].base + 1, writer[w].meta)
    /\ raced' = (raced \/ hint # writer[w].base)
    /\ UNCHANGED <<partitioned, clock, lists, hint, commits, meant, acked, collided, blinded>>

\* fs::write empties the file before it writes the number.
truncate_hint(w) ==
    /\ writer[w].pc = "hint" /\ Goes(w, "number")
    /\ hint' = Torn
    /\ UNCHANGED <<partitioned, clock, lists, metas, commits, meant, acked, raced, collided, blinded>>

write_version_hint(w) ==
    /\ writer[w].pc = "number"
    /\ writer' = [writer EXCEPT ![w] = Resting]
    /\ hint' = writer[w].base + 1
    /\ acked' = Append(acked, writer[w].commit)
    /\ raced' = (raced \/ metas[writer[w].base + 1] # writer[w].meta)
    /\ UNCHANGED <<partitioned, clock, lists, metas, commits, meant, collided, blinded>>

\* A write fails or the process stops: the commit is abandoned where it is.
Abandoned(w) ==
    /\ writer[w].pc # "idle"
    /\ writer' = [writer EXCEPT ![w] = Resting]
    /\ UNCHANGED <<partitioned, clock, lists, metas, hint, commits, meant, acked, raced, collided, blinded>>

Millisecond ==
    /\ clock < MaxClock
    /\ clock' = clock + 1
    /\ UNCHANGED <<partitioned, lists, metas, hint, writer, commits, meant, acked, raced, collided, blinded>>

\* init_iceberg_table has written version 1, without a snapshot.
IcebergInit ==
    /\ partitioned \in BOOLEAN /\ clock = 1
    /\ lists = <<>> /\ metas = <<[current |-> NoSnapshot, snapshots |-> <<>>]>> /\ hint = 1
    /\ writer = [w \in Writers |-> Resting]
    /\ commits = 0 /\ meant = <<>> /\ acked = <<>> /\ raced = FALSE /\ collided = FALSE
    /\ blinded = FALSE

IcebergNext ==
    \/ \E w \in Writers : \/ \E rs \in Batches : write_iceberg_table_rows(w, rs)
                          \/ \E p \in Predicates : write_iceberg_position_deletes(w, p)
                          \/ compact_iceberg_table(w) \/ read_surviving_rows(w)
                          \/ write_manifest_list(w) \/ write_table_metadata(w)
                          \/ truncate_hint(w) \/ write_version_hint(w) \/ Abandoned(w)
    \/ Millisecond

-----------------------------------------------------------------------------
(* Properties.                                                                *)

\* Whatever overlaps or stops half way, a hint names a metadata file, and every snapshot
\* in it, the current one and those a query may travel back to, holds the rows of its
\* parent with its own INSERT or DELETE applied, a compaction changing none.  Without
\* overlapping commits the current one is that of the last acknowledged commit
\* (write_iceberg_table_rows, write_iceberg_position_deletes, compact_iceberg_table).
SnapshotsKeepTheirRows ==
    /\ hint = Torn \/ Readable
    /\ Readable /\ ~collided /\ ~blinded =>
          /\ \A i \in DOMAIN metas[hint].snapshots :
                LET s == metas[hint].snapshots[i]
                IN /\ BagOf(read_iceberg_table_rows(EntriesOf(metas[hint], s.id))) = meant[s.commit]
                   /\ s.parent = IF i = 1 THEN NoSnapshot ELSE metas[hint].snapshots[i - 1].id
          /\ ~raced /\ acked # <<>> =>
                SnapshotOf(metas[hint], metas[hint].current).commit = Last(acked)

\* No file with a row that matches by its value is passed over; `<` also matches a NULL,
\* which the bounds of a file do not count (should_prune_by_partition,
\* should_skip_data_file).
SkippingLosesNothing ==
    Readable => \A p \in Predicates :
        LET matches(r) == r[p.col] # NullCell /\ Holds(p, r)
        IN SelectSeq(ReadWhere(Current(Base), p), matches) = SelectSeq(read_iceberg_table_rows(Current(Base)), matches)
=============================================================================
