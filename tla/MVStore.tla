------------------------------- MODULE MVStore -------------------------------
(***************************************************************************)
(* Persistence of h2-mvstore (store.rs, file_store.rs, wal.rs, map.rs):    *)
(* commits through the write-ahead log, full and delta checkpoints, the    *)
(* rewriting of the storage file (compact, reclaim_checkpoint_history),    *)
(* crashes between any two writes, and MVStore::open.                      *)
(*                                                                         *)
(* One map is modelled.  An entry keeps what recovery can tell apart: `val` *)
(* identifies the newest committed value (0: none), `ver` is the commit    *)
(* version stamped on it and `unc` the transaction whose uncommitted       *)
(* record is in the entry.  Transaction ids start again at 1 in every      *)
(* incarnation of the process, so `unc` also remembers the incarnation in  *)
(* which it was written (the program does not).                            *)
(*                                                                         *)
(* A write followed by its fsync is one step; a crash may find it undone,  *)
(* done or, for a header slot, half done.  sync_on_commit is on.  The      *)
(* batching of concurrent commits is the subject of GroupCommit: here one  *)
(* commit is in flight at a time.                                          *)
(***************************************************************************)
EXTENDS Naturals, Sequences, FiniteSets

CONSTANTS Keys,
          MaxTx,        \* bound: transactions per incarnation
          MaxCommits,   \* bound: commits that are started
          MaxJobs,      \* bound: checkpoints and rewrites that are started
          MaxRuns,      \* bound: incarnations of the process
          MaxTorn,      \* bound: header writes that a crash tears
          EarlyRewrites,\* may a store be rewritten before its first checkpoint?
          WriteErrors,  \* may the writes of a checkpoint fail?
          RenameErrors  \* may the replacement of the storage file fail?

ASSUME BoundsAssumption ==
    /\ MaxTx \in Nat /\ MaxCommits \in Nat /\ MaxJobs \in Nat /\ MaxRuns \in Nat
    /\ MaxTorn \in Nat /\ EarlyRewrites \in BOOLEAN
    /\ WriteErrors \in BOOLEAN /\ RenameErrors \in BOOLEAN

VARIABLES
    mem,       \* the map: key -> entry
    journal,   \* MapJournal.changes since the last checkpoint
    journaling,\* MapJournal.enabled
    has_checkpoint,
    version, next_commit_version,
    handle,    \* FileStore.file is Some
    header,    \* FileStore.header: the chunk and version it points to
    active,    \* transactions begun and not finished
    next_tx_id,
    commit,    \* the commit in flight
    job,       \* the checkpoint or rewrite in progress
    run,       \* number of the incarnation
    up,        \* is the process running?
    disk,      \* files: main, bak, tmp and the WAL
    acked,     \* key -> newest value whose commit was acknowledged
    started,   \* counters for the bounds
    unreplaced \* has a rewrite given up replacing the file, in any incarnation?

memoryVars == <<mem, journal, journaling, has_checkpoint, version,
                next_commit_version, handle, header, active, next_tx_id>>
vars == <<memoryVars, commit, job, run, up, disk, acked, started, unreplaced>>

NoOne == [tx |-> 0, run |-> 0]
Absent == [val |-> 0, ver |-> 0, unc |-> NoOne]
NoChange == [val |-> 0, ver |-> 0, unc |-> [tx |-> 0, run |-> 1]]
Unchanged == [k \in Keys |-> NoChange]
Overlay(new, old) == [k \in Keys |-> IF new[k] = NoChange THEN old[k] ELSE new[k]]

NoHeader == [version |-> 0, chunk |-> 0]
Torn == [version |-> 0, chunk |-> 99]     \* fails the CRC check
NewFile == [chunks |-> <<>>, primary |-> NoHeader, shadow |-> Torn]
NoFile == [chunks |-> <<>>, primary |-> Torn, shadow |-> Torn]

NoCommit == [tx |-> 0, at |-> "none", id |-> 0, ver |-> 0, changes |-> Unchanged]
NoJob == [kind |-> "none", at |-> "none", version |-> 0, data |-> Unchanged,
          drained |-> Unchanged]

Init ==
    /\ mem = [k \in Keys |-> Absent]
    /\ journal = Unchanged
    /\ journaling = FALSE /\ has_checkpoint = FALSE
    /\ version = 0 /\ next_commit_version = 0
    /\ handle = TRUE /\ header = NoHeader
    /\ active = {} /\ next_tx_id = 1
    /\ commit = NoCommit /\ job = NoJob
    /\ run = 1 /\ up = TRUE
    /\ disk = [main |-> NewFile, bak |-> NoFile, tmp |-> NoFile, wal |-> <<>>]
    /\ acked = [k \in Keys |-> 0]
    /\ started = [commits |-> 0, jobs |-> 0, torn |-> 0]
    /\ unreplaced = FALSE

----------------------------------------------------------------------------
(* Recovery: what MVStore::open makes of the files. *)

\* Mutant of MainFile: a left-over backup is ignored.
MainFile_no_restore(d) == IF d.main = NoFile THEN NewFile ELSE d.main

\* FileStore::open: the backup comes back if the main file is missing.
MainFile(d) == IF d.main = NoFile /\ d.bak # NoFile THEN d.bak
               ELSE IF d.main = NoFile THEN NewFile ELSE d.main

\* Mutant of ChosenHeader: the shadow slot is never looked at.
ChosenHeader_primary_only(f) == f.primary

\* The header slot that is used; Torn if neither slot is readable.
ChosenHeader(f) ==
    IF f.primary # Torn /\ f.shadow # Torn /\ f.shadow.version > f.primary.version THEN f.shadow
    ELSE IF f.primary # Torn THEN f.primary
    ELSE f.shadow

\* read_checkpoint_chain and the replay of its deltas: the map as of a chunk.
ChainData(f, c) ==
    LET upTo[i \in 0 .. Len(f.chunks)] ==
            IF i = 0 THEN [k \in Keys |-> Absent]
            ELSE IF f.chunks[i].full THEN f.chunks[i].data
            ELSE Overlay(f.chunks[i].data, upTo[f.chunks[i].previous])
    IN  upTo[c]

\* The changes of the WAL, later records over earlier ones.
WalChanges(wal) ==
    LET upTo[i \in 0 .. Len(wal)] ==
            IF i = 0 THEN Unchanged ELSE Overlay(wal[i].changes, upTo[i - 1])
    IN  upTo[Len(wal)]

MaxOf(a, b) == IF a > b THEN a ELSE b

Openable(d) == ChosenHeader(MainFile(d)) # Torn
RecoveredMap(d) ==
    LET f == MainFile(d)
    IN  Overlay(WalChanges(d.wal), ChainData(f, ChosenHeader(f).chunk))

RecoveredVersion(d) ==
    LET upTo[i \in 0 .. Len(d.wal)] ==
            IF i = 0 THEN ChosenHeader(MainFile(d)).version
            ELSE MaxOf(d.wal[i].ver, upTo[i - 1])
    IN  upTo[Len(d.wal)]

open ==
    LET f == MainFile(disk)
        h == ChosenHeader(f)
    IN  /\ ~ up
        /\ run < MaxRuns
        /\ Openable(disk)
        /\ up' = TRUE
        /\ run' = run + 1
        /\ disk' = [disk EXCEPT !.main = f,
                                !.bak = IF disk.main = NoFile THEN NoFile ELSE @]
        /\ mem' = RecoveredMap(disk)
        /\ journal' = WalChanges(disk.wal)
        /\ has_checkpoint' = (h.chunk # 0)
        /\ journaling' = (h.chunk # 0 \/ disk.wal # <<>>)
        /\ version' = RecoveredVersion(disk)
        /\ next_commit_version' = RecoveredVersion(disk)
        /\ handle' = TRUE
        /\ header' = h
        /\ active' = {} /\ next_tx_id' = 1
        /\ commit' = NoCommit /\ job' = NoJob
        /\ UNCHANGED <<acked, started, unreplaced>>

----------------------------------------------------------------------------
(* The map under transactions. *)

\* compact and reclaim hold every journal lock: puts and removes wait.
Frozen == job.kind \in {"compact", "reclaim"}

\* MVMap::put / remove of one entry.
Store(k, e) ==
    /\ mem' = [mem EXCEPT ![k] = e]
    /\ journal' = IF journaling THEN [journal EXCEPT ![k] = e] ELSE journal

begin ==
    /\ up /\ next_tx_id <= MaxTx
    /\ active' = active \cup {next_tx_id}
    /\ next_tx_id' = next_tx_id + 1
    /\ UNCHANGED <<mem, journal, journaling, has_checkpoint, version,
                   next_commit_version, handle, header, commit, job, run, up,
                   disk, acked, started, unreplaced>>

Mine(t, k) == mem[k].unc = [tx |-> t, run |-> run]

\* An uncommitted record; a record of a transaction that is not active is
\* overwritten.
put(t, k) ==
    /\ up /\ t \in active /\ commit.tx # t /\ ~ Frozen
    /\ mem[k].unc.tx \notin active
    /\ Store(k, [mem[k] EXCEPT !.unc = [tx |-> t, run |-> run]])
    /\ UNCHANGED <<journaling, has_checkpoint, version, next_commit_version,
                   handle, header, active, next_tx_id, commit, job, run, up,
                   disk, acked, started, unreplaced>>

\* rollback of one entry; the entry goes when no committed value is in it.
undo(t, k) ==
    /\ up /\ t \in active /\ commit.tx # t /\ ~ Frozen
    /\ Mine(t, k)
    /\ Store(k, [mem[k] EXCEPT !.unc = NoOne])
    /\ UNCHANGED <<journaling, has_checkpoint, version, next_commit_version,
                   handle, header, active, next_tx_id, commit, job, run, up,
                   disk, acked, started, unreplaced>>

finish(t) ==
    /\ up /\ t \in active /\ commit.tx # t
    /\ \A k \in Keys : ~ Mine(t, k)
    /\ active' = active \ {t}
    /\ UNCHANGED <<mem, journal, journaling, has_checkpoint, version,
                   next_commit_version, handle, header, next_tx_id, commit,
                   job, run, up, disk, acked, started, unreplaced>>

----------------------------------------------------------------------------
(* commit_with, alone in its batch.  The checkpoint gate keeps commits and  *)
(* jobs apart.                                                             *)

commit_append(t) ==
    /\ up /\ t \in active /\ commit = NoCommit /\ job = NoJob
    /\ started.commits < MaxCommits
    /\ \E k \in Keys : Mine(t, k)
    /\ LET v == next_commit_version + 1
           id == started.commits + 1
           changes == [k \in Keys |-> IF Mine(t, k)
                                      THEN [val |-> id, ver |-> v, unc |-> NoOne]
                                      ELSE NoChange]
       IN  /\ next_commit_version' = v
           /\ commit' = [tx |-> t, at |-> "appended", id |-> id, ver |-> v,
                         changes |-> changes]
           /\ disk' = [disk EXCEPT !.wal = Append(@, [ver |-> v, changes |-> changes])]
           /\ started' = [started EXCEPT !.commits = id]
    /\ UNCHANGED <<mem, journal, journaling, has_checkpoint, version, handle,
                   header, active, next_tx_id, job, run, up, acked, unreplaced>>

\* fsync succeeded: the changes go into the map and the version is published.
commit_sync ==
    /\ up /\ commit.at = "appended"
    /\ mem' = Overlay(commit.changes, mem)
    /\ journal' = IF journaling THEN Overlay(commit.changes, journal) ELSE journal
    /\ version' = commit.ver
    /\ acked' = [k \in Keys |-> IF commit.changes[k] = NoChange THEN acked[k] ELSE commit.id]
    /\ active' = active \ {commit.tx}
    /\ commit' = NoCommit
    /\ UNCHANGED <<journaling, has_checkpoint, next_commit_version, handle,
                   header, next_tx_id, job, run, up, disk, started, unreplaced>>

\* fsync failed: the record is cut off, the transaction goes on to roll back.
commit_sync_fails ==
    /\ up /\ commit.at = "appended"
    /\ disk' = [disk EXCEPT !.wal = SubSeq(@, 1, Len(@) - 1)]
    /\ commit' = NoCommit
    /\ UNCHANGED <<memoryVars, job, run, up, acked, started, unreplaced>>

----------------------------------------------------------------------------
(* checkpoint: a full chunk the first time, afterwards the journal as a    *)
(* delta on the chunk of the header.                                       *)

JobMayStart == up /\ commit = NoCommit /\ job = NoJob /\ started.jobs < MaxJobs

checkpoint_begin ==
    /\ JobMayStart
    /\ job' = [kind |-> "checkpoint", at |-> "chunk", version |-> version + 1,
               data |-> IF has_checkpoint THEN journal ELSE mem, drained |-> journal]
    /\ journal' = Unchanged
    /\ journaling' = TRUE
    /\ started' = [started EXCEPT !.jobs = @ + 1]
    /\ UNCHANGED <<mem, has_checkpoint, version, next_commit_version, handle,
                   header, active, next_tx_id, commit, run, up, disk, acked,
                   unreplaced>>

\* The chunk is appended and synced; nothing points to it yet.
write_chunk ==
    /\ up /\ job.kind = "checkpoint" /\ job.at = "chunk" /\ handle
    /\ disk' = [disk EXCEPT !.main.chunks =
                   Append(@, [full |-> ~ has_checkpoint, data |-> job.data,
                              previous |-> header.chunk])]
    /\ job' = [job EXCEPT !.at = "shadow"]
    /\ UNCHANGED <<memoryVars, commit, run, up, acked, started, unreplaced>>

NewHeader == [version |-> job.version, chunk |-> Len(disk.main.chunks)]

write_shadow ==
    /\ up /\ job.at = "shadow"
    /\ disk' = [disk EXCEPT !.main.shadow = NewHeader]
    /\ job' = [job EXCEPT !.at = "primary"]
    /\ UNCHANGED <<memoryVars, commit, run, up, acked, started, unreplaced>>

\* The version the checkpoint takes, and the state that goes with it.
Checkpointed(h) ==
    /\ header' = h
    /\ version' = job.version
    /\ next_commit_version' = MaxOf(next_commit_version, job.version)
    /\ has_checkpoint' = (has_checkpoint \/ job.kind = "checkpoint")
    /\ job' = [job EXCEPT !.at = "clear"]

write_primary ==
    /\ up /\ job.at = "primary"
    /\ disk' = [disk EXCEPT !.main.primary = NewHeader]
    /\ Checkpointed(NewHeader)
    /\ UNCHANGED <<mem, journal, journaling, handle, active, next_tx_id,
                   commit, run, up, acked, started, unreplaced>>

\* Without an open file FileStore behaves as in-memory: only the version moves.
write_nothing ==
    /\ up /\ job.kind = "checkpoint" /\ job.at = "chunk" /\ ~ handle
    /\ Checkpointed([header EXCEPT !.version = job.version])
    /\ UNCHANGED <<mem, journal, journaling, handle, active, next_tx_id,
                   commit, run, up, disk, acked, started, unreplaced>>

\* Mutant of checkpoint_fails: the drained journal is lost.
checkpoint_fails_forgets ==
    /\ WriteErrors
    /\ up /\ job.kind = "checkpoint" /\ handle
    /\ job.at \in {"chunk", "shadow", "primary"}
    /\ job' = NoJob
    /\ UNCHANGED <<memoryVars, disk, commit, run, up, acked, started,
                   unreplaced>>

\* A write fails: the drained journal goes back under the newer changes.
checkpoint_fails ==
    /\ WriteErrors
    /\ up /\ job.kind = "checkpoint" /\ handle
    /\ \/ job.at = "chunk" /\ UNCHANGED disk
       \/ job.at = "shadow" /\ \E s \in {disk.main.shadow, NewHeader} :
              disk' = [disk EXCEPT !.main.shadow = s]
       \/ job.at = "primary" /\ \E s \in {disk.main.primary, NewHeader} :
              disk' = [disk EXCEPT !.main.primary = s]
    /\ journal' = Overlay(journal, job.drained)
    /\ job' = NoJob
    /\ UNCHANGED <<mem, journaling, has_checkpoint, version,
                   next_commit_version, handle, header, active, next_tx_id,
                   commit, run, up, acked, started, unreplaced>>

\* The WAL is truncated; a rewrite then resets the frozen journals.
clear_wal ==
    /\ up /\ job.at = "clear"
    /\ disk' = [disk EXCEPT !.wal = <<>>]
    /\ journal' = IF job.kind = "checkpoint" THEN journal ELSE Unchanged
    /\ has_checkpoint' = TRUE
    /\ job' = NoJob
    /\ UNCHANGED <<mem, journaling, version, next_commit_version, handle,
                   header, active, next_tx_id, commit, run, up, acked, started,
                   unreplaced>>

\* The truncation fails: the job ends here, the WAL keeps its records.
clear_wal_fails ==
    /\ WriteErrors
    /\ up /\ job.at = "clear"
    /\ job' = NoJob
    /\ UNCHANGED <<memoryVars, commit, run, up, disk, acked, started,
                   unreplaced>>

----------------------------------------------------------------------------
(* compact (VACUUM FULL) and reclaim_checkpoint_history: the whole file is  *)
(* rewritten by FileStore::compact_and_rewrite.                             *)

\* compact keeps what is visible at the current version and stamps it with
\* that version; reclaim keeps the entries as they are under a new version.
CleanMap == [k \in Keys |-> IF mem[k].val = 0 THEN Absent
                            ELSE [val |-> mem[k].val, ver |-> version, unc |-> NoOne]]

rewrite_begin(kind) ==
    /\ JobMayStart
    /\ EarlyRewrites \/ has_checkpoint
    /\ job' = [kind |-> kind, at |-> "tmp", drained |-> Unchanged,
               version |-> IF kind = "compact" THEN version ELSE version + 1,
               data |-> IF kind = "compact" THEN CleanMap ELSE mem]
    /\ started' = [started EXCEPT !.jobs = @ + 1]
    /\ UNCHANGED <<memoryVars, commit, run, up, disk, acked, unreplaced>>

\* The temporary file is complete and synced; the old file is closed and a
\* left-over backup removed.
write_tmp ==
    LET h == [version |-> job.version, chunk |-> 1]
    IN  /\ up /\ job.at = "tmp"
        /\ disk' = [disk EXCEPT
                      !.tmp = [chunks |-> <<[full |-> TRUE, data |-> job.data, previous |-> 0]>>,
                               primary |-> h, shadow |-> h],
                      !.bak = NoFile]
        /\ handle' = FALSE
        /\ job' = [job EXCEPT !.at = "move"]
        /\ UNCHANGED <<mem, journal, journaling, has_checkpoint, version,
                       next_commit_version, header, active, next_tx_id, commit,
                       run, up, acked, started, unreplaced>>

\* The temporary file cannot be written: the store is as before.
write_tmp_fails ==
    /\ WriteErrors
    /\ up /\ job.at = "tmp"
    /\ job' = NoJob
    /\ UNCHANGED <<memoryVars, commit, run, up, disk, acked, started,
                   unreplaced>>

rename_main_to_bak ==
    /\ up /\ job.at = "move"
    /\ disk.main # NoFile
    /\ disk' = [disk EXCEPT !.bak = disk.main, !.main = NoFile]
    /\ job' = [job EXCEPT !.at = "place"]
    /\ UNCHANGED <<memoryVars, commit, run, up, acked, started, unreplaced>>

rename_tmp_to_main ==
    /\ up /\ job.at = "place"
    /\ disk' = [disk EXCEPT !.main = disk.tmp, !.tmp = NoFile]
    /\ job' = [job EXCEPT !.at = "drop"]
    /\ UNCHANGED <<memoryVars, commit, run, up, acked, started, unreplaced>>

\* The old file cannot be moved but the new one can be put in its place.
replace_directly ==
    /\ RenameErrors
    /\ up /\ job.at = "move"
    /\ disk' = [disk EXCEPT !.main = disk.tmp, !.tmp = NoFile]
    /\ job' = [job EXCEPT !.at = "reopen"]
    /\ UNCHANGED <<memoryVars, commit, run, up, acked, started, unreplaced>>

\* The new file cannot be put in place: the old one is moved back (that may
\* fail too, unnoticed) and the loop tries again.
rename_back ==
    /\ RenameErrors
    /\ up /\ job.at = "place"
    /\ disk' \in {disk, [disk EXCEPT !.main = disk.bak, !.bak = NoFile]}
    /\ job' = [job EXCEPT !.at = "move"]
    /\ UNCHANGED <<memoryVars, commit, run, up, acked, started, unreplaced>>

\* The backup is removed (not after a direct replacement) and the new file
\* opened.
drop_bak ==
    /\ up /\ job.at \in {"drop", "reopen"}
    /\ disk' = [disk EXCEPT !.bak = IF job.at = "drop" THEN NoFile ELSE @]
    /\ handle' = TRUE
    /\ Checkpointed([version |-> job.version, chunk |-> 1])
    /\ UNCHANGED <<mem, journal, journaling, active, next_tx_id, commit, run,
                   up, acked, started, unreplaced>>

\* Ten attempts to replace the file failed: the file stays closed.
replace_fails ==
    /\ RenameErrors
    /\ up /\ job.at = "move"
    /\ job' = NoJob
    /\ unreplaced' = TRUE
    /\ UNCHANGED <<memoryVars, commit, run, up, disk, acked, started>>

----------------------------------------------------------------------------
(* Crash. *)

\* The files a crash may leave now: an unsynced WAL record or an interrupted
\* truncation is there or not, the header slot being written is old, new or
\* torn.
HalfWritten(slot) == {slot, NewHeader} \cup (IF started.torn < MaxTorn THEN {Torn} ELSE {})

CrashOutcomes ==
    CASE commit.at = "appended" -> {disk, [disk EXCEPT !.wal = SubSeq(@, 1, Len(@) - 1)]}
      [] job.at = "shadow" -> {[disk EXCEPT !.main.shadow = s] : s \in HalfWritten(disk.main.shadow)}
      [] job.at = "primary" -> {[disk EXCEPT !.main.primary = s] : s \in HalfWritten(disk.main.primary)}
      [] job.at = "clear" -> {disk, [disk EXCEPT !.wal = <<>>]}
      [] OTHER -> {disk}

\* A commit whose record survived counts as acknowledged from here on.
crash ==
    /\ up
    /\ run < MaxRuns
    /\ \E d \in CrashOutcomes :
          /\ disk' = d
          /\ acked' = IF commit.at = "appended" /\ Len(d.wal) = Len(disk.wal)
                      THEN [k \in Keys |-> IF commit.changes[k] = NoChange THEN acked[k]
                                           ELSE commit.id]
                      ELSE acked
          /\ started' = IF \/ job.at = "shadow" /\ d.main.shadow = Torn
                           \/ job.at = "primary" /\ d.main.primary = Torn
                        THEN [started EXCEPT !.torn = @ + 1] ELSE started
    /\ up' = FALSE
    /\ commit' = NoCommit /\ job' = NoJob
    /\ UNCHANGED <<memoryVars, run, unreplaced>>

----------------------------------------------------------------------------

Next ==
    \/ begin
    \/ \E t \in 1 .. MaxTx :
          \/ \E k \in Keys : put(t, k) \/ undo(t, k)
          \/ finish(t)
          \/ commit_append(t)
    \/ commit_sync \/ commit_sync_fails
    \/ checkpoint_begin \/ write_chunk \/ write_shadow \/ write_primary
    \/ write_nothing \/ checkpoint_fails \/ clear_wal \/ clear_wal_fails
    \/ \E kind \in {"compact", "reclaim"} : rewrite_begin(kind)
    \/ write_tmp \/ write_tmp_fails \/ rename_main_to_bak \/ rename_tmp_to_main
    \/ replace_directly \/ rename_back \/ drop_bak \/ replace_fails
    \/ crash \/ open

Spec == Init /\ [][Next]_vars

----------------------------------------------------------------------------
(* Properties. *)

\* The committed version never passes the counter that the next commit takes
\* its version from.
TypeOK ==
    LET Entry == [val : 0 .. MaxCommits, ver : Nat,
                  unc : [tx : 0 .. MaxTx, run : 0 .. MaxRuns]]
    IN  /\ mem \in [Keys -> Entry] /\ journal \in [Keys -> Entry]
        /\ journaling \in BOOLEAN /\ has_checkpoint \in BOOLEAN
        /\ next_commit_version \in Nat /\ version \in 0 .. next_commit_version
        /\ handle \in BOOLEAN /\ up \in BOOLEAN /\ run \in 1 .. MaxRuns
        /\ next_tx_id \in 1 .. MaxTx + 1 /\ active \subseteq 1 .. next_tx_id - 1
        /\ acked \in [Keys -> 0 .. MaxCommits]
        /\ handle => header.chunk \in 0 .. Len(disk.main.chunks)

\* A crash at any moment, in the middle of any write, leaves files that
\* MVStore::open accepts: one header slot is always readable and, unless a
\* rewrite has given up between its renames, the main file or its backup is
\* in place.
AlwaysOpenable ==
    \A d \in CrashOutcomes :
        /\ Openable(d)
        /\ unreplaced \/ d.main # NoFile \/ d.bak # NoFile

\* Whatever a crash leaves behind, recovery returns for every key the newest
\* acknowledged value, or for all keys of the commit in flight its values:
\* acknowledged commits survive checkpoints, rewrites, failed attempts at
\* them and repeated crashes, and a commit survives as a whole or not at all.
\* The recovered version reaches every recovered value, so new snapshots see
\* all of them.  A rewrite that gives up leaves FileStore closed, and nothing
\* is said of what follows.
AcknowledgedSurvives ==
    unreplaced \/ \A d \in CrashOutcomes : Openable(d) =>
        /\ \/ \A k \in Keys : RecoveredMap(d)[k].val = acked[k]
           \/ /\ commit.at = "appended"
              /\ \A k \in Keys :
                    RecoveredMap(d)[k].val = IF commit.changes[k] = NoChange THEN acked[k]
                                             ELSE commit.id
        /\ \A k \in Keys : RecoveredMap(d)[k].ver <= RecoveredVersion(d)

\* Between jobs, the last chunk with the journal over it is the map in memory:
\* the journal misses no change, also when a failed checkpoint gave it back.
\* Nothing is said once a rewrite has given up and left the file closed.
NothingEscapesTheJournal ==
    up /\ commit = NoCommit /\ job = NoJob /\ has_checkpoint /\ ~ unreplaced =>
        \A k \in Keys :
            Overlay(journal, ChainData(disk.main, header.chunk))[k].val = mem[k].val

============================================================================
