----------------------------- MODULE GroupCommit -----------------------------
(***************************************************************************)
(* MVStore::commit_with (store.rs): committers append their records to the  *)
(* WAL under the queue mutex, one of them leads, syncs the file once for   *)
(* everybody that is pending, makes the batch visible and tells each        *)
(* member its outcome; MVStore::checkpoint excludes all of them through    *)
(* the checkpoint gate.  I/O errors of append, sync and truncate are steps *)
(* of their own; an error that cannot be undone poisons the queue.         *)
(*                                                                         *)
(* A record is its commit version.  The contents of records, and what a     *)
(* transaction does with its outcome, are the subject of Transactions; the *)
(* steps of a checkpoint that of MVStore.                                  *)
(***************************************************************************)
EXTENDS Naturals, Sequences, FiniteSets

CONSTANTS Committers,   \* threads that call commit_with
          NoOne,        \* no holder, no value
          MaxVersion    \* bound: versions that are assigned

ASSUME NoOneAssumption ==
    NoOne \notin Committers /\ NoOne \notin Nat /\ NoOne \notin {"ok", "durable_error", "failed"}
ASSUME BoundAssumption == MaxVersion \in Nat

VARIABLES
    pc,           \* where each committer stands
    mine,         \* commit_version of the record a committer is committing
    queue,        \* holder of the commit queue mutex
    pending,      \* CommitQueue.pending: versions, oldest first
    leader,       \* CommitQueue.leader
    batch_start,  \* CommitQueue.batch_start_offset
    poisoned,     \* CommitQueue.poisoned
    batch,        \* what the leader took out of pending
    start,        \* the leader's batch_start
    completed,    \* outcome stored for a committer
    wal,          \* records in the WAL file, in order
    version,      \* newest published version
    next_commit_version,
    saved,        \* versions contained in the last checkpoint
    visible,      \* versions whose changes are in the maps
    acked,        \* versions whose commit was reported durable
    failed        \* versions whose commit was reported failed, not durable

vars == <<pc, mine, queue, pending, leader, batch_start, poisoned, batch, start,
          completed, wal, version, next_commit_version, saved, visible, acked,
          failed>>

Range(s) == {s[i] : i \in DOMAIN s}
Outcomes == {"ok", "durable_error", "failed"}

TypeOK ==
    /\ pc \in [Committers -> {"idle", "gate", "append", "lead", "sync", "apply",
                              "complete", "wait"}]
    /\ mine \in [Committers -> Nat]
    /\ queue \in Committers \cup {NoOne}
    /\ pending \in Seq(Nat) /\ batch \in Seq(Nat) /\ wal \in Seq(Nat)
    /\ leader \in BOOLEAN /\ poisoned \in BOOLEAN
    /\ batch_start \in Nat \cup {NoOne}
    /\ start \in Nat
    /\ completed \in [Committers -> Outcomes \cup {NoOne}]
    /\ version \in Nat /\ next_commit_version \in Nat
    /\ saved \subseteq Nat /\ visible \subseteq Nat
    /\ acked \subseteq Nat /\ failed \subseteq Nat

Init ==
    /\ pc = [c \in Committers |-> "idle"]
    /\ mine = [c \in Committers |-> 0]
    /\ queue = NoOne
    /\ pending = <<>> /\ batch = <<>> /\ wal = <<>>
    /\ leader = FALSE /\ poisoned = FALSE
    /\ batch_start = NoOne /\ start = 0
    /\ completed = [c \in Committers |-> NoOne]
    /\ version = 0 /\ next_commit_version = 0
    /\ saved = {} /\ visible = {} /\ acked = {} /\ failed = {}

Goto(c, p) == pc' = [pc EXCEPT ![c] = p]

----------------------------------------------------------------------------
(* A committer. *)

\* The checkpoint gate is entered (shared).
enter_commit_gate(c) ==
    /\ pc[c] = "idle"
    /\ Goto(c, "gate")
    /\ UNCHANGED <<mine, queue, pending, leader, batch_start, poisoned, batch,
                   start, completed, wal, version, next_commit_version, saved,
                   visible, acked, failed>>

\* A poisoned queue takes no more commits.
refuse(c) ==
    /\ pc[c] = "gate"
    /\ queue = NoOne
    /\ poisoned
    /\ Goto(c, "idle")
    /\ UNCHANGED <<mine, queue, pending, leader, batch_start, poisoned, batch,
                   start, completed, wal, version, next_commit_version, saved,
                   visible, acked, failed>>

\* The mutex is taken and a version assigned.
assign_version(c) ==
    /\ pc[c] = "gate"
    /\ queue = NoOne
    /\ ~ poisoned
    /\ next_commit_version < MaxVersion
    /\ queue' = c
    /\ next_commit_version' = next_commit_version + 1
    /\ mine' = [mine EXCEPT ![c] = next_commit_version + 1]
    /\ completed' = [completed EXCEPT ![c] = NoOne]
    /\ Goto(c, "append")
    /\ UNCHANGED <<pending, leader, batch_start, poisoned, batch, start, wal,
                   version, saved, visible, acked, failed>>

\* `prepare` fails before anything is written: only the version is lost.
prepare_fails(c) ==
    /\ pc[c] = "append"
    /\ queue' = NoOne
    /\ failed' = failed \cup {mine[c]}
    /\ Goto(c, "idle")
    /\ UNCHANGED <<mine, pending, leader, batch_start, poisoned, batch, start,
                   completed, wal, version, next_commit_version, saved, visible,
                   acked>>

\* The first record of a batch notes where the batch starts in the file.
NoteBatchStart == batch_start' = IF pending = <<>> THEN Len(wal) ELSE batch_start

append_unsynced(c) ==
    /\ pc[c] = "append"
    /\ NoteBatchStart
    /\ wal' = Append(wal, mine[c])
    /\ pending' = Append(pending, mine[c])
    /\ Goto(c, IF leader THEN "wait" ELSE "lead")
    /\ leader' = TRUE
    /\ queue' = NoOne
    /\ UNCHANGED <<mine, poisoned, batch, start, completed, version,
                   next_commit_version, saved, visible, acked, failed>>

\* Mutant of append_fails: what was written is not cut off.
append_fails_uncut(c) ==
    /\ pc[c] = "append"
    /\ NoteBatchStart
    /\ wal' \in {wal, Append(wal, mine[c])}
    /\ failed' = failed \cup {mine[c]}
    /\ queue' = NoOne
    /\ Goto(c, "idle")
    /\ UNCHANGED <<mine, pending, leader, poisoned, batch, start, completed,
                   version, next_commit_version, saved, visible, acked>>

\* The append fails and is cut off again; if that fails too the queue is
\* poisoned and the record may be in the file.
append_fails(c) ==
    /\ pc[c] = "append"
    /\ NoteBatchStart
    /\ \/ UNCHANGED <<wal, poisoned>>
       \/ poisoned' = TRUE /\ wal' \in {wal, Append(wal, mine[c])}
    /\ failed' = failed \cup {mine[c]}
    /\ queue' = NoOne
    /\ Goto(c, "idle")
    /\ UNCHANGED <<mine, pending, leader, batch, start, completed, version,
                   next_commit_version, saved, visible, acked>>

\* A completed committer reports its outcome and leaves the gate.
return(c) ==
    /\ pc[c] = "wait"
    /\ completed[c] # NoOne
    /\ IF completed[c] = "failed"
       THEN failed' = failed \cup {mine[c]} /\ UNCHANGED acked
       ELSE acked' = acked \cup {mine[c]} /\ UNCHANGED failed
    /\ Goto(c, "idle")
    /\ UNCHANGED <<mine, queue, pending, leader, batch_start, poisoned, batch,
                   start, completed, wal, version, next_commit_version, saved,
                   visible>>

----------------------------------------------------------------------------
(* The leader. *)

take_pending(c) ==
    /\ pc[c] = "lead"
    /\ queue = NoOne
    /\ queue' = c
    /\ batch' = pending
    /\ pending' = <<>>
    /\ start' = IF batch_start = NoOne THEN 0 ELSE batch_start
    /\ batch_start' = NoOne
    /\ Goto(c, "sync")
    /\ UNCHANGED <<mine, leader, poisoned, completed, wal, version,
                   next_commit_version, saved, visible, acked, failed>>

sync_succeeds(c) ==
    /\ pc[c] = "sync"
    /\ Goto(c, "apply")
    /\ UNCHANGED <<mine, queue, pending, leader, batch_start, poisoned, batch,
                   start, completed, wal, version, next_commit_version, saved,
                   visible, acked, failed>>

\* Mutant of Members: only the first record of the batch gets its outcome.
Members_first_only == {d \in Committers : mine[d] = batch[1] /\ pc[d] # "idle"}

\* The committers whose records are in the batch: each finds its outcome.
Members == {d \in Committers : mine[d] \in Range(batch) /\ pc[d] # "idle"}

\* Mutant of Complete: the leadership is not given up.
Complete_still_leads(c, outcomes) ==
    /\ completed' = [d \in Committers |-> IF d \in Members THEN outcomes[d] ELSE completed[d]]
    /\ queue' = NoOne
    /\ batch' = <<>>
    /\ Goto(c, "wait")
    /\ UNCHANGED leader

Complete(c, outcomes) ==
    /\ completed' = [d \in Committers |-> IF d \in Members THEN outcomes[d] ELSE completed[d]]
    /\ leader' = FALSE
    /\ queue' = NoOne
    /\ batch' = <<>>
    /\ Goto(c, "wait")

\* The batch is cut off the file; if that fails the queue is poisoned.
sync_fails(c) ==
    /\ pc[c] = "sync"
    /\ \/ wal' = SubSeq(wal, 1, start) /\ UNCHANGED poisoned
       \/ poisoned' = TRUE /\ wal' \in {wal, SubSeq(wal, 1, start)}
    /\ Complete(c, [d \in Committers |-> "failed"])
    /\ UNCHANGED <<mine, pending, batch_start, start, version,
                   next_commit_version, saved, visible, acked, failed>>

\* The changes of the batch go into the maps, then its last version is
\* published.
apply_batch(c) ==
    /\ pc[c] = "apply"
    /\ visible' = visible \cup Range(batch)
    /\ version' = IF batch = <<>> THEN version ELSE batch[Len(batch)]
    /\ Goto(c, "complete")
    /\ UNCHANGED <<mine, queue, pending, leader, batch_start, poisoned, batch,
                   start, completed, wal, next_commit_version, saved, acked,
                   failed>>

\* The replication listener is told of each record in turn; its error makes
\* the outcome of that record an error that is nevertheless durable.
complete_batch(c) ==
    /\ pc[c] = "complete"
    /\ \E o \in [Committers -> {"ok", "durable_error"}] : Complete(c, o)
    /\ UNCHANGED <<mine, pending, batch_start, poisoned, start, wal, version,
                   next_commit_version, saved, visible, acked, failed>>

----------------------------------------------------------------------------
(* MVStore::checkpoint and the other holders of the exclusive gate.  The    *)
(* truncation of the WAL at its end may fail.                              *)

checkpoint ==
    /\ \A c \in Committers : pc[c] = "idle"
    /\ version < MaxVersion
    /\ saved' = visible
    /\ wal' \in {<<>>, wal}
    /\ version' = version + 1
    /\ next_commit_version' = IF next_commit_version < version + 1
                              THEN version + 1 ELSE next_commit_version
    /\ UNCHANGED <<pc, mine, queue, pending, leader, batch_start, poisoned, batch,
                   start, completed, visible, acked, failed>>

----------------------------------------------------------------------------

step(c) ==
    \/ refuse(c) \/ assign_version(c) \/ prepare_fails(c) \/ append_unsynced(c)
    \/ append_fails(c) \/ return(c) \/ take_pending(c) \/ sync_succeeds(c)
    \/ sync_fails(c) \/ apply_batch(c) \/ complete_batch(c)

Next == checkpoint \/ \E c \in Committers : enter_commit_gate(c) \/ step(c)

Spec == Init /\ [][Next]_vars

\* A thread inside commit_with keeps executing; the mutex is handed on fairly
\* (parking_lot mutexes are eventually fair).
FairSpec == Spec /\ \A c \in Committers : SF_vars(step(c))

----------------------------------------------------------------------------
(* Properties. *)

\* An acknowledged commit is in the WAL or in the last checkpoint, whatever
\* other committers' appends, syncs and truncations fail.
AcknowledgedIsLogged == acked \subseteq saved \cup Range(wal)

\* A commit that was reported failed and rolled back never becomes visible,
\* and unless the queue is poisoned no record of it is left to be replayed.
FailedIsGone ==
    /\ failed \cap visible = {}
    /\ poisoned \/ failed \cap Range(wal) = {}

\* Nothing becomes visible before it is on stable storage, and what is visible
\* stays there.
VisibleIsLogged == visible \subseteq saved \cup Range(wal)

\* Recovery replays the WAL front to back: the versions in it ascend.
WalAscends == \A i, j \in DOMAIN wal : i < j => wal[i] < wal[j]

\* Nobody is left behind: as long as records are pending there is a leader on
\* its way to take them.
PendingHasLeader == pending # <<>> => \E c \in Committers : pc[c] = "lead"

\* At most one committer leads.
OneLeader ==
    \A c, d \in Committers :
        pc[c] \in {"lead", "sync", "apply", "complete"}
        /\ pc[d] \in {"lead", "sync", "apply", "complete"} => c = d

\* A transaction that begins after a commit was acknowledged sees it: the
\* published version has reached it.
AcknowledgedIsPublished == \A v \in acked : v <= version /\ v \in visible

\* The published version never goes back.
VersionAdvances == [][version' >= version]_vars

\* commit_with returns.
CommitsReturn == \A c \in Committers : pc[c] \in {"append", "lead", "wait"} ~> pc[c] = "idle"

============================================================================
