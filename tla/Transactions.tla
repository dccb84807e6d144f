---------------------------- MODULE Transactions ----------------------------
(***************************************************************************)
(* MVCC transactions of h2-mvstore (tx/transaction.rs, tx/store.rs) over   *)
(* the map of versioned values, the key stripes, the lock-wait protocol of *)
(* LockManager, group commit as seen by transactions                       *)
(* (MVStore::commit_with) and the online vacuum.                           *)
(*                                                                         *)
(* A step is one critical section.  In particular put/remove read the      *)
(* entry, ask whether its holder is active and write the entry in separate *)
(* steps: the stripe they hold keeps other puts, removes, rollbacks and    *)
(* prepares away, but neither the leader of a commit batch nor the vacuum  *)
(* takes it.                                                               *)
(*                                                                         *)
(* Reads (get and the scans) change nothing; what they return is the       *)
(* operator Visible, and the properties quantify over it in every state.   *)
(***************************************************************************)
EXTENDS LockManager, VersionedValue, Functions

CONSTANTS Keys,        \* keys (natural numbers: a scan goes through them in order)
          Loaded,      \* the value of keys loaded before the transactions start
          MaxOps,      \* bound: calls of put and remove per transaction
          MaxVacuums,  \* bound: runs of vacuum_map (0: no vacuum)
          Contended,   \* may two open transactions write the same key?
          Rewrites,    \* may a transaction write a key more than once?
          Removes      \* do transactions also call remove?

\* What an entry of the map holds.
Versions == [value : Tx \cup {Loaded, NoValue}, commit_version : Nat]
Uncommitted == [tx_id : Tx, value : Tx \cup {NoValue}]
Entries == [uncommitted : Uncommitted \cup {NoValue}, committed_history : Seq(Versions)]

ASSUME KeysAssumption == Keys \subseteq Nat /\ IsFiniteSet(Keys)
ASSUME BoundsAssumption == MaxOps \in Nat /\ MaxVacuums \in Nat
\* None of an Option is none of its values, and the loaded value is nobody's.
ASSUME ValuesAssumption ==
    /\ NoValue \notin Tx \cup Uncommitted \cup Entries \cup {"ok", "failed"}
    /\ Loaded \notin Tx

VARIABLES
    map,       \* key -> VersionedValue, or NoValue when the key is absent
    stripe,    \* key -> transaction that holds the key guard, or None
    pc,        \* where the thread of a transaction stands in a call
    status,    \* TransactionStatus
    snapshot,  \* snapshot_version
    undo,      \* undo_log: keys in the order they were written
    call,      \* the put or remove in progress: its key and its value
    seen,      \* existing_vv, as read under the key guard
    ops,       \* calls made so far
    version,   \* MVStore.version: the newest published version
    next_commit_version,
    pending,   \* CommitQueue.pending
    leader,    \* CommitQueue.leader
    queue,     \* the transaction that holds the commit queue mutex, or None
    record,    \* the WAL record a committing transaction prepares
    todo,      \* undo entries still to prepare
    batch,     \* records the leader has taken out of pending
    applying,  \* positions of the changes of the batch still to be put into the map
    outcome,   \* what the leader stored for a committer
    durable,   \* records made durable by a successful sync, in order
    vacuum     \* the running vacuum_map

dataVars == <<map, stripe, pc, status, snapshot, undo, call, seen, ops, version,
              next_commit_version, pending, leader, queue, record, todo, batch,
              applying, outcome, durable, vacuum>>
vars == <<lockVars, dataVars>>

Last(s) == s[Len(s)]
Front(s) == SubSeq(s, 1, Len(s) - 1)

NoRecord == [tx_id |-> None, commit_version |-> 0, changes |-> <<>>]
Idle == [at |-> "idle", runs |-> 0, horizon |-> 0, entries |-> <<>>, left |-> {}]
\* What the store holds before the transactions start: the keys of L, loaded
\* by a commit of version 1.
LoadedVV == [uncommitted |-> NoValue,
             committed_history |-> <<[value |-> Loaded, commit_version |-> 1]>>]

LoadRecord(L) ==
    LET order == CHOOSE s \in [1 .. Cardinality(L) -> L] : Range(s) = L
    IN  [tx_id |-> None, commit_version |-> 1,
         changes |-> [i \in DOMAIN order |-> [key |-> order[i], value |-> LoadedVV]]]

Init ==
    /\ LockInit
    /\ \E L \in SUBSET Keys :
          /\ map = [k \in Keys |-> IF k \in L THEN LoadedVV ELSE NoValue]
          /\ durable = IF L = {} THEN <<>> ELSE <<LoadRecord(L)>>
    /\ stripe = [k \in Keys |-> None]
    /\ pc = [t \in Tx |-> "begin"]
    /\ status = [t \in Tx |-> "Open"]
    /\ snapshot = [t \in Tx |-> 0]
    /\ undo = [t \in Tx |-> <<>>]
    /\ call = [t \in Tx |-> NoValue]
    /\ seen = [t \in Tx |-> NoValue]
    /\ ops = [t \in Tx |-> 0]
    /\ version = 1
    /\ next_commit_version = 1
    /\ pending = <<>>
    /\ leader = FALSE
    /\ queue = None
    /\ record = [t \in Tx |-> NoRecord]
    /\ todo = [t \in Tx |-> <<>>]
    /\ batch = <<>>
    /\ applying = {}
    /\ outcome = [t \in Tx |-> NoValue]
    /\ vacuum = Idle

\* What get (and each scan, entry by entry) returns to an open transaction.
Visible(t, k) ==
    IF map[k] = NoValue THEN NoValue
    ELSE LET fast == read_visible_raw(map[k], snapshot[t])
         IN  IF fast # NoValue THEN fast
             ELSE read_visible(map[k], t, snapshot[t])

Goto(t, p) == pc' = [pc EXCEPT ![t] = p]
Unlock(k) == stripe' = [stripe EXCEPT ![k] = None]

----------------------------------------------------------------------------
(* TransactionStore::begin: the version is read first, the transaction is  *)
(* entered in active_transactions afterwards.                              *)

begin_read_version(t) ==
    /\ pc[t] = "begin"
    /\ snapshot' = [snapshot EXCEPT ![t] = version]
    /\ Goto(t, "enter")
    /\ UNCHANGED <<lockVars, map, stripe, status, undo, call, seen, ops, version,
                   next_commit_version, pending, leader, queue, record, todo,
                   batch, applying, outcome, durable, vacuum>>

begin_enter(t) ==
    /\ pc[t] = "enter"
    /\ begin(t)
    /\ Goto(t, "idle")
    /\ UNCHANGED <<map, stripe, status, snapshot, undo, call, seen, ops, version,
                   next_commit_version, pending, leader, queue, record, todo,
                   batch, applying, outcome, durable, vacuum>>

----------------------------------------------------------------------------
(* Transaction::put and Transaction::remove (value NoValue). *)

\* The workload of an instance: what the application lets transactions do.
MayWrite(t, k) ==
    /\ Contended \/ \A u \in Tx \ {t} : u \in active => k \notin Range(undo[u])
    /\ Rewrites \/ k \notin Range(undo[t])

\* lock_key and map.get.  remove returns at once when the key is absent.
lock_and_read(t, k, v) ==
    /\ stripe[k] = None
    /\ seen' = [seen EXCEPT ![t] = map[k]]
    /\ IF v = NoValue /\ map[k] = NoValue
       THEN /\ Goto(t, "idle")
            /\ call' = [call EXCEPT ![t] = NoValue]
            /\ UNCHANGED stripe
       ELSE /\ Goto(t, "locked")
            /\ call' = [call EXCEPT ![t] = [key |-> k, value |-> v]]
            /\ stripe' = [stripe EXCEPT ![k] = t]
    /\ UNCHANGED <<lockVars, map, status, snapshot, undo, version,
                   next_commit_version, pending, leader, queue, record, todo,
                   batch, applying, outcome, durable, vacuum>>

write_call(t, k, v) ==
    /\ pc[t] = "idle"
    /\ status[t] = "Open"
    /\ ops[t] < MaxOps
    /\ MayWrite(t, k)
    /\ ops' = [ops EXCEPT ![t] = @ + 1]
    /\ lock_and_read(t, k, v)

\* The loop of put starts over after a wait.
write_retry(t) ==
    /\ pc[t] = "retry"
    /\ lock_and_read(t, call[t].key, call[t].value)
    /\ UNCHANGED ops

\* Mutant of OtherTx: only a holder that began later counts as a conflict.
OtherTx_younger(t) ==
    IF seen[t] = NoValue \/ active_tx_id(seen[t]) \in {t, NoValue} THEN NoValue
    ELSE IF snapshot[active_tx_id(seen[t])] > snapshot[t] THEN active_tx_id(seen[t])
    ELSE NoValue

\* other_tx: the uncommitted record of somebody else.
OtherTx(t) ==
    IF seen[t] = NoValue \/ active_tx_id(seen[t]) = t THEN NoValue
    ELSE active_tx_id(seen[t])

\* Mutant of write_conflict: waits without asking whether the holder is active.
write_conflict_unasked(t) ==
    /\ pc[t] = "locked"
    /\ OtherTx(t) # NoValue
    /\ target' = [target EXCEPT ![t] = OtherTx(t)]
    /\ MoveTo(t, "conflict")
    /\ Goto(t, "wait")
    /\ Unlock(call[t].key)
    /\ UNCHANGED <<active, wait_for, wait_cells, arc, released>>
    /\ UNCHANGED <<map, status, snapshot, undo, call, seen, ops, version,
                   next_commit_version, pending, leader, queue, record, todo,
                   batch, applying, outcome, durable, vacuum>>

\* The holder is active: drop the guard and enter the wait protocol.
write_conflict(t) ==
    /\ pc[t] = "locked"
    /\ OtherTx(t) # NoValue
    /\ conflict(t, OtherTx(t))
    /\ Goto(t, "wait")
    /\ Unlock(call[t].key)
    /\ UNCHANGED <<map, status, snapshot, undo, call, seen, ops, version,
                   next_commit_version, pending, leader, queue, record, todo,
                   batch, applying, outcome, durable, vacuum>>

\* Nobody active holds the key: install the uncommitted record over the entry
\* as it was read.  remove gives up when the key is not visible.
write_install(t) ==
    LET k  == call[t].key
        vv == IF seen[t] = NoValue THEN EmptyVV ELSE seen[t]
    IN  /\ pc[t] = "locked"
        /\ OtherTx(t) = NoValue \/ OtherTx(t) \notin active
        /\ IF call[t].value = NoValue /\ read_visible(vv, t, snapshot[t]) = NoValue
           THEN UNCHANGED <<map, undo>>
           ELSE /\ map' = [map EXCEPT ![k] = set_uncommitted(vv, t, call[t].value)]
                /\ undo' = [undo EXCEPT ![t] = Append(@, k)]
        /\ Unlock(k)
        /\ Goto(t, "idle")
        /\ seen' = [seen EXCEPT ![t] = NoValue]
        /\ call' = [call EXCEPT ![t] = NoValue]
        /\ UNCHANGED <<lockVars, status, snapshot, ops, version,
                       next_commit_version, pending, leader, queue, record, todo,
                       batch, applying, outcome, durable, vacuum>>

\* The wait protocol; a woken put retries, a timed-out one returns its error,
\* a deadlock victim or an expired query rolls back.
wait_step(t) ==
    /\ pc[t] = "wait"
    /\ \/ (register_wait(t) \/ recheck_active(t) \/ fetch_cell(t) \/ wake(t) \/ timeout(t))
             /\ UNCHANGED pc
       \/ (deadlock_error(t) \/ query_timeout(t)) /\ Goto(t, "undo")
       \/ phase[t] = "woken" /\ leave_wait(t, "run") /\ Goto(t, "retry")
       \/ phase[t] = "timedout" /\ leave_wait(t, "run") /\ Goto(t, "idle")
       \/ leave_wait(t, "abort") /\ Goto(t, "undo")
    /\ UNCHANGED <<map, stripe, status, snapshot, undo, call, seen, ops, version,
                   next_commit_version, pending, leader, queue, record, todo,
                   batch, applying, outcome, durable, vacuum>>

----------------------------------------------------------------------------
(* Transaction::commit and MVStore::commit_with. *)

\* Nothing was written: commit only leaves the table of active transactions.
commit_empty(t) ==
    /\ pc[t] = "idle"
    /\ undo[t] = <<>>
    /\ remove_active(t)
    /\ status' = [status EXCEPT ![t] = "Committed"]
    /\ Goto(t, "end")
    /\ UNCHANGED <<map, stripe, snapshot, undo, call, seen, ops, version,
                   next_commit_version, pending, leader, queue, record, todo,
                   batch, applying, outcome, durable, vacuum>>

\* Take the queue mutex and the next commit version.
commit_start(t) ==
    /\ pc[t] = "idle"
    /\ undo[t] # <<>>
    /\ queue = None
    /\ queue' = t
    /\ next_commit_version' = next_commit_version + 1
    /\ record' = [record EXCEPT ![t] = [tx_id |-> t, changes |-> <<>>,
                                        commit_version |-> next_commit_version + 1]]
    /\ todo' = [todo EXCEPT ![t] = undo[t]]
    /\ Goto(t, "prepare")
    /\ UNCHANGED <<lockVars, map, stripe, status, snapshot, undo, call, seen, ops,
                   version, pending, leader, batch, applying, outcome, durable, vacuum>>

\* Mutant of PreparedChanges: a key that did not exist before is not logged.
PreparedChanges_updates_only(t, k) ==
    IF map[k] = NoValue THEN <<[key |-> k, value |-> NoValue]>>
    ELSE IF active_tx_id(map[k]) = t /\ map[k].committed_history # <<>>
    THEN <<[key |-> k, value |-> commit_uncommitted(map[k], record[t].commit_version)]>>
    ELSE <<>>

\* The change logged for one undo entry: the committed form of the entry if
\* it is still the transaction's own, its absence if the key is gone, and
\* nothing if somebody else's record is there.
PreparedChanges(t, k) ==
    IF map[k] = NoValue THEN <<[key |-> k, value |-> NoValue]>>
    ELSE IF active_tx_id(map[k]) = t
    THEN <<[key |-> k, value |-> commit_uncommitted(map[k], record[t].commit_version)]>>
    ELSE <<>>

prepare_entry(t) ==
    /\ pc[t] = "prepare"
    /\ todo[t] # <<>>
    /\ stripe[Head(todo[t])] = None
    /\ record' = [record EXCEPT ![t].changes = @ \o PreparedChanges(t, Head(todo[t]))]
    /\ todo' = [todo EXCEPT ![t] = Tail(@)]
    /\ UNCHANGED <<lockVars, map, stripe, pc, status, snapshot, undo, call, seen,
                   ops, version, next_commit_version, pending, leader, queue,
                   batch, applying, outcome, durable, vacuum>>

\* The record is appended to the WAL, unsynced; the first committer that finds
\* no leader becomes the leader.
enqueue(t) ==
    /\ pc[t] = "prepare"
    /\ todo[t] = <<>>
    /\ pending' = Append(pending, record[t])
    /\ Goto(t, IF leader THEN "queued" ELSE "lead")
    /\ leader' = TRUE
    /\ queue' = None
    /\ UNCHANGED <<lockVars, map, stripe, status, snapshot, undo, call, seen, ops,
                   version, next_commit_version, record, todo, batch, applying,
                   outcome, durable, vacuum>>

\* The append fails: the record is cut off again and the commit rolls back.
append_fails(t) ==
    /\ pc[t] = "prepare"
    /\ todo[t] = <<>>
    /\ queue' = None
    /\ Goto(t, "undo")
    /\ UNCHANGED <<lockVars, map, stripe, status, snapshot, undo, call, seen, ops,
                   version, next_commit_version, pending, leader, record, todo,
                   batch, applying, outcome, durable, vacuum>>

\* The leader takes the queue and everything pending, and keeps the mutex
\* until the batch is complete.
lead(t) ==
    /\ pc[t] = "lead"
    /\ queue = None
    /\ queue' = t
    /\ batch' = pending
    /\ pending' = <<>>
    /\ Goto(t, "sync")
    /\ UNCHANGED <<lockVars, map, stripe, status, snapshot, undo, call, seen, ops,
                   version, next_commit_version, leader, record, todo, applying,
                   outcome, durable, vacuum>>

\* Where the changes of a batch are: record by record, change by change.
Positions(b) == UNION {{i} \X DOMAIN b[i].changes : i \in DOMAIN b}

\* The order in which the leader puts the changes into the maps.
Precedes(p, q) == p[1] < q[1] \/ (p[1] = q[1] /\ p[2] <= q[2])

sync_succeeds(t) ==
    /\ pc[t] = "sync"
    /\ durable' = durable \o batch
    /\ applying' = Positions(batch)
    /\ Goto(t, "apply")
    /\ UNCHANGED <<lockVars, map, stripe, status, snapshot, undo, call, seen, ops,
                   version, next_commit_version, pending, leader, queue, record,
                   todo, batch, outcome, vacuum>>

\* Mutant of Complete: the leadership is not given up.
Complete_still_leads(t, result) ==
    /\ outcome' = [u \in Tx |-> IF \E i \in DOMAIN batch : batch[i].tx_id = u
                                THEN result ELSE outcome[u]]
    /\ queue' = None
    /\ batch' = <<>>
    /\ Goto(t, "queued")
    /\ UNCHANGED leader

\* Every member of the batch is told; the mutex and the leadership are given up.
Complete(t, result) ==
    /\ outcome' = [u \in Tx |-> IF \E i \in DOMAIN batch : batch[i].tx_id = u
                                THEN result ELSE outcome[u]]
    /\ leader' = FALSE
    /\ queue' = None
    /\ batch' = <<>>
    /\ Goto(t, "queued")

sync_fails(t) ==
    /\ pc[t] = "sync"
    /\ Complete(t, "failed")
    /\ UNCHANGED <<lockVars, map, stripe, status, snapshot, undo, call, seen, ops,
                   version, next_commit_version, pending, record, todo, applying,
                   durable, vacuum>>

\* One change goes into the map; the leader holds no stripe.
apply_change(t) ==
    /\ pc[t] = "apply"
    /\ \E p \in applying :
          /\ \A q \in applying : Precedes(p, q)
          /\ LET c == batch[p[1]].changes[p[2]]
             IN  map' = [map EXCEPT ![c.key] = c.value]
          /\ applying' = applying \ {p}
    /\ UNCHANGED <<lockVars, stripe, pc, status, snapshot, undo, call, seen, ops,
                   version, next_commit_version, pending, leader, queue, record,
                   todo, batch, outcome, durable, vacuum>>

\* Mutant of publish: the version is published before the last changes are in.
publish_early(t) ==
    /\ pc[t] = "apply"
    /\ version' = Last(batch).commit_version
    /\ applying' = {}
    /\ Complete(t, "ok")
    /\ UNCHANGED <<lockVars, map, stripe, status, snapshot, undo, call, seen, ops,
                   next_commit_version, pending, record, todo, durable, vacuum>>

\* The whole batch is in the maps: publish its last version.
publish(t) ==
    /\ pc[t] = "apply"
    /\ applying = {}
    /\ version' = Last(batch).commit_version
    /\ Complete(t, "ok")
    /\ UNCHANGED <<lockVars, map, stripe, status, snapshot, undo, call, seen, ops,
                   next_commit_version, pending, record, todo, applying, durable,
                   vacuum>>

\* The committer reads its outcome.
commit_returns(t) ==
    /\ pc[t] = "queued"
    /\ outcome[t] = "ok"
    /\ status' = [status EXCEPT ![t] = "Committed"]
    /\ remove_active(t)
    /\ Goto(t, "end")
    /\ UNCHANGED <<map, stripe, snapshot, undo, call, seen, ops, version,
                   next_commit_version, pending, leader, queue, record, todo,
                   batch, applying, outcome, durable, vacuum>>

commit_failed(t) ==
    /\ pc[t] = "queued"
    /\ outcome[t] = "failed"
    /\ Goto(t, "undo")
    /\ UNCHANGED <<lockVars, map, stripe, status, snapshot, undo, call, seen, ops,
                   version, next_commit_version, pending, leader, queue, record,
                   todo, batch, applying, outcome, durable, vacuum>>

----------------------------------------------------------------------------
(* Transaction::rollback, called by the application, by Drop, by put and   *)
(* remove when they fail, and by a commit that failed.                     *)

rollback_call(t) ==
    /\ pc[t] = "idle"
    /\ Goto(t, "undo")
    /\ UNCHANGED <<lockVars, map, stripe, status, snapshot, undo, call, seen, ops,
                   version, next_commit_version, pending, leader, queue, record,
                   todo, batch, applying, outcome, durable, vacuum>>

\* The entry without the transaction's record; gone if nothing else is in it.
RolledBack(t, vv) ==
    IF vv = NoValue \/ active_tx_id(vv) # t THEN vv
    ELSE IF vv.committed_history = <<>> THEN NoValue
    ELSE rollback_uncommitted(vv)

undo_entry(t) ==
    /\ pc[t] = "undo"
    /\ undo[t] # <<>>
    /\ stripe[Last(undo[t])] = None
    /\ map' = [map EXCEPT ![Last(undo[t])] = RolledBack(t, @)]
    /\ undo' = [undo EXCEPT ![t] = Front(@)]
    /\ UNCHANGED <<lockVars, stripe, pc, status, snapshot, call, seen, ops, version,
                   next_commit_version, pending, leader, queue, record, todo,
                   batch, applying, outcome, durable, vacuum>>

rollback_returns(t) ==
    /\ pc[t] = "undo"
    /\ undo[t] = <<>>
    /\ status' = [status EXCEPT ![t] = "RolledBack"]
    /\ remove_active(t)
    /\ Goto(t, "end")
    /\ UNCHANGED <<map, stripe, snapshot, undo, call, seen, ops, version,
                   next_commit_version, pending, leader, queue, record, todo,
                   batch, applying, outcome, durable, vacuum>>

\* The last two critical sections of remove_active_tx.
leave_step(t) ==
    /\ pc[t] = "end"
    /\ unregister_self(t) \/ notify_lock_released(t)
    /\ UNCHANGED dataVars

----------------------------------------------------------------------------
(* TransactionStore::vacuum_map. *)

oldest_active_version ==
    IF active = {} THEN version
    ELSE CHOOSE v \in {snapshot[t] : t \in active} :
            \A t \in active : v <= snapshot[t]

vacuum_horizon ==
    /\ vacuum.at = "idle"
    /\ vacuum.runs < MaxVacuums
    /\ vacuum' = [vacuum EXCEPT !.at = "scan", !.runs = @ + 1,
                                !.horizon = oldest_active_version]
    /\ UNCHANGED <<lockVars, map, stripe, pc, status, snapshot, undo, call, seen,
                   ops, version, next_commit_version, pending, leader, queue,
                   record, todo, batch, applying, outcome, durable>>

\* scan_all: all entries at one moment.
vacuum_scan ==
    /\ vacuum.at = "scan"
    /\ vacuum' = [vacuum EXCEPT !.at = "prune", !.entries = map,
                                !.left = {k \in Keys : map[k] # NoValue}]
    /\ UNCHANGED <<lockVars, map, stripe, pc, status, snapshot, undo, call, seen,
                   ops, version, next_commit_version, pending, leader, queue,
                   record, todo, batch, applying, outcome, durable>>

\* One scanned entry, in key order, written back or removed without its stripe.
vacuum_entry ==
    /\ vacuum.at = "prune"
    /\ vacuum.left # {}
    /\ LET k  == CHOOSE k \in vacuum.left : \A j \in vacuum.left : k <= j
           vv == vacuum.entries[k]
           pruned == prune_old_versions(vv, vacuum.horizon)
       IN  /\ map' = IF is_dead(vv, vacuum.horizon) THEN [map EXCEPT ![k] = NoValue]
                     ELSE IF pruned # vv THEN [map EXCEPT ![k] = pruned]
                     ELSE map
           /\ vacuum' = [vacuum EXCEPT !.left = @ \ {k}]
    /\ UNCHANGED <<lockVars, stripe, pc, status, snapshot, undo, call, seen, ops,
                   version, next_commit_version, pending, leader, queue, record,
                   todo, batch, applying, outcome, durable>>

vacuum_returns ==
    /\ vacuum.at = "prune"
    /\ vacuum.left = {}
    /\ vacuum' = [Idle EXCEPT !.runs = vacuum.runs]
    /\ UNCHANGED <<lockVars, map, stripe, pc, status, snapshot, undo, call, seen,
                   ops, version, next_commit_version, pending, leader, queue,
                   record, todo, batch, applying, outcome, durable>>

----------------------------------------------------------------------------

commit_step(t) ==
    \/ commit_empty(t) \/ commit_start(t) \/ prepare_entry(t) \/ enqueue(t)
    \/ append_fails(t) \/ lead(t) \/ sync_succeeds(t) \/ sync_fails(t)
    \/ apply_change(t) \/ publish(t) \/ commit_returns(t) \/ commit_failed(t)

rollback_step(t) == undo_entry(t) \/ rollback_returns(t)

vacuum_step == vacuum_horizon \/ vacuum_scan \/ vacuum_entry \/ vacuum_returns

Next ==
    \/ \E t \in Tx :
          \/ begin_read_version(t) \/ begin_enter(t)
          \/ \E k \in Keys, v \in {t} \cup (IF Removes THEN {NoValue} ELSE {}) :
                write_call(t, k, v)
          \/ write_retry(t) \/ write_conflict(t) \/ write_install(t) \/ wait_step(t)
          \/ commit_step(t)
          \/ rollback_call(t) \/ rollback_step(t)
          \/ leave_step(t)
    \/ vacuum_step

Spec == Init /\ [][Next]_vars

\* Every thread inside a call keeps executing, and the timer of a lock wait
\* fires.  Starting a call is up to the application.
InCall(t) == pc[t] \notin {"begin", "idle"}
Fairness ==
    \A t \in Tx :
        WF_vars(/\ InCall(t)
                /\ \/ begin_enter(t) \/ write_retry(t) \/ write_conflict(t)
                   \/ write_install(t) \/ wait_step(t) \/ commit_step(t)
                   \/ rollback_step(t) \/ leave_step(t))

FairSpec == Spec /\ Fairness

----------------------------------------------------------------------------
(* Properties. *)

TypeOK ==
    /\ LockTypeOK
    /\ DOMAIN map = Keys
    /\ stripe \in [Keys -> Tx \cup {None}]
    /\ status \in [Tx -> {"Open", "Committed", "RolledBack"}]
    /\ snapshot \in [Tx -> Nat]
    /\ undo \in [Tx -> Seq(Keys)]
    /\ queue \in Tx \cup {None}
    /\ leader \in BOOLEAN
    /\ version \in Nat
    /\ next_commit_version \in Nat

\* No dirty write: until its commit record is durable, the uncommitted record
\* an open transaction has written stays in the entry and nobody overwrites it;
\* and nothing a rolled-back transaction wrote is left in any entry.
WritesStayOwned ==
    \A t \in Tx :
        /\ \A k \in Range(undo[t]) :
              (t \in active /\ \A i \in DOMAIN durable : durable[i].tx_id # t) =>
                  map[k] # NoValue /\ active_tx_id(map[k]) = t
        /\ status[t] = "RolledBack" => \A k \in Keys : map[k] # NoValue =>
              /\ active_tx_id(map[k]) # t
              /\ \A i \in DOMAIN map[k].committed_history :
                    map[k].committed_history[i].value # t

\* A version enters an entry only once the record that carries it is durable,
\* and the committed records of an entry stay in strictly descending order of
\* version, which read_visible and prune_old_versions rely on, although puts,
\* rollbacks, batch leaders and the vacuum write entries back.
DurableBeforeVisible ==
    \A k \in Keys : map[k] # NoValue =>
        LET history == map[k].committed_history
        IN  \A i \in DOMAIN history :
                /\ \E j \in DOMAIN durable :
                      /\ durable[j].commit_version = history[i].commit_version
                      /\ k \in {c.key : c \in Range(durable[j].changes)}
                /\ \A j \in DOMAIN history :
                      i < j => history[i].commit_version > history[j].commit_version

\* When a batch is published every change of it is in the maps, so a snapshot
\* never contains a part of a commit.
PublishedWhole ==
    [][version' # version =>
          \A i \in DOMAIN batch : \A c \in Range(batch[i].changes) :
              c.value # NoValue =>
                  /\ map[c.key] # NoValue
                  /\ c.value.committed_history[1] \in Range(map[c.key].committed_history)]_vars

\* The value of k in the durable history up to version s.
DurableValue(k, s) ==
    LET Writers == {i \in DOMAIN durable :
                       /\ durable[i].commit_version <= s
                       /\ k \in {c.key : c \in Range(durable[i].changes)}}
        last == CHOOSE i \in Writers : \A j \in Writers : j <= i
        c == CHOOSE c \in Range(durable[last].changes) : c.key = k
    IN  IF Writers = {} \/ c.value = NoValue THEN NoValue
        ELSE c.value.committed_history[1].value

\* A snapshot is a prefix of the durable commits: whatever other transactions
\* write, commit, roll back or vacuum, an open transaction that has not written
\* k reads what the last durable commit up to its snapshot left there.
SnapshotIsDurablePrefix ==
    \A t \in Tx, k \in Keys :
        t \in active /\ pc[t] # "undo" /\ k \notin Range(undo[t])
        => Visible(t, k) = DurableValue(k, snapshot[t])

\* A commit that returns Ok has logged every key it wrote.
CommittedWritesAreLogged ==
    \A t \in Tx : status[t] = "Committed" =>
        \A k \in Range(undo[t]) :
            \E i \in DOMAIN durable :
                /\ durable[i].tx_id = t
                /\ \E c \in Range(durable[i].changes) : c.key = k /\ c.value # NoValue

\* Every call ends: no thread stays in put, remove, commit or rollback.
CallsEnd == \A t \in Tx : InCall(t) ~> (pc[t] = "idle" \/ phase[t] = "done")

============================================================================
