---------------------------- MODULE StorageFleet ----------------------------
(***************************************************************************)
(* The decoupled storage of crates/h2/src/storage: smart storage nodes     *)
(* (smart_node.rs), the fleet that appends and leases by quorum            *)
(* (quorum.rs), compute nodes (compute.rs) and failover (cluster.rs).      *)
(*                                                                         *)
(* append_logs_quorum and acquire_lease_quorum start one thread per node   *)
(* and return as soon as enough of them have answered; the others go on.   *)
(* A thread reads the fencing token of its node in one step and changes    *)
(* the node in another.                                                    *)
(***************************************************************************)
EXTENDS Integers, Sequences, FiniteSets, SequencesExt, FiniteSetsExt

CONSTANTS
    N,            \* storage nodes are 1..N, in the order they are asked
    W,            \* QuorumConfig.write_quorum
    R,            \* QuorumConfig.read_quorum, which reads do not use
    Computes,     \* compute nodes
    First,        \* the compute node created by new_primary
    Keys,         \* keys of the one map that is used
    MaxCalls,     \* bound on the appends and leases
    MaxChores     \* bound on set_state, materialization, gossip and reads together

ValidConfig == W <= N /\ N < W + R

\* Both configurations of the code, 2 of 3 and 4 of 6, also have W > N / 2.
ASSUME QuorumAssumption == N \in Nat /\ W \in Nat \ {0} /\ R \in Nat /\ ValidConfig /\ N < W + W
ASSUME FirstAssumption == First \in Computes

Nodes == 1 .. N

VARIABLES
    wal_buffer,      \* node: the records in the order they were pushed
    flushed_lsn,     \* node
    applied_lsn,     \* node
    materialized,    \* node: key to value, 0 when absent
    node_token,      \* node: current_fencing_token
    online,          \* node: state # Offline
    chores,          \* how many of the bounded steps were taken
    committed_lsn,   \* fleet: latest_committed_lsn
    fleet_token,     \* fleet: fencing_token
    role,            \* compute: "primary" or "replica"
    current_lsn,     \* compute
    token,           \* compute: fencing_token
    store,           \* compute: its map, key to value, 0 when absent
    sink,            \* compute: changes the change sink has collected
    listeners,       \* compute: replica_listeners
    replicas,        \* cluster: the replicas it knows
    fetching,        \* compute: the read of a storage node in progress
    calls,           \* every append and lease in the order they started
    threads          \* the threads of the calls that have not answered

nodes == <<wal_buffer, flushed_lsn, applied_lsn, materialized, node_token, online, chores>>
fleet == <<committed_lsn, fleet_token>>
computes == <<role, current_lsn, token, store, sink, listeners, replicas, fetching>>
vars == <<nodes, fleet, computes, calls, threads>>

NoFetch == [node |-> 0]

NodesInit ==
    /\ wal_buffer = [n \in Nodes |-> <<>>]
    /\ flushed_lsn = [n \in Nodes |-> 0]
    /\ applied_lsn = [n \in Nodes |-> 0]
    /\ materialized = [n \in Nodes |-> [k \in Keys |-> 0]]
    /\ node_token = [n \in Nodes |-> 1]
    /\ online = [n \in Nodes |-> TRUE]

FleetInit == committed_lsn = 0 /\ fleet_token = 1

\* new_primary for the first compute node, new_read_replica for the others.
ComputesInit ==
    /\ role = [c \in Computes |-> IF c = First THEN "primary" ELSE "replica"]
    /\ token = [c \in Computes |-> IF c = First THEN 1 ELSE 0]
    /\ current_lsn = [c \in Computes |-> committed_lsn]
    /\ store = [c \in Computes |-> [k \in Keys |-> 0]]
    /\ sink = [c \in Computes |-> <<>>]
    /\ fetching = [c \in Computes |-> NoFetch]

\* The cluster registers every replica with the primary.
ClusterInit ==
    /\ listeners = [c \in Computes |-> IF c = First THEN Computes \ {First} ELSE {}]
    /\ replicas = Computes \ {First}

Init ==
    /\ NodesInit /\ FleetInit /\ ComputesInit /\ ClusterInit
    /\ chores = 0 /\ calls = <<>> /\ threads = {}

----------------------------------------------------------------------------
(* Calls that ask every node. *)

Busy(c) == \E i \in DOMAIN calls : calls[i].by = c /\ calls[i].open

\* One thread per node is started.
Spawn(call) ==
    /\ Len(calls) < MaxCalls
    /\ calls' = Append(calls, call)
    /\ threads' = threads \cup
          {[call |-> Len(calls) + 1, node |-> n, pc |-> "start", max |-> 0] : n \in Nodes}

Move(t, u) == threads' = (threads \ {t}) \cup {u}

\* A thread sends the LSN it has reached, or an error, and ends.
Answer(t, lsn) ==
    /\ threads' = threads \ {t}
    /\ calls' = [calls EXCEPT ![t.call].acks = Append(@, lsn)]

AnswerError(t) ==
    /\ threads' = threads \ {t}
    /\ calls' = [calls EXCEPT ![t.call].errors = @ + 1]

\* The receive loop ends with W acknowledgements, or when W cannot be reached.
QuorumReached(call) == Len(call.acks) >= W
Unachievable_late(call) == N - call.errors < W - 1
Unachievable(call) == N - call.errors < W

----------------------------------------------------------------------------
(* Storage nodes. *)

Put(m, r) == IF r.key \in Keys THEN [m EXCEPT ![r.key] = r.value] ELSE m

\* The members of a sequence that are in S, in their order.
Filter(seq, S) ==
    LET I == {i \in DOMAIN seq : seq[i] \in S}
    IN  [n \in 1 .. Cardinality(I) |->
            seq[CHOOSE i \in I : Cardinality({j \in I : j <= i}) = n]]

\* The records of a log in an interval of LSNs, in the order of the log.
Between(log, low, high) == Filter(log, {r \in ToSet(log) : low < r.lsn /\ r.lsn <= high})

\* materialize_pending of a node whose log and flushed LSN are the given ones.
Materialize(n, log, flushed) ==
    LET pending == Between(log, applied_lsn[n], flushed)
    IN  IF applied_lsn[n] >= flushed
        THEN UNCHANGED <<materialized, applied_lsn>>
        ELSE /\ materialized' = [materialized EXCEPT ![n] = FoldLeft(Put, @, pending)]
             /\ applied_lsn' = [applied_lsn EXCEPT ![n] = Max({@} \cup {r.lsn : r \in ToSet(pending)})]

append_check_unfenced(t) ==
    /\ t.pc = "start" /\ calls[t.call].kind = "append"
    /\ IF online[t.node]
       THEN Move(t, [t EXCEPT !.pc = "checked", !.max = flushed_lsn[t.node]]) /\ UNCHANGED calls
       ELSE AnswerError(t)
    /\ UNCHANGED <<nodes, fleet, computes>>

\* append_logs, first part: the state of the node, its token and flushed_lsn
\* are read.
append_check(t) ==
    /\ t.pc = "start" /\ calls[t.call].kind = "append"
    /\ IF online[t.node] /\ calls[t.call].token >= node_token[t.node]
       THEN Move(t, [t EXCEPT !.pc = "checked", !.max = flushed_lsn[t.node]]) /\ UNCHANGED calls
       ELSE AnswerError(t)
    /\ UNCHANGED <<nodes, fleet, computes>>

append_push_unlogged(t) ==
    /\ t.pc = "checked" /\ calls[t.call].kind = "append"
    /\ Answer(t, Max({t.max} \cup {r.lsn : r \in ToSet(calls[t.call].records)}))
    /\ UNCHANGED <<nodes, fleet, computes>>

\* append_logs, second part: the records are pushed and flushed_lsn is stored.
append_push(t) ==
    LET max == Max({t.max} \cup {r.lsn : r \in ToSet(calls[t.call].records)})
    IN  /\ t.pc = "checked" /\ calls[t.call].kind = "append"
        /\ wal_buffer' = [wal_buffer EXCEPT ![t.node] = @ \o calls[t.call].records]
        /\ flushed_lsn' = [flushed_lsn EXCEPT ![t.node] = max]
        /\ Answer(t, max)
        /\ UNCHANGED <<applied_lsn, materialized, node_token, online, chores, fleet, computes>>

\* acquire_lease of a node: the token is loaded and compared, then stored.
lease_load(t) ==
    /\ t.pc = "start" /\ calls[t.call].kind = "lease"
    /\ IF calls[t.call].token >= node_token[t.node]
       THEN Move(t, [t EXCEPT !.pc = "checked"]) /\ UNCHANGED calls
       ELSE AnswerError(t)
    /\ UNCHANGED <<nodes, fleet, computes>>

lease_store(t) ==
    /\ t.pc = "checked" /\ calls[t.call].kind = "lease"
    /\ node_token' = [node_token EXCEPT ![t.node] = calls[t.call].token]
    /\ Answer(t, 0)
    /\ UNCHANGED <<wal_buffer, flushed_lsn, applied_lsn, materialized, online, chores, fleet, computes>>

Chore == chores < MaxChores /\ chores' = chores + 1

\* The state of a node is switched between Online and Offline.
set_state(n) ==
    /\ Chore
    /\ online' = [online EXCEPT ![n] = ~@]
    /\ UNCHANGED <<wal_buffer, flushed_lsn, applied_lsn, materialized, node_token, fleet, computes, calls, threads>>

materialize_pending(n) ==
    /\ online[n] /\ applied_lsn[n] < flushed_lsn[n] /\ Chore
    /\ Materialize(n, wal_buffer[n], flushed_lsn[n])
    /\ UNCHANGED <<wal_buffer, flushed_lsn, node_token, online, fleet, computes, calls, threads>>

\* The records newer than everything node n has are taken from a peer; the node
\* then materializes. Only the node itself has to be online.
gossip_sync_from(n, peer) ==
    LET missing == Between(wal_buffer[peer], flushed_lsn[n], flushed_lsn[peer])
        log == wal_buffer[n] \o missing
        flushed == Max({r.lsn : r \in ToSet(missing)})
    IN  /\ online[n] /\ missing # <<>> /\ Chore
        /\ wal_buffer' = [wal_buffer EXCEPT ![n] = log]
        /\ flushed_lsn' = [flushed_lsn EXCEPT ![n] = flushed]
        /\ Materialize(n, log, flushed)
        /\ UNCHANGED <<node_token, online, fleet, computes, calls, threads>>

\* get_key with the materialized value already read: newer records of the log
\* are laid over it.
Overlay(n, k, base, read_version) ==
    LET later == Between(wal_buffer[n], applied_lsn[n], read_version)
        newer == Filter(later, {r \in ToSet(later) : r.key = k})
    IN  IF newer = <<>> THEN base ELSE Last(newer).value

\* get_key_quorum asks the nodes in order and takes the first answer.
FirstOnline == {n \in Nodes : online[n] /\ \A m \in Nodes : online[m] => n <= m}

----------------------------------------------------------------------------
(* Compute nodes and failover. *)

\* on_commit: the drained changes get the next LSNs, followed by the marker of
\* the commit.
Records(changes, base) ==
    [i \in 1 .. Len(changes) + 1 |->
        IF i <= Len(changes)
        THEN [lsn |-> base + i, key |-> changes[i].key, value |-> changes[i].value]
        ELSE [lsn |-> base + i, key |-> "commit", value |-> 0]]

\* History: a lease fences older writers for good if no thread of an earlier
\* lease was under way when it started; the fences that have been granted.
Fences(new) ==
    IF \E t \in threads : calls[t.call].kind = "lease" THEN {} ELSE {new}
Granted ==
    UNION {calls[i].fences : i \in {j \in DOMAIN calls : calls[j].kind = "lease" /\ calls[j].result = "ok"}}

\* put, delete (value 0): the map changes, the store commits and its listener
\* starts the append.
write(c, k, v) ==
    LET changes == Append(sink[c], [key |-> k, value |-> v])
    IN  /\ role[c] = "primary" /\ ~Busy(c)
        /\ Spawn([kind |-> "append", by |-> c, token |-> token[c], fences |-> Granted,
                  records |-> Records(changes, current_lsn[c]), acks |-> <<>>, errors |-> 0,
                  open |-> TRUE, result |-> "none"])
        /\ store' = [store EXCEPT ![c][k] = v]
        /\ sink' = [sink EXCEPT ![c] = <<>>]
        /\ UNCHANGED <<nodes, fleet, role, current_lsn, token, listeners, replicas, fetching>>

Close(i, result) == calls' = [calls EXCEPT ![i].open = FALSE, ![i].result = result]

\* The changes that records carry, without the marker of the commit.
ChangesOf(records) ==
    LET puts == Filter(records, {r \in ToSet(records) : r.key \in Keys})
    IN  [i \in DOMAIN puts |-> [key |-> puts[i].key, value |-> puts[i].value]]

\* apply_remote_commit on a replica: its map and its LSN follow.
Applied(m, records) == FoldLeft(Put, m, records)

\* append_logs_quorum has its quorum: the fleet's LSN and the writer's are set
\* to the greatest of the first W answers and the listeners apply the changes.
append_acked(i) ==
    LET call == calls[i]
        acked == Max({call.acks[j] : j \in 1 .. W})
    IN  /\ call.open /\ call.kind = "append" /\ QuorumReached(call)
        /\ Close(i, "ok")
        /\ committed_lsn' = acked
        /\ current_lsn' = [c \in Computes |->
              IF c = call.by \/ c \in listeners[call.by] THEN acked ELSE current_lsn[c]]
        /\ store' = [c \in Computes |->
              IF c \in listeners[call.by] THEN Applied(store[c], call.records) ELSE store[c]]
        \* a listener that was promoted collects the changes in its own sink
        /\ sink' = [c \in Computes |->
              IF c \in listeners[call.by] /\ role[c] = "primary"
              THEN sink[c] \o ChangesOf(call.records)
              ELSE sink[c]]
        /\ UNCHANGED <<nodes, fleet_token, role, token, listeners, replicas, fetching, threads>>

\* The quorum cannot be reached: the caller gets an error, its map keeps the
\* change and its LSN does not move.
append_failed(i) ==
    /\ calls[i].open /\ calls[i].kind = "append" /\ Unachievable(calls[i])
    /\ Close(i, "failed")
    /\ UNCHANGED <<nodes, fleet, computes, threads>>

\* get on a replica whose map lacks the key, first part: the value a node has
\* materialized is read.
get_base(c, k) ==
    /\ role[c] = "replica" /\ fetching[c] = NoFetch /\ store[c][k] = 0
    /\ Chore
    /\ \E n \in FirstOnline : fetching' = [fetching EXCEPT ![c] =
          [node |-> n, key |-> k, base |-> materialized[n][k], version |-> current_lsn[c]]]
    /\ UNCHANGED <<wal_buffer, flushed_lsn, applied_lsn, materialized, node_token, online, fleet, role, current_lsn, token, store, sink, listeners, replicas, calls, threads>>

\* Second part: applied_lsn is read, newer records are laid over the value, and
\* what was found goes into the map of the compute node.
get_overlay(c) ==
    LET f == fetching[c]
        value == Overlay(f.node, f.key, f.base, f.version)
    IN  /\ f # NoFetch
        /\ fetching' = [fetching EXCEPT ![c] = NoFetch]
        /\ store' = IF value = 0 THEN store ELSE [store EXCEPT ![c][f.key] = value]
        /\ sink' = IF value # 0 /\ role[c] = "primary"
                   THEN [sink EXCEPT ![c] = Append(@, [key |-> f.key, value |-> value])] ELSE sink
        /\ UNCHANGED <<nodes, fleet, role, current_lsn, token, listeners, replicas, calls, threads>>

\* failover_to_replica takes the replica from the list and promote_to_primary
\* asks for a lease with the next token.
failover_to_replica(c) ==
    /\ c \in replicas
    /\ ~\E i \in DOMAIN calls : calls[i].kind = "lease" /\ calls[i].open
    /\ replicas' = replicas \ {c}
    /\ Spawn([kind |-> "lease", by |-> c, token |-> fleet_token + 1, fences |-> Fences(fleet_token + 1),
              records |-> <<>>, acks |-> <<>>, errors |-> 0, open |-> TRUE, result |-> "none"])
    /\ UNCHANGED <<nodes, fleet, role, current_lsn, token, store, sink, listeners, fetching>>

\* The lease is granted: the node becomes primary at the fleet's latest LSN, and
\* the remaining replicas listen to it.
promoted(i) ==
    LET call == calls[i]
    IN  /\ call.open /\ call.kind = "lease" /\ QuorumReached(call)
        /\ Close(i, "ok")
        /\ fleet_token' = call.token
        /\ role' = [role EXCEPT ![call.by] = "primary"]
        /\ token' = [token EXCEPT ![call.by] = call.token]
        /\ current_lsn' = [current_lsn EXCEPT ![call.by] = committed_lsn]
        /\ listeners' = [listeners EXCEPT ![call.by] = replicas]
        /\ UNCHANGED <<nodes, committed_lsn, store, sink, replicas, fetching, threads>>

promotion_failed(i) ==
    /\ calls[i].open /\ calls[i].kind = "lease" /\ Unachievable(calls[i])
    /\ Close(i, "failed")
    /\ UNCHANGED <<nodes, fleet, computes, threads>>

----------------------------------------------------------------------------
ThreadStep == \E t \in threads :
    append_check(t) \/ append_push(t) \/ lease_load(t) \/ lease_store(t)

CallStep == \E i \in DOMAIN calls :
    append_acked(i) \/ append_failed(i) \/ promoted(i) \/ promotion_failed(i)

Next ==
    \/ ThreadStep
    \/ CallStep
    \/ \E c \in Computes, k \in Keys, v \in {0, Len(calls) + 1} : write(c, k, v)
    \/ \E c \in Computes, k \in Keys : get_base(c, k)
    \/ \E c \in Computes : get_overlay(c) \/ failover_to_replica(c)
    \/ \E n \in Nodes : set_state(n) \/ materialize_pending(n)
    \/ \E n, m \in Nodes : n # m /\ gossip_sync_from(n, m)

Spec == Init /\ [][Next]_vars

\* A spawned thread runs to its end, and a caller that can leave its receive
\* loop does.
FairSpec == Spec /\ WF_vars(ThreadStep) /\ WF_vars(CallStep)

----------------------------------------------------------------------------
(* Properties. *)

Holds(n, i) == calls[i].records # <<>> /\ ToSet(calls[i].records) \subseteq ToSet(wal_buffer[n])

\* A commit that append_logs_quorum acknowledged is, from then on, in the logs
\* of at least W nodes, whatever fails and however late the other threads are.
AckedOnQuorum ==
    \A i \in DOMAIN calls : calls[i].kind = "append" /\ calls[i].result = "ok" =>
        Cardinality({n \in Nodes : Holds(n, i)}) >= W

\* Fencing: an append that a primary starts after a lease with a newer token has
\* been granted (acquire_lease_quorum) is never acknowledged. The lease must have
\* started when no thread of an earlier one was under way: acquire_lease of a
\* node compares and stores in two steps, and such a thread may put an older
\* token back.
FencedWriterStops ==
    \A i \in DOMAIN calls : calls[i].kind = "append" /\ calls[i].result = "ok" =>
        \A f \in calls[i].fences : calls[i].token >= f

\* Every append and every lease returns: N answers always decide the receive
\* loops of append_logs_quorum and acquire_lease_quorum.
CallsReturn == []<>(\A i \in DOMAIN calls : ~calls[i].open)

=============================================================================
