---------------------------- MODULE Replication ----------------------------
(***************************************************************************)
(* Streaming replication of crates/h2/src/replication.rs: the hub that the *)
(* commit listener of the primary broadcasts through, the connection       *)
(* handler per standby, and the standby client.                            *)
(*                                                                         *)
(* The value of a key is the version of the last commit that changed it.   *)
(* The handler waits for the broadcast channel and for the socket at once  *)
(* (tokio::select); reading a message takes two reads, and a commit that   *)
(* arrives between them abandons the message half read.                    *)
(***************************************************************************)
EXTENDS Integers, Sequences, FiniteSets, FiniteSetsExt

CONSTANTS
    Standbys,
    Keys,
    Capacity,      \* of the broadcast channel
    MaxVersion,    \* bound on the commits
    MaxConnects    \* bound on the connections that are opened

ASSUME ReplicationAssumption ==
    Standbys # {} /\ Capacity \in Nat \ {0} /\ MaxVersion \in Nat /\ MaxConnects \in Nat

VARIABLES
    version,            \* of the primary's store
    writes,             \* version to the keys its commit changed
    data,               \* the primary's maps
    batch,              \* versions applied, their listener not yet called
    waiting,            \* the version on_commit waits for, 0 for none
    applied,            \* hub: the version under apply_condvar
    standby_connected,  \* hub
    handler,            \* standby: state of its connection handler
    commit_rx,          \* standby: its receiver of the broadcast channel
    lagged,             \* standby: its receiver has lost a record
    half_read,          \* standby: the handler has read half a message
    garbled,            \* standby: the handler lost its place in the stream
    scan,               \* standby: the snapshot the handler is taking
    client,             \* standby: state of run_standby_client
    down, up,           \* standby: messages from and to the primary
    replica,            \* standby: its maps
    connects

primary == <<version, writes, data, batch, waiting>>
hub == <<applied, standby_connected>>
server == <<handler, commit_rx, lagged, half_read, garbled, scan>>
standby == <<client, replica, connects>>
net == <<down, up>>
vars == <<primary, hub, server, standby, net>>

NoScan == [left |-> {}, taken |-> [k \in {} |-> 0], active |-> FALSE]

Init ==
    /\ version = 0 /\ writes = <<>> /\ data = [k \in Keys |-> 0] /\ batch = <<>> /\ waiting = 0
    /\ applied = 0 /\ standby_connected = FALSE
    /\ handler = [s \in Standbys |-> "none"]
    /\ commit_rx = [s \in Standbys |-> <<>>]
    /\ lagged = [s \in Standbys |-> FALSE]
    /\ half_read = [s \in Standbys |-> FALSE]
    /\ garbled = [s \in Standbys |-> FALSE]
    /\ scan = [s \in Standbys |-> NoScan]
    /\ client = [s \in Standbys |-> "off"]
    /\ down = [s \in Standbys |-> <<>>] /\ up = [s \in Standbys |-> <<>>]
    /\ replica = [s \in Standbys |-> [k \in Keys |-> 0]]
    /\ connects = 0

Apply(m, v) == [k \in Keys |-> IF k \in writes[v] THEN v ELSE m[k]]

----------------------------------------------------------------------------
(* The primary. *)

\* A batch of commit_with has been applied and published; the listener is then
\* called for its records one after the other.
commit_batch(keys) ==
    /\ batch = <<>> /\ waiting = 0 /\ version + Len(keys) <= MaxVersion
    /\ version' = version + Len(keys)
    /\ writes' = writes \o keys
    /\ batch' = [i \in DOMAIN keys |-> version + i]
    /\ data' = [k \in Keys |-> Max({data[k]} \cup {version + i : i \in {j \in DOMAIN keys : k \in keys[j]}})]
    /\ UNCHANGED <<waiting, hub, server, standby, net>>

\* on_commit without a standby returns at once.
on_commit_alone ==
    /\ waiting = 0 /\ batch # <<>> /\ ~standby_connected
    /\ batch' = Tail(batch)
    /\ UNCHANGED <<version, writes, data, waiting, hub, server, standby, net>>

\* Every handler that has subscribed gets the record; a full receiver loses its
\* oldest one.
Receive(queue, v) == IF Len(queue) < Capacity THEN Append(queue, v) ELSE Append(Tail(queue), v)
Subscribed(s) == handler[s] = "open"

\* on_commit: the record is broadcast and the listener waits.
on_commit_send ==
    LET v == Head(batch)
    IN  /\ waiting = 0 /\ batch # <<>> /\ standby_connected
        /\ batch' = Tail(batch) /\ waiting' = v
        /\ commit_rx' = [s \in Standbys |-> IF Subscribed(s) THEN Receive(commit_rx[s], v) ELSE commit_rx[s]]
        /\ lagged' = [s \in Standbys |-> lagged[s] \/ (Subscribed(s) /\ Len(commit_rx[s]) = Capacity)]
        /\ UNCHANGED <<version, writes, data, hub, handler, half_read, garbled, scan, standby, net>>

\* The version is applied somewhere, or the timeout is over.
on_commit_return ==
    /\ waiting # 0
    /\ waiting' = 0
    /\ UNCHANGED <<version, writes, data, batch, hub, server, standby, net>>

accept_unannounced(s) ==
    /\ client[s] = "connecting" /\ handler[s] = "none"
    /\ handler' = [handler EXCEPT ![s] = "spawned"]
    /\ UNCHANGED <<primary, hub, commit_rx, lagged, half_read, garbled, scan, standby, net>>

\* run_primary_server accepts a standby and spawns its handler.
accept(s) ==
    /\ client[s] = "connecting" /\ handler[s] = "none"
    /\ standby_connected' = TRUE
    /\ handler' = [handler EXCEPT ![s] = "spawned"]
    /\ UNCHANGED <<primary, applied, commit_rx, lagged, half_read, garbled, scan, standby, net>>

\* handle_standby_connection begins with its subscription.
subscribe(s) ==
    /\ handler[s] = "spawned"
    /\ handler' = [handler EXCEPT ![s] = "open"]
    /\ commit_rx' = [commit_rx EXCEPT ![s] = <<>>]
    /\ UNCHANGED <<primary, hub, lagged, half_read, garbled, scan, standby, net>>

\* A record is sent on. The message the handler was reading is dropped with the
\* part it has read.
forward(s) ==
    /\ handler[s] = "open" /\ ~scan[s].active /\ commit_rx[s] # <<>>
    /\ down' = [down EXCEPT ![s] = Append(@, [type |-> "Commit", version |-> Head(commit_rx[s])])]
    /\ commit_rx' = [commit_rx EXCEPT ![s] = Tail(@)]
    /\ garbled' = [garbled EXCEPT ![s] = @ \/ half_read[s]]
    /\ half_read' = [half_read EXCEPT ![s] = FALSE]
    /\ UNCHANGED <<primary, hub, handler, lagged, scan, standby, up>>

Reading(s) == handler[s] = "open" /\ ~scan[s].active /\ ~garbled[s] /\ up[s] # <<>>

read_length(s) ==
    /\ Reading(s) /\ ~half_read[s]
    /\ half_read' = [half_read EXCEPT ![s] = TRUE]
    /\ UNCHANGED <<primary, hub, handler, commit_rx, lagged, garbled, scan, standby, net>>

\* notify_applied raises the version commits wait for.
notify_applied(v) == applied' = Max({applied, v})

\* The rest of a message is read and the message handled.
read_message(s) ==
    LET msg == Head(up[s])
    IN  /\ Reading(s) /\ half_read[s]
        /\ up' = [up EXCEPT ![s] = Tail(@)]
        /\ half_read' = [half_read EXCEPT ![s] = FALSE]
        /\ \/ /\ msg.type = "SnapshotRequest"
              /\ scan' = [scan EXCEPT ![s] = [left |-> Keys, taken |-> [k \in {} |-> 0], active |-> TRUE]]
              /\ UNCHANGED applied
           \/ /\ msg.type = "Applied"
              /\ notify_applied(msg.version)
              /\ UNCHANGED scan
        /\ UNCHANGED <<primary, standby_connected, handler, commit_rx, lagged, garbled, standby, down>>

\* scan_all_maps reads one part after the other while commits go on.
scan_all_maps(s) ==
    \E k \in scan[s].left :
        /\ handler[s] = "open"
        /\ scan' = [scan EXCEPT ![s].left = @ \ {k},
               ![s].taken = [j \in DOMAIN @ \cup {k} |-> IF j = k THEN data[k] ELSE @[j]]]
        /\ UNCHANGED <<primary, hub, handler, commit_rx, lagged, half_read, garbled, standby, net>>

snapshot_response(s) ==
    /\ handler[s] = "open" /\ scan[s].active /\ scan[s].left = {}
    /\ down' = [down EXCEPT ![s] = Append(@, [type |-> "Snapshot", data |-> scan[s].taken])]
    /\ scan' = [scan EXCEPT ![s] = NoScan]
    /\ UNCHANGED <<primary, hub, handler, commit_rx, lagged, half_read, garbled, standby, up>>

----------------------------------------------------------------------------
(* The standby and its connection. *)

\* run_standby_client connects and asks for a snapshot.
connect(s) ==
    /\ client[s] = "off" /\ handler[s] = "none" /\ connects < MaxConnects
    /\ connects' = connects + 1
    /\ client' = [client EXCEPT ![s] = "connecting"]
    /\ up' = [up EXCEPT ![s] = <<[type |-> "SnapshotRequest"]>>]
    /\ down' = [down EXCEPT ![s] = <<>>]
    /\ UNCHANGED <<primary, hub, server, replica>>

\* Both ends notice that the connection is gone.
Dropped(s) ==
    /\ client' = [client EXCEPT ![s] = "off"]
    /\ handler' = [handler EXCEPT ![s] = "none"]
    /\ commit_rx' = [commit_rx EXCEPT ![s] = <<>>]
    /\ half_read' = [half_read EXCEPT ![s] = FALSE]
    /\ garbled' = [garbled EXCEPT ![s] = FALSE]
    /\ lagged' = [lagged EXCEPT ![s] = FALSE]
    /\ scan' = [scan EXCEPT ![s] = NoScan]
    /\ up' = [up EXCEPT ![s] = <<>>] /\ down' = [down EXCEPT ![s] = <<>>]

\* The first message replaces the maps; anything but a snapshot ends the client.
receive_snapshot(s) ==
    /\ client[s] = "connecting" /\ down[s] # <<>> /\ Head(down[s]).type = "Snapshot"
    /\ client' = [client EXCEPT ![s] = "ready"]
    /\ replica' = [replica EXCEPT ![s] = Head(down[s]).data]
    /\ down' = [down EXCEPT ![s] = Tail(@)]
    /\ UNCHANGED <<primary, hub, server, connects, up>>

unexpected_message(s) ==
    /\ client[s] = "connecting" /\ down[s] # <<>> /\ Head(down[s]).type # "Snapshot"
    /\ Dropped(s)
    /\ UNCHANGED <<primary, hub, replica, connects>>

receive_commit_unapplied(s) ==
    /\ client[s] = "ready" /\ down[s] # <<>>
    /\ down' = [down EXCEPT ![s] = Tail(@)]
    /\ up' = [up EXCEPT ![s] = Append(@, [type |-> "Applied", version |-> Head(down[s]).version])]
    /\ UNCHANGED <<primary, hub, server, client, replica, connects>>

\* A commit is applied and committed, then acknowledged.
receive_commit(s) ==
    LET v == Head(down[s]).version
    IN  /\ client[s] = "ready" /\ down[s] # <<>>
        /\ replica' = [replica EXCEPT ![s] = Apply(@, v)]
        /\ down' = [down EXCEPT ![s] = Tail(@)]
        /\ up' = [up EXCEPT ![s] = Append(@, [type |-> "Applied", version |-> v])]
        /\ UNCHANGED <<primary, hub, server, client, connects>>

\* The connection breaks, or the standby stops.
disconnect(s) ==
    /\ client[s] # "off" /\ connects < MaxConnects
    /\ Dropped(s)
    /\ UNCHANGED <<primary, hub, replica, connects>>

----------------------------------------------------------------------------
\* One or two commits per batch, each changing some keys.
Batches == {<<a>> : a \in SUBSET Keys \ {{}}} \cup {<<a, b>> : a, b \in SUBSET Keys \ {{}}}

ServerStep(s) ==
    \/ accept(s) \/ subscribe(s) \/ forward(s) \/ read_length(s) \/ read_message(s)
    \/ scan_all_maps(s) \/ snapshot_response(s)
ClientStep(s) == receive_snapshot(s) \/ unexpected_message(s) \/ receive_commit(s)
Listener == on_commit_alone \/ on_commit_send \/ on_commit_return

Next ==
    \/ \E keys \in Batches : commit_batch(keys)
    \/ Listener
    \/ \E s \in Standbys : ServerStep(s) \/ ClientStep(s) \/ connect(s) \/ disconnect(s)

Spec == Init /\ [][Next]_vars

\* The tasks of the runtime and the listener take their turns.
FairSpec ==
    /\ Spec /\ WF_vars(Listener)
    /\ \A s \in Standbys : WF_vars(ServerStep(s)) /\ WF_vars(ClientStep(s))

----------------------------------------------------------------------------
(* Properties. *)

\* The latest commit up to v that changed a key, and the greatest version a
\* standby covers: it has every change up to it, or a newer one of that key.
LastWrite(k, v) == Max({0} \cup {i \in 1 .. v : k \in writes[i]})
Covers(s, v) == \A k \in Keys : replica[s][k] >= LastWrite(k, v)
Covered == Max({v \in 0 .. version : \E s \in Standbys : Covers(s, v)})

\* The hub implements remote_apply: the version on_commit accepts as applied is
\* covered by a standby, through snapshots taken during commits, commits sent
\* twice, lost connections and messages abandoned half read.
RA == INSTANCE RemoteApply WITH committed <- version, remote <- Covered, acked <- applied
ImplementsRemoteApply == RA!Spec

\* A standby whose connection lasts and whose receiver in
\* handle_standby_connection loses nothing ends up with the primary's maps once
\* the primary stops committing.
StandbyCatchesUp == \A s \in Standbys :
    <>[](client[s] = "ready" /\ handler[s] = "open" /\ ~lagged[s]) => <>[](replica[s] = data)
=============================================================================
