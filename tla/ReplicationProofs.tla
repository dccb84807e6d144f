------------------------- MODULE ReplicationProofs -------------------------
(***************************************************************************)
(* Replication implements RemoteApply: for any standbys, keys, numbers of  *)
(* commits and connections, what the hub takes as applied is covered by a  *)
(* standby, as long as no receiver of the broadcast channel loses a        *)
(* record.                                                                 *)
(***************************************************************************)
EXTENDS Replication, SequenceTheorems, WellFoundedInduction, TLAPS

----------------------------------------------------------------------------
(* The invariant.                                                          *)
(*                                                                         *)
(* A snapshot is taken while commits go on, so that it contains some of    *)
(* the records that follow it in the stream and applying these moves the   *)
(* standby back for a while. Stream says how far back: the records on      *)
(* their way are all of those after a version that the standby covers.     *)
(* What it has acknowledged lies before them (Acked).                      *)

CommitMessages == [type : {"Commit"}, version : Nat]
SnapshotMessages == [type : {"Snapshot"}, data : [Keys -> Nat]]
Acks == [type : {"Applied"}, version : Nat]
Requests == [type : {"SnapshotRequest"}]
IsScan(c) ==
    /\ c = [left |-> c.left, taken |-> c.taken, active |-> c.active]
    /\ c.left \subseteq Keys /\ DOMAIN c.taken \subseteq Keys /\ c.taken \in [DOMAIN c.taken -> Nat]
    /\ ~c.active => c.left = {}
    /\ c.active => DOMAIN c.taken = Keys \ c.left

\* The latest commit up to v among w that changed k; the maps m have all
\* changes up to v, or newer ones.
Newest(w, k, v) == Max({0} \cup {i \in 1 .. v : k \in w[i]})
Covering(w, m, v) == \A k \in Keys : Newest(w, k, v) <= m[k]

\* The last version the listener has been called for.
Sent == version - Len(batch)

ShapeInv ==
    /\ version \in Nat
    /\ writes \in Seq(SUBSET Keys) /\ Len(writes) = version
    /\ data \in [Keys -> 0 .. version] /\ Covering(writes, data, version)
    /\ batch \in Seq(Nat) /\ Sent \in Nat /\ \A i \in DOMAIN batch : batch[i] = Sent + i
    /\ applied \in Nat
    /\ handler \in [Standbys -> {"none", "spawned", "open"}]
    /\ client \in [Standbys -> {"off", "connecting", "ready"}]
    /\ commit_rx \in [Standbys -> Seq(Nat)]
    /\ DOMAIN scan = Standbys /\ \A s \in Standbys : IsScan(scan[s])
    /\ down \in [Standbys -> Seq(CommitMessages \cup SnapshotMessages)]
    /\ up \in [Standbys -> Seq(Acks \cup Requests)]
    /\ replica \in [Standbys -> [Keys -> Nat]]

Requested(s) == \E i \in DOMAIN up[s] : up[s][i].type = "SnapshotRequest"
Snapped(s) == \E i \in DOMAIN down[s] : down[s][i].type = "Snapshot"

\* A connection has one snapshot: asked for, being taken, on its way, or applied.
Connection(s) ==
    /\ handler[s] # "none" => standby_connected
    /\ client[s] = "off" => handler[s] = "none" /\ up[s] = <<>>
    /\ handler[s] # "open" => down[s] = <<>> /\ ~scan[s].active
    /\ client[s] = "ready" => handler[s] = "open" /\ ~Requested(s) /\ ~scan[s].active /\ ~Snapped(s)
    /\ client[s] = "connecting" => Len(up[s]) <= 1 /\ \A i \in DOMAIN up[s] : up[s][i] \in Requests
    /\ Requested(s) => ~scan[s].active /\ ~Snapped(s)
    /\ scan[s].active => ~Snapped(s)
    /\ \A i, j \in DOMAIN down[s] : down[s][i].type = "Snapshot" /\ down[s][j].type = "Snapshot" => i = j

\* The version before the first record in the channel, and before the first message.
Forwarded(s) == Sent - Len(commit_rx[s])
Base(s) == Forwarded(s) - Len(down[s])

\* The messages after position i, and the one at it, are commits.
OnlyCommits(s, i) == \A j \in DOMAIN down[s] : i <= j => down[s][j].type = "Commit"

\* The records on their way to a standby are all of those after a version that it
\* covers, or that the snapshot before them covers.
Stream(s) ==
    handler[s] = "open" =>
        /\ 0 <= Forwarded(s)
        /\ \A i \in DOMAIN commit_rx[s] : commit_rx[s][i] = Forwarded(s) + i
        /\ \A i \in DOMAIN down[s] : OnlyCommits(s, i) => down[s][i].version = Base(s) + i
        /\ \A i \in DOMAIN down[s] : down[s][i].type = "Snapshot" =>
              0 <= Base(s) + i /\ Covering(writes, down[s][i].data, Base(s) + i)
        /\ scan[s].active =>
              \A k \in DOMAIN scan[s].taken : Newest(writes, k, Forwarded(s)) <= scan[s].taken[k]
        /\ client[s] = "ready" => 0 <= Base(s) /\ Covering(writes, replica[s], Base(s))

\* Standby s covers v, and whatever is on its way to it does not change that.
Keeps(s, v) ==
    /\ v \in 0 .. Sent /\ Covering(writes, replica[s], v)
    /\ handler[s] = "open" => v <= Forwarded(s)
    /\ client[s] = "ready" => v <= Base(s)
    /\ \A i \in DOMAIN down[s] : down[s][i].type = "Snapshot" => v <= Base(s) + i

Acked(s) == \A i \in DOMAIN up[s] : up[s][i].type = "Applied" => Keeps(s, up[s][i].version)

StandbyInv(s) == Connection(s) /\ Stream(s) /\ Acked(s)
HubInv == applied = 0 \/ \E s \in Standbys : Keeps(s, applied)
ReplicationInv == ShapeInv /\ HubInv /\ \A s \in Standbys : StandbyInv(s)

----------------------------------------------------------------------------
(* Numbers and sequences. *)

\* Every set of natural numbers has a least member.
LEMMA LeastNumber ==
    ASSUME NEW T \in SUBSET Nat, T # {}
    PROVE  \E x \in T : \A y \in T : x <= y
<1> DEFINE R == {ss \in Nat \X Nat : ss[1] < ss[2]}
<1>1. IsWellFoundedOn(R, Nat)
  BY NatLessThanWellFounded DEF OpToRel
<1>2. PICK x \in T : \A y \in T : ~ (<<y, x>> \in R)
  <2> HIDE DEF R
  <2> QED  BY <1>1, WFMin
<1>3. ASSUME NEW y \in T PROVE x <= y
  <2>1. ~ (<<y, x>> \in R) /\ x \in Nat /\ y \in Nat
    BY <1>2
  <2>2. <<y, x>>[1] = y /\ <<y, x>>[2] = x /\ <<y, x>> \in Nat \X Nat
    BY <2>1
  <2>3. ~ (y < x)
    BY <2>1, <2>2
  <2> QED  BY <2>1, <2>3
<1> QED  BY <1>3

\* A bounded, non-empty set of natural numbers has a greatest member.
LEMMA Greatest ==
    ASSUME NEW n \in Nat, NEW T \in SUBSET (0 .. n), T # {}
    PROVE  Max(T) \in T /\ \A y \in T : y <= Max(T)
<1> DEFINE U == {n - x : x \in T}
<1>1. U \in SUBSET Nat /\ U # {}
  <2>1. \A x \in T : n - x \in Nat
    OBVIOUS
  <2> QED  BY <2>1
<1>2. PICK u \in U : \A y \in U : u <= y
  BY <1>1, LeastNumber
<1>3. PICK m \in T : u = n - m
  BY <1>2
<1>4. ASSUME NEW y \in T PROVE m >= y
  <2>1. n - y \in U /\ u <= n - y
    BY <1>2
  <2> QED  BY <1>3, <2>1
<1>5. Max(T) \in T /\ \A y \in T : Max(T) >= y
  BY <1>4 DEF Max
<1> QED  BY <1>5

\* What Newest returns.
LEMMA NewestIs ==
    ASSUME NEW w, NEW k, NEW v \in Nat
    PROVE  /\ Newest(w, k, v) \in 0 .. v
           /\ Newest(w, k, v) = 0 \/ k \in w[Newest(w, k, v)]
           /\ \A i \in 1 .. v : k \in w[i] => i <= Newest(w, k, v)
<1> DEFINE T == {0} \cup {i \in 1 .. v : k \in w[i]}
<1>1. T \in SUBSET (0 .. v) /\ T # {}
  OBVIOUS
<1>2. Max(T) \in T /\ \A y \in T : y <= Max(T)
  BY <1>1, Greatest
<1>3. Newest(w, k, v) = Max(T)
  BY DEF Newest
<1> QED  BY <1>1, <1>2, <1>3

\* A later bound gives no older commit.
LEMMA NewestAscends ==
    ASSUME NEW w, NEW k, NEW u \in Nat, NEW v \in Nat, u <= v
    PROVE  Newest(w, k, u) <= Newest(w, k, v)
<1>1. Newest(w, k, u) \in 0 .. u /\ (Newest(w, k, u) = 0 \/ k \in w[Newest(w, k, u)])
  BY NewestIs
<1>2. Newest(w, k, v) \in 0 .. v /\ \A i \in 1 .. v : k \in w[i] => i <= Newest(w, k, v)
  BY NewestIs
<1> QED  BY <1>1, <1>2

\* Maps that have everything up to a version have everything up to earlier ones.
LEMMA CoveringLess ==
    ASSUME NEW w, NEW m \in [Keys -> Nat], NEW u \in Nat, NEW v \in Nat, u <= v, Covering(w, m, v)
    PROVE  Covering(w, m, u)
<1> SUFFICES ASSUME NEW k \in Keys PROVE Newest(w, k, u) <= m[k]
  BY DEF Covering
<1>1. Newest(w, k, u) <= Newest(w, k, v) /\ Newest(w, k, v) <= m[k]
  BY NewestAscends DEF Covering
<1>2. Newest(w, k, u) \in Nat /\ Newest(w, k, v) \in Nat /\ m[k] \in Nat
  BY NewestIs
<1> QED  BY <1>1, <1>2

\* Nothing has to be there for version 0.
LEMMA CoveringZero ==
    ASSUME NEW w, NEW m \in [Keys -> Nat]
    PROVE  Covering(w, m, 0)
<1> SUFFICES ASSUME NEW k \in Keys PROVE Newest(w, k, 0) <= m[k]
  BY DEF Covering
<1>1. Newest(w, k, 0) \in 0 .. 0 /\ m[k] \in Nat
  BY NewestIs
<1> QED  BY <1>1

\* Later commits change nothing about the earlier ones.
LEMMA NewestGrows ==
    ASSUME NEW w \in Seq(SUBSET Keys), NEW x \in Seq(SUBSET Keys), NEW v \in Nat, v <= Len(w), NEW k
    PROVE  Newest(w \o x, k, v) = Newest(w, k, v)
<1>1. \A i \in 1 .. v : (w \o x)[i] = w[i]
  OBVIOUS
<1>2. {i \in 1 .. v : k \in (w \o x)[i]} = {i \in 1 .. v : k \in w[i]}
  BY <1>1
<1> QED  BY <1>2 DEF Newest

LEMMA CoveringGrows ==
    ASSUME NEW w \in Seq(SUBSET Keys), NEW x \in Seq(SUBSET Keys), NEW v \in Nat, v <= Len(w), NEW m
    PROVE  Covering(w \o x, m, v) <=> Covering(w, m, v)
  BY NewestGrows DEF Covering

\* Applying commit u keeps what is covered up to v <= u, and when the maps covered
\* the version before u they cover u.
Applying(w, m, u) == [k \in Keys |-> IF k \in w[u] THEN u ELSE m[k]]

LEMMA CoveringApplied ==
    ASSUME NEW w, NEW m \in [Keys -> Nat], NEW u \in Nat, NEW v \in Nat, v <= u, Covering(w, m, v)
    PROVE  /\ Covering(w, Applying(w, m, u), v)
           /\ u = v + 1 => Covering(w, Applying(w, m, u), u)
<1>1. ASSUME NEW k \in Keys PROVE Newest(w, k, v) <= Applying(w, m, u)[k]
  <2>1. Newest(w, k, v) \in 0 .. v /\ Newest(w, k, v) <= m[k]
    BY NewestIs DEF Covering
  <2> QED  BY <2>1 DEF Applying
<1>2. ASSUME u = v + 1, NEW k \in Keys PROVE Newest(w, k, u) <= Applying(w, m, u)[k]
  <2>1. Newest(w, k, u) \in 0 .. u /\ (Newest(w, k, u) = 0 \/ k \in w[Newest(w, k, u)])
    BY NewestIs
  <2>2. CASE k \in w[u]
    BY <2>1, <2>2 DEF Applying
  <2>3. CASE k \notin w[u]
    <3>1. Newest(w, k, u) <= Newest(w, k, v)
      <4>1. Newest(w, k, v) \in 0 .. v /\ \A i \in 1 .. v : k \in w[i] => i <= Newest(w, k, v)
        BY NewestIs
      <4>2. Newest(w, k, u) # u \/ u = 0
        BY <2>1, <2>3
      <4>3. Newest(w, k, u) \in 0 .. v
        BY <1>2, <2>1, <4>2
      <4> QED  BY <2>1, <4>1, <4>3
    <3>2. Newest(w, k, v) <= m[k] /\ Newest(w, k, v) \in 0 .. v
      BY NewestIs DEF Covering
    <3> QED  BY <2>1, <2>3, <3>1, <3>2 DEF Applying
  <2> QED  BY <2>2, <2>3
<1> QED  BY <1>1, <1>2 DEF Covering

\* The first member of a sequence goes; a member is added.
LEMMA TailIs ==
    ASSUME NEW S, NEW q \in Seq(S), q # <<>>
    PROVE  /\ Tail(q) \in Seq(S) /\ Len(Tail(q)) = Len(q) - 1 /\ DOMAIN Tail(q) = 1 .. Len(q) - 1
           /\ \A i \in DOMAIN Tail(q) : Tail(q)[i] = q[i + 1] /\ i + 1 \in DOMAIN q
           /\ 1 \in DOMAIN q /\ Head(q) = q[1] /\ Head(q) \in S /\ Len(q) \in Nat /\ DOMAIN q = 1 .. Len(q)
  OBVIOUS

LEMMA AppendIs ==
    ASSUME NEW S, NEW q \in Seq(S), NEW e \in S
    PROVE  /\ Append(q, e) \in Seq(S) /\ Len(Append(q, e)) = Len(q) + 1
           /\ DOMAIN Append(q, e) = 1 .. Len(q) + 1 /\ DOMAIN q = 1 .. Len(q) /\ Len(q) \in Nat
           /\ \A i \in DOMAIN q : Append(q, e)[i] = q[i]
           /\ Append(q, e)[Len(q) + 1] = e
  OBVIOUS

----------------------------------------------------------------------------
(* Steps. *)

\* What a standby and its connection consist of.
Same(r) ==
    /\ handler'[r] = handler[r] /\ client'[r] = client[r] /\ commit_rx'[r] = commit_rx[r]
    /\ scan'[r] = scan[r] /\ down'[r] = down[r] /\ up'[r] = up[r] /\ replica'[r] = replica[r]

LEMMA SameStays ==
    ASSUME NEW r \in Standbys, Same(r), Sent' = Sent, writes' = writes, standby_connected => standby_connected'
    PROVE  /\ StandbyInv(r) => StandbyInv(r)'
           /\ \A v : Keeps(r, v) => Keeps(r, v)'
<1>1. Forwarded(r)' = Forwarded(r) /\ Base(r)' = Base(r)
  BY DEF Forwarded, Base, Same
<1>2. ASSUME NEW v PROVE Keeps(r, v) => Keeps(r, v)'
  BY <1>1 DEF Keeps, Same
<1>3. Connection(r) => Connection(r)'
  BY DEF Connection, Same, Requested, Snapped
<1>4. Stream(r) => Stream(r)'
  BY <1>1 DEF Stream, Same, OnlyCommits
<1>5. Acked(r) => Acked(r)'
  BY <1>2 DEF Acked, Same
<1> QED  BY <1>2, <1>3, <1>4, <1>5 DEF StandbyInv

\* A step of one standby or of its handler.
LEMMA OneStandby ==
    ASSUME ReplicationInv, NEW s \in Standbys, ShapeInv', StandbyInv(s)',
           Sent' = Sent, writes' = writes, standby_connected => standby_connected',
           \A r \in Standbys : r # s => Same(r),
           \A v : Keeps(s, v) => Keeps(s, v)',
           applied' = applied \/ Keeps(s, applied')
    PROVE  ReplicationInv'
<1>1. \A r \in Standbys : r # s => StandbyInv(r)' /\ \A v : Keeps(r, v) => Keeps(r, v)'
  BY SameStays DEF ReplicationInv
<1>2. HubInv'
  <2>1. CASE applied' = applied /\ applied = 0
    BY <2>1 DEF HubInv
  <2>2. CASE applied' = applied /\ applied # 0
    <3>1. PICK r \in Standbys : Keeps(r, applied)
      BY <2>2 DEF ReplicationInv, HubInv
    <3>2. PICK a : a = applied
      OBVIOUS
    <3>3. Keeps(r, a)'
      BY <1>1, <3>1, <3>2
    <3> QED  BY <2>2, <3>2, <3>3 DEF HubInv
  <2>3. CASE Keeps(s, applied')
    <3>1. PICK a : a = applied'
      OBVIOUS
    <3>2. Keeps(s, a)'
      BY <2>3, <3>1
    <3> QED  BY <3>1, <3>2 DEF HubInv
  <2> QED  BY <2>1, <2>2, <2>3
<1> QED  BY <1>1, <1>2 DEF ReplicationInv

\* The numbers that the invariant calculates with.
LEMMA Counts ==
    ASSUME ShapeInv, NEW s \in Standbys
    PROVE  /\ Sent \in Nat /\ Len(commit_rx[s]) \in Nat /\ Len(down[s]) \in Nat
           /\ Forwarded(s) \in Int /\ Base(s) \in Int
           /\ Forwarded(s) = Sent - Len(commit_rx[s]) /\ Base(s) = Forwarded(s) - Len(down[s])
           /\ Sent <= version
  BY DEF ShapeInv, Forwarded, Base, Sent

\* accept and subscribe.
LEMMA AcceptStays ==
    ASSUME ReplicationInv, NEW s \in Standbys, accept(s) \/ subscribe(s)
    PROVE  ReplicationInv'
<1>1. Connection(s) /\ Stream(s) /\ Acked(s) /\ ShapeInv
  BY DEF ReplicationInv, StandbyInv
<1>2. /\ UNCHANGED <<version, writes, data, batch, applied, client, scan, down, up, replica>>
      /\ standby_connected' /\ handler[s] # "open" /\ client[s] # "ready" /\ client'[s] # "off"
      /\ \A r \in Standbys : r # s => handler'[r] = handler[r] /\ commit_rx'[r] = commit_rx[r]
  <2>1. CASE accept(s)
    BY <1>1, <2>1 DEF accept, primary, standby, net, ShapeInv, Connection
  <2>2. CASE subscribe(s)
    BY <1>1, <2>2 DEF subscribe, primary, hub, standby, net, ShapeInv, Connection
  <2> QED  BY <2>1, <2>2
<1>3. /\ handler' \in [Standbys -> {"none", "spawned", "open"}] /\ commit_rx' \in [Standbys -> Seq(Nat)]
      /\ handler'[s] \in {"spawned", "open"}
      /\ handler'[s] = "open" => commit_rx'[s] = <<>>
  <2>1. CASE accept(s)
    BY <1>1, <2>1 DEF accept, ShapeInv
  <2>2. CASE subscribe(s)
    BY <1>1, <2>2 DEF subscribe, ShapeInv
  <2> QED  BY <2>1, <2>2
<1>4. Sent' = Sent
  BY <1>2 DEF Sent
<1>5. ShapeInv'
  BY <1>1, <1>2, <1>3, <1>4 DEF ShapeInv
<1>6. down[s] = <<>> /\ ~scan[s].active /\ Sent \in Nat
  BY <1>1, <1>2, Counts DEF Connection
<1>7. Connection(s)'
  BY <1>1, <1>2, <1>3, <1>6 DEF Connection, Requested, Snapped
<1>8. handler'[s] = "open" => Forwarded(s)' = Sent
  <2>1. Forwarded(s)' = Sent - Len(commit_rx'[s])
    BY <1>4 DEF Forwarded
  <2> QED  BY <1>3, <1>6, <2>1
<1>9. Stream(s)'
  BY <1>2, <1>3, <1>6, <1>8 DEF Stream
<1>10. ASSUME NEW v, Keeps(s, v) PROVE Keeps(s, v)'
  BY <1>2, <1>4, <1>6, <1>8, <1>10 DEF Keeps
<1>11. Acked(s)'
  BY <1>1, <1>2, <1>10 DEF Acked
<1> QED  BY <1>2, <1>4, <1>5, <1>7, <1>9, <1>10, <1>11, OneStandby DEF StandbyInv, Same

\* forward: the oldest record of the channel becomes the last message.
LEMMA ForwardStays ==
    ASSUME ReplicationInv, NEW s \in Standbys, forward(s)
    PROVE  ReplicationInv'
<1>1. Connection(s) /\ Stream(s) /\ Acked(s) /\ ShapeInv
  BY DEF ReplicationInv, StandbyInv
<1> DEFINE m == [type |-> "Commit", version |-> Head(commit_rx[s])]
<1>2. /\ UNCHANGED <<version, writes, data, batch, applied, standby_connected, client, handler, scan, up, replica>>
      /\ handler[s] = "open" /\ ~scan[s].active /\ commit_rx[s] # <<>>
      /\ down' = [down EXCEPT ![s] = Append(@, m)]
      /\ commit_rx' = [commit_rx EXCEPT ![s] = Tail(@)]
  BY DEF forward, primary, hub, standby
<1>3. commit_rx[s] \in Seq(Nat) /\ down[s] \in Seq(CommitMessages \cup SnapshotMessages)
  BY <1>1 DEF ShapeInv
<1>4. PICK q, d : q = commit_rx[s] /\ d = down[s]
  OBVIOUS
<1>5. m \in CommitMessages /\ m.version = q[1] /\ m.type = "Commit"
  BY <1>2, <1>3, <1>4, TailIs DEF CommitMessages
<1> HIDE DEF m
<1>6. /\ Tail(q) \in Seq(Nat) /\ Len(Tail(q)) = Len(q) - 1 /\ DOMAIN Tail(q) = 1 .. Len(q) - 1
      /\ \A i \in DOMAIN Tail(q) : Tail(q)[i] = q[i + 1] /\ i + 1 \in DOMAIN q
      /\ 1 \in DOMAIN q /\ Len(q) \in Nat
  BY <1>2, <1>3, <1>4, TailIs
<1>7. /\ Append(d, m) \in Seq(CommitMessages \cup SnapshotMessages) /\ Len(Append(d, m)) = Len(d) + 1
      /\ DOMAIN Append(d, m) = 1 .. Len(d) + 1 /\ DOMAIN d = 1 .. Len(d) /\ Len(d) \in Nat
      /\ \A i \in DOMAIN d : Append(d, m)[i] = d[i]
      /\ Append(d, m)[Len(d) + 1] = m
  <2>1. m \in CommitMessages \cup SnapshotMessages
    BY <1>5
  <2> QED  BY <1>3, <1>4, <2>1, AppendIs
<1>8. /\ commit_rx'[s] = Tail(q) /\ down'[s] = Append(d, m)
      /\ \A r \in Standbys : r # s => commit_rx'[r] = commit_rx[r] /\ down'[r] = down[r]
  BY <1>1, <1>2, <1>4 DEF ShapeInv
<1>9. Sent' = Sent
  BY <1>2 DEF Sent
<1>10. ShapeInv'
  <2>1. commit_rx' \in [Standbys -> Seq(Nat)]
    BY <1>1, <1>2, <1>4, <1>6 DEF ShapeInv
  <2>2. down' \in [Standbys -> Seq(CommitMessages \cup SnapshotMessages)]
    BY <1>1, <1>2, <1>4, <1>7 DEF ShapeInv
  <2> QED  BY <1>1, <1>2, <1>9, <2>1, <2>2 DEF ShapeInv
<1>11. PICK a, b : a = Forwarded(s) /\ b = Base(s) /\ a \in Int /\ b \in Int /\ b = a - Len(d) /\ a = Sent - Len(q)
  BY <1>1, <1>4, Counts
<1>12. Forwarded(s)' = a + 1 /\ Base(s)' = b
  <2>1. Forwarded(s)' = Sent - Len(Tail(q)) /\ Base(s)' = Forwarded(s)' - Len(Append(d, m)) /\ Sent \in Nat
    BY <1>1, <1>8, <1>9, Counts DEF Forwarded, Base
  <2> QED  BY <1>6, <1>7, <1>11, <2>1
<1>13. /\ 0 <= a /\ \A i \in DOMAIN q : q[i] = a + i
       /\ \A i \in DOMAIN d : OnlyCommits(s, i) => d[i].version = b + i
       /\ \A i \in DOMAIN d : d[i].type = "Snapshot" => 0 <= b + i /\ Covering(writes, d[i].data, b + i)
       /\ client[s] = "ready" => 0 <= b /\ Covering(writes, replica[s], b)
  BY <1>1, <1>2, <1>4, <1>11 DEF Stream
<1>14. Snapped(s)' <=> Snapped(s)
  BY <1>4, <1>5, <1>7, <1>8 DEF Snapped
<1>15. Connection(s)'
  <2>1. \A i, j \in DOMAIN Append(d, m) : Append(d, m)[i].type = "Snapshot" /\ Append(d, m)[j].type = "Snapshot" => i = j
    <3>1. \A i \in DOMAIN Append(d, m) : Append(d, m)[i].type = "Snapshot" => i \in DOMAIN d /\ d[i].type = "Snapshot"
      BY <1>5, <1>7
    <3> QED  BY <1>1, <1>4, <3>1 DEF Connection
  <2> QED  BY <1>1, <1>2, <1>8, <1>14, <2>1 DEF Connection, Requested
<1>16. Stream(s)'
  <2>1. \A i \in DOMAIN Tail(q) : Tail(q)[i] = a + 1 + i
    BY <1>6, <1>11, <1>13
  <2>2. ASSUME NEW i \in DOMAIN Append(d, m), OnlyCommits(s, i)' PROVE Append(d, m)[i].version = b + i
    <3>1. CASE i = Len(d) + 1
      <4>1. Append(d, m)[i].version = q[1] /\ q[1] = a + 1
        BY <1>5, <1>6, <1>7, <1>13, <3>1
      <4>2. a + 1 = b + i
        BY <1>7, <1>11, <3>1
      <4> QED  BY <4>1, <4>2
    <3>2. CASE i \in DOMAIN d
      <4>1. OnlyCommits(s, i)
        <5>1. \A j \in DOMAIN d : d[j] = down'[s][j] /\ j \in DOMAIN down'[s]
          BY <1>7, <1>8
        <5> QED  BY <1>4, <2>2, <5>1 DEF OnlyCommits
      <4> QED  BY <1>7, <1>13, <3>2, <4>1
    <3> QED  BY <1>7, <3>1, <3>2
  <2>3. ASSUME NEW i \in DOMAIN Append(d, m), Append(d, m)[i].type = "Snapshot"
        PROVE  0 <= b + i /\ Covering(writes, Append(d, m)[i].data, b + i)
    <3>1. i \in DOMAIN d
      BY <1>5, <1>7, <2>3
    <3> QED  BY <1>7, <1>13, <2>3, <3>1
  <2>4. 0 <= a + 1
    BY <1>11, <1>13
  <2> QED  BY <1>2, <1>8, <1>12, <1>13, <2>1, <2>2, <2>3, <2>4 DEF Stream
<1>17. ASSUME NEW v, Keeps(s, v) PROVE Keeps(s, v)'
  <2>1. /\ v \in 0 .. Sent /\ Covering(writes, replica[s], v) /\ v <= a
        /\ client[s] = "ready" => v <= b
        /\ \A i \in DOMAIN d : d[i].type = "Snapshot" => v <= b + i
    BY <1>2, <1>4, <1>11, <1>17 DEF Keeps
  <2>2. v <= a + 1
    BY <1>11, <2>1
  <2>3. \A i \in DOMAIN Append(d, m) : Append(d, m)[i].type = "Snapshot" => v <= b + i
    BY <1>5, <1>7, <2>1
  <2> QED  BY <1>2, <1>8, <1>9, <1>12, <2>1, <2>2, <2>3 DEF Keeps
<1>18. Acked(s)'
  BY <1>1, <1>2, <1>17 DEF Acked
<1> QED  BY <1>2, <1>8, <1>9, <1>10, <1>15, <1>16, <1>17, <1>18, OneStandby DEF StandbyInv, Same

\* The rest of a message is read: a request starts the snapshot, and a version that
\* a standby has applied is taken as such.
LEMMA ReadStays ==
    ASSUME ReplicationInv, NEW s \in Standbys, read_message(s)
    PROVE  ReplicationInv'
<1>1. Connection(s) /\ Stream(s) /\ Acked(s) /\ ShapeInv
  BY DEF ReplicationInv, StandbyInv
<1> DEFINE blank == [left |-> Keys, taken |-> [k \in {} |-> 0], active |-> TRUE]
<1>2. /\ UNCHANGED <<version, writes, data, batch, standby_connected, client, handler, commit_rx, down, replica>>
      /\ handler[s] = "open" /\ ~scan[s].active /\ up[s] # <<>>
      /\ up' = [up EXCEPT ![s] = Tail(@)]
      /\ \/ /\ Head(up[s]).type = "SnapshotRequest" /\ applied' = applied
            /\ scan' = [scan EXCEPT ![s] = blank]
         \/ /\ Head(up[s]).type = "Applied" /\ applied' = Max({applied, Head(up[s]).version})
            /\ scan' = scan
  BY DEF read_message, Reading, notify_applied, primary, standby
<1>3. up[s] \in Seq(Acks \cup Requests)
  BY <1>1 DEF ShapeInv
<1>4. PICK q : q = up[s]
  OBVIOUS
<1>5. /\ Tail(q) \in Seq(Acks \cup Requests) /\ Len(Tail(q)) = Len(q) - 1 /\ DOMAIN Tail(q) = 1 .. Len(q) - 1
      /\ \A i \in DOMAIN Tail(q) : Tail(q)[i] = q[i + 1] /\ i + 1 \in DOMAIN q
      /\ 1 \in DOMAIN q /\ Len(q) \in Nat /\ Head(q) = q[1] /\ q[1] \in Acks \cup Requests
  BY <1>2, <1>3, <1>4, TailIs
<1>6. /\ up'[s] = Tail(q)
      /\ \A r \in Standbys : r # s => up'[r] = up[r] /\ scan'[r] = scan[r]
      /\ q[1].type = "SnapshotRequest" => scan'[s] = blank
      /\ q[1].type # "SnapshotRequest" => scan'[s] = scan[s]
  BY <1>1, <1>2, <1>4, <1>5 DEF ShapeInv
<1>7. IsScan(blank) /\ blank.active /\ DOMAIN blank.taken = {}
  BY DEF IsScan
<1> HIDE DEF blank
<1>8. Sent' = Sent /\ Forwarded(s)' = Forwarded(s) /\ Base(s)' = Base(s)
  BY <1>2 DEF Sent, Forwarded, Base
<1>9. ASSUME NEW v, Keeps(s, v) PROVE Keeps(s, v)'
  BY <1>2, <1>8, <1>9 DEF Keeps
<1>10. CASE q[1].type = "SnapshotRequest"
  <2>1. Requested(s) /\ client[s] = "connecting" /\ ~Snapped(s) /\ Len(q) = 1
    <3>1. Requested(s)
      BY <1>4, <1>5, <1>10 DEF Requested
    <3>2. client[s] = "connecting"
      <4>1. client[s] # "off" /\ client[s] # "ready" /\ client[s] \in {"off", "connecting", "ready"}
        BY <1>1, <1>2, <3>1 DEF Connection, ShapeInv
      <4> QED  BY <4>1
    <3>3. Len(q) <= 1 /\ ~Snapped(s)
      BY <1>1, <1>4, <3>1, <3>2 DEF Connection
    <3>4. Len(q) # 0
      BY <1>2, <1>3, <1>4
    <3> QED  BY <1>5, <3>1, <3>2, <3>3, <3>4
  <2>2. Tail(q) = <<>> /\ DOMAIN Tail(q) = {} /\ applied' = applied
    BY <1>2, <1>4, <1>5, <1>10, <2>1
  <2>3. ShapeInv'
    <3>1. DOMAIN scan' = Standbys /\ \A r \in Standbys : IsScan(scan'[r])
      BY <1>1, <1>2, <1>4, <1>6, <1>7, <1>10 DEF ShapeInv
    <3>2. up' \in [Standbys -> Seq(Acks \cup Requests)]
      BY <1>1, <1>2, <1>4, <1>5 DEF ShapeInv
    <3> QED  BY <1>1, <1>2, <1>8, <2>2, <3>1, <3>2 DEF ShapeInv
  <2>4. Connection(s)'
    BY <1>1, <1>2, <1>5, <1>6, <1>7, <1>10, <2>1, <2>2 DEF Connection, Requested, Snapped
  <2>5. Stream(s)'
    BY <1>1, <1>2, <1>6, <1>7, <1>8, <1>10 DEF Stream, OnlyCommits
  <2>6. Acked(s)'
    BY <1>6, <2>2 DEF Acked
  <2> QED  BY <1>2, <1>6, <1>8, <1>9, <2>2, <2>3, <2>4, <2>5, <2>6, OneStandby DEF StandbyInv, Same
<1>11. CASE q[1].type # "SnapshotRequest"
  <2>1. q[1].version \in Nat /\ q[1].type = "Applied"
    BY <1>5, <1>11 DEF Acks, Requests
  <2>2. Keeps(s, q[1].version)
    BY <1>1, <1>4, <1>5, <2>1 DEF Acked
  <2>3. applied' = Max({applied, q[1].version}) /\ scan' = scan
    BY <1>2, <1>4, <1>5, <2>1
  <2>4. applied' \in {applied, q[1].version}
    <3>1. applied \in Nat
      BY <1>1 DEF ShapeInv
    <3>2. PICK x, y : x = applied /\ y = q[1].version
      OBVIOUS
    <3>3. \E z \in {x, y} : \A u \in {x, y} : z >= u
      BY <2>1, <3>1, <3>2
    <3>4. Max({x, y}) \in {x, y}
      BY <3>3 DEF Max
    <3> QED  BY <2>3, <3>2, <3>4
  <2>5. ShapeInv'
    <3>1. up' \in [Standbys -> Seq(Acks \cup Requests)]
      BY <1>1, <1>2, <1>4, <1>5 DEF ShapeInv
    <3>2. applied' \in Nat
      BY <1>1, <2>1, <2>4 DEF ShapeInv
    <3> QED  BY <1>1, <1>2, <1>8, <2>3, <3>1, <3>2 DEF ShapeInv
  <2>6. Connection(s)'
    <3>1. Requested(s)' => Requested(s)
      BY <1>4, <1>5, <1>6 DEF Requested
    <3>2. client[s] # "connecting"
      BY <1>1, <1>4, <1>5, <2>1 DEF Connection, Requests
    <3>3. client[s] # "off"
      BY <1>1, <1>2 DEF Connection
    <3> QED  BY <1>1, <1>2, <2>3, <3>1, <3>2, <3>3 DEF Connection, Snapped
  <2>7. Stream(s)'
    BY <1>1, <1>2, <1>8, <2>3 DEF Stream, OnlyCommits
  <2>8. Acked(s)'
    <3>1. ASSUME NEW i \in DOMAIN Tail(q), Tail(q)[i].type = "Applied" PROVE Keeps(s, Tail(q)[i].version)
      BY <1>1, <1>4, <1>5, <3>1 DEF Acked
    <3>2. ASSUME NEW i \in DOMAIN Tail(q), Tail(q)[i].type = "Applied" PROVE Keeps(s, Tail(q)[i].version)'
      BY <1>9, <3>1, <3>2
    <3> QED  BY <1>6, <3>2 DEF Acked
  <2>9. applied' = applied \/ Keeps(s, applied')
    BY <2>2, <2>4
  <2> QED  BY <1>2, <1>6, <1>8, <1>9, <2>3, <2>5, <2>6, <2>7, <2>8, <2>9, OneStandby DEF StandbyInv, Same
<1> QED  BY <1>10, <1>11

\* scan_all_maps: what is read now has every commit up to the current version.
LEMMA ScanStays ==
    ASSUME ReplicationInv, NEW s \in Standbys, scan_all_maps(s)
    PROVE  ReplicationInv'
<1>1. Connection(s) /\ Stream(s) /\ Acked(s) /\ ShapeInv
  BY DEF ReplicationInv, StandbyInv
<1>2. PICK k \in scan[s].left :
         /\ handler[s] = "open"
         /\ scan' = [scan EXCEPT ![s].left = @ \ {k},
                        ![s].taken = [j \in DOMAIN @ \cup {k} |-> IF j = k THEN data[k] ELSE @[j]]]
         /\ UNCHANGED <<version, writes, data, batch, applied, standby_connected, client, handler, commit_rx, down, up, replica>>
  BY DEF scan_all_maps, primary, hub, standby, net
<1>3. PICK c : c = scan[s] /\ IsScan(c) /\ k \in c.left /\ k \in Keys /\ c.active
  <2>1. IsScan(scan[s]) /\ k \in scan[s].left
    BY <1>1, <1>2 DEF ShapeInv
  <2>2. scan[s].active /\ k \in Keys
    BY <2>1 DEF IsScan
  <2> QED  BY <2>1, <2>2
<1> DEFINE t == [j \in DOMAIN c.taken \cup {k} |-> IF j = k THEN data[k] ELSE c.taken[j]]
           new == [left |-> c.left \ {k}, taken |-> t, active |-> c.active]
<1>4. /\ scan'[s] = new /\ DOMAIN scan' = Standbys
      /\ \A r \in Standbys : r # s => scan'[r] = scan[r]
  <2>1. c = [left |-> c.left, taken |-> c.taken, active |-> c.active]
    BY <1>3 DEF IsScan
  <2> QED  BY <1>1, <1>2, <1>3, <2>1 DEF ShapeInv
<1>5. data[k] \in Nat
  BY <1>1, <1>3 DEF ShapeInv
<1>6. IsScan(new) /\ new.active
  <2>1. DOMAIN c.taken = Keys \ c.left /\ c.left \subseteq Keys /\ c.taken \in [DOMAIN c.taken -> Nat]
    BY <1>3 DEF IsScan
  <2>2. DOMAIN t = Keys \ (c.left \ {k}) /\ t \in [DOMAIN t -> Nat]
    BY <1>3, <1>5, <2>1
  <2>3. new.left = c.left \ {k} /\ new.taken = t /\ new.active = c.active
    OBVIOUS
  <2> HIDE DEF t
  <2> QED  BY <1>3, <2>1, <2>2, <2>3 DEF IsScan
<1>7. Sent' = Sent /\ Forwarded(s)' = Forwarded(s) /\ Base(s)' = Base(s)
  BY <1>2 DEF Sent, Forwarded, Base
<1>8. ASSUME NEW v, Keeps(s, v) PROVE Keeps(s, v)'
  BY <1>2, <1>7, <1>8 DEF Keeps
<1>9. ShapeInv'
  BY <1>1, <1>2, <1>4, <1>6, <1>7 DEF ShapeInv
<1>10. Connection(s)'
  <2>1. scan'[s].active <=> scan[s].active
    BY <1>3, <1>4, <1>6
  <2> QED  BY <1>1, <1>2, <2>1 DEF Connection, Requested, Snapped
<1>11. ASSUME NEW j \in DOMAIN t PROVE Newest(writes, j, Forwarded(s)) <= t[j]
  <2>1. CASE j # k
    <3>1. j \in DOMAIN c.taken /\ t[j] = c.taken[j]
      BY <2>1
    <3> QED  BY <1>1, <1>2, <1>3, <3>1 DEF Stream
  <2>2. CASE j = k
    <3>1. Forwarded(s) \in Nat /\ Forwarded(s) <= version /\ version \in Nat
      BY <1>1, <1>2, Counts DEF Stream, ShapeInv
    <3>2. Newest(writes, k, Forwarded(s)) <= Newest(writes, k, version)
      BY <3>1, NewestAscends
    <3>3. Newest(writes, k, version) <= data[k]
      BY <1>1, <1>3 DEF ShapeInv, Covering
    <3>4. Newest(writes, k, Forwarded(s)) \in Nat /\ Newest(writes, k, version) \in Nat
      BY <3>1, NewestIs
    <3>5. Newest(writes, k, Forwarded(s)) <= data[k]
      BY <1>5, <3>2, <3>3, <3>4
    <3> QED  BY <2>2, <3>5
  <2> QED  BY <2>1, <2>2
<1>12. Stream(s)'
  <2>1. scan'[s].taken = t
    BY <1>4
  <2> HIDE DEF t, new
  <2> QED  BY <1>1, <1>2, <1>7, <1>11, <2>1 DEF Stream, OnlyCommits
<1>13. Acked(s)'
  BY <1>1, <1>2, <1>8 DEF Acked
<1> QED  BY <1>2, <1>4, <1>7, <1>8, <1>9, <1>10, <1>12, <1>13, OneStandby DEF StandbyInv, Same

\* snapshot_response: the snapshot becomes the last message.
LEMMA SnapshotStays ==
    ASSUME ReplicationInv, NEW s \in Standbys, snapshot_response(s)
    PROVE  ReplicationInv'
<1>1. Connection(s) /\ Stream(s) /\ Acked(s) /\ ShapeInv
  BY DEF ReplicationInv, StandbyInv
<1> DEFINE m == [type |-> "Snapshot", data |-> scan[s].taken]
<1>2. /\ UNCHANGED <<version, writes, data, batch, applied, standby_connected, client, handler, commit_rx, up, replica>>
      /\ handler[s] = "open" /\ scan[s].active /\ scan[s].left = {}
      /\ down' = [down EXCEPT ![s] = Append(@, m)]
      /\ scan' = [scan EXCEPT ![s] = NoScan]
  BY DEF snapshot_response, primary, hub, standby
<1>3. IsScan(scan[s]) /\ scan[s].taken \in [Keys -> Nat]
  BY <1>1, <1>2 DEF ShapeInv, IsScan
<1>4. PICK d : d = down[s] /\ d \in Seq(CommitMessages \cup SnapshotMessages)
  BY <1>1 DEF ShapeInv
<1>5. m \in SnapshotMessages /\ m.data = scan[s].taken /\ m.type = "Snapshot"
  BY <1>3 DEF SnapshotMessages
<1> HIDE DEF m
<1>6. /\ Append(d, m) \in Seq(CommitMessages \cup SnapshotMessages) /\ Len(Append(d, m)) = Len(d) + 1
      /\ DOMAIN Append(d, m) = 1 .. Len(d) + 1 /\ DOMAIN d = 1 .. Len(d) /\ Len(d) \in Nat
      /\ \A i \in DOMAIN d : Append(d, m)[i] = d[i]
      /\ Append(d, m)[Len(d) + 1] = m
  <2>1. m \in CommitMessages \cup SnapshotMessages
    BY <1>5
  <2> QED  BY <1>4, <2>1, AppendIs
<1>7. IsScan(NoScan) /\ ~NoScan.active
  BY DEF NoScan, IsScan
<1>8. /\ down'[s] = Append(d, m) /\ scan'[s] = NoScan /\ DOMAIN scan' = Standbys
      /\ \A r \in Standbys : r # s => scan'[r] = scan[r] /\ down'[r] = down[r]
  BY <1>1, <1>2, <1>4 DEF ShapeInv
<1>9. Sent' = Sent /\ Forwarded(s)' = Forwarded(s)
  BY <1>2 DEF Sent, Forwarded
<1>10. ShapeInv'
  <2>1. down' \in [Standbys -> Seq(CommitMessages \cup SnapshotMessages)]
    BY <1>1, <1>2, <1>4, <1>6 DEF ShapeInv
  <2>2. \A r \in Standbys : IsScan(scan'[r])
    BY <1>1, <1>7, <1>8 DEF ShapeInv
  <2> QED  BY <1>1, <1>2, <1>8, <1>9, <2>1, <2>2 DEF ShapeInv
<1>11. PICK a, b : a = Forwarded(s) /\ b = Base(s) /\ a \in Int /\ b \in Int /\ b = a - Len(d)
  BY <1>1, <1>4, Counts
<1>12. Base(s)' = b - 1 /\ Forwarded(s)' = a
  <2>1. Base(s)' = Forwarded(s)' - Len(Append(d, m))
    BY <1>8 DEF Base
  <2>2. Base(s)' = a - (Len(d) + 1)
    BY <1>6, <1>9, <1>11, <2>1
  <2> QED  BY <1>6, <1>9, <1>11, <2>2
<1>13. client[s] # "ready" /\ ~Requested(s) /\ \A i \in DOMAIN d : d[i].type # "Snapshot"
  BY <1>1, <1>2, <1>4 DEF Connection, Snapped
<1>14. Connection(s)'
  BY <1>1, <1>2, <1>7, <1>8, <1>13 DEF Connection, Requested
<1>15. b - 1 + (Len(d) + 1) = a
  BY <1>6, <1>11
<1>16. \A i \in DOMAIN Append(d, m) : Append(d, m)[i].type = "Snapshot" => i = Len(d) + 1
  BY <1>5, <1>6, <1>13
<1>17. Covering(writes, m.data, a) /\ 0 <= a
  <2>1. DOMAIN scan[s].taken = Keys
    BY <1>3
  <2> QED  BY <1>1, <1>2, <1>5, <1>11, <2>1 DEF Stream, Covering
<1>18. Stream(s)'
  <2>1. \A i \in DOMAIN Append(d, m) : ~OnlyCommits(s, i)'
    BY <1>5, <1>6, <1>8 DEF OnlyCommits
  <2>2. ASSUME NEW i \in DOMAIN Append(d, m), Append(d, m)[i].type = "Snapshot"
        PROVE  0 <= b - 1 + i /\ Covering(writes, Append(d, m)[i].data, b - 1 + i)
    <3>1. i = Len(d) + 1 /\ Append(d, m)[i] = m /\ b - 1 + i = a
      BY <1>6, <1>15, <1>16, <2>2
    <3> QED  BY <1>17, <3>1
  <2>3. \A i \in DOMAIN commit_rx[s] : commit_rx[s][i] = a + i
    BY <1>1, <1>2, <1>11 DEF Stream
  <2> QED  BY <1>2, <1>7, <1>8, <1>12, <1>13, <1>17, <2>1, <2>2, <2>3 DEF Stream
<1>19. ASSUME NEW v, Keeps(s, v) PROVE Keeps(s, v)'
  <2>1. v \in 0 .. Sent /\ Covering(writes, replica[s], v) /\ v <= a
    BY <1>2, <1>11, <1>19 DEF Keeps
  <2>2. \A i \in DOMAIN Append(d, m) : Append(d, m)[i].type = "Snapshot" => v <= b - 1 + i
    BY <1>15, <1>16, <2>1
  <2> QED  BY <1>2, <1>8, <1>9, <1>12, <1>13, <2>1, <2>2 DEF Keeps
<1>20. Acked(s)'
  BY <1>1, <1>2, <1>19 DEF Acked
<1> QED  BY <1>2, <1>8, <1>9, <1>10, <1>14, <1>18, <1>19, <1>20, OneStandby DEF StandbyInv, Same

\* A connection is made, or it is lost with all that was on its way.
LEMMA ReconnectStays ==
    ASSUME ReplicationInv, NEW s \in Standbys, connect(s) \/ disconnect(s) \/ unexpected_message(s)
    PROVE  ReplicationInv'
<1>1. Connection(s) /\ Stream(s) /\ Acked(s) /\ ShapeInv
  BY DEF ReplicationInv, StandbyInv
<1> DEFINE request == [type |-> "SnapshotRequest"]
<1>2. UNCHANGED <<version, writes, data, batch, applied, standby_connected, replica>>
  BY DEF connect, disconnect, unexpected_message, primary, hub
<1>3. request \in Requests /\ request.type # "Applied"
  BY DEF Requests
<1> HIDE DEF request
<1>4. IsScan(NoScan) /\ ~NoScan.active
  BY DEF NoScan, IsScan
<1>5. PICK c, u, n : /\ client' = [client EXCEPT ![s] = c] /\ handler' = [handler EXCEPT ![s] = "none"]
                     /\ up' = [up EXCEPT ![s] = u] /\ down' = [down EXCEPT ![s] = <<>>]
                     /\ \/ scan' = [scan EXCEPT ![s] = n] /\ commit_rx' = [commit_rx EXCEPT ![s] = <<>>]
                        \/ scan' = scan /\ n = scan[s] /\ commit_rx' = commit_rx
                     /\ IsScan(n) /\ ~n.active
                     /\ (c = "off" /\ u = <<>>) \/ (c = "connecting" /\ u = <<request>>)
  <2>1. CASE connect(s)
    <3>1. handler' = handler /\ handler[s] = "none" /\ scan' = scan /\ commit_rx' = commit_rx
      BY <2>1 DEF connect, server
    <3>2. handler' = [handler EXCEPT ![s] = "none"]
      BY <1>1, <3>1 DEF ShapeInv
    <3>3. client' = [client EXCEPT ![s] = "connecting"] /\ up' = [up EXCEPT ![s] = <<request>>] /\ down' = [down EXCEPT ![s] = <<>>]
      BY <2>1 DEF connect, request
    <3>4. IsScan(scan[s]) /\ ~scan[s].active
      BY <1>1, <3>1 DEF ShapeInv, Connection
    <3> QED  BY <3>1, <3>2, <3>3, <3>4
  <2>2. CASE Dropped(s)
    <3>1. client' = [client EXCEPT ![s] = "off"] /\ handler' = [handler EXCEPT ![s] = "none"]
      BY <2>2 DEF Dropped
    <3>2. up' = [up EXCEPT ![s] = <<>>] /\ down' = [down EXCEPT ![s] = <<>>]
      BY <2>2 DEF Dropped
    <3>3. scan' = [scan EXCEPT ![s] = NoScan] /\ commit_rx' = [commit_rx EXCEPT ![s] = <<>>]
      BY <2>2 DEF Dropped
    <3> WITNESS "off", <<>>, NoScan
    <3> QED  BY <1>4, <3>1, <3>2, <3>3
  <2> QED  BY <2>1, <2>2 DEF disconnect, unexpected_message
<1>6. /\ handler'[s] = "none" /\ down'[s] = <<>> /\ client'[s] = c /\ up'[s] = u
      /\ scan'[s] = n /\ DOMAIN scan' = Standbys
  <2>1. handler'[s] = "none" /\ client'[s] = c
    BY <1>1, <1>5 DEF ShapeInv
  <2>2. down'[s] = <<>> /\ up'[s] = u
    BY <1>1, <1>5 DEF ShapeInv
  <2>3. scan'[s] = n /\ DOMAIN scan' = Standbys
    BY <1>1, <1>5 DEF ShapeInv
  <2> QED  BY <2>1, <2>2, <2>3
<1>7. ASSUME NEW r \in Standbys, r # s PROVE Same(r)
  <2>1. handler'[r] = handler[r] /\ client'[r] = client[r]
    BY <1>1, <1>5, <1>7 DEF ShapeInv
  <2>2. down'[r] = down[r] /\ up'[r] = up[r]
    BY <1>1, <1>5, <1>7 DEF ShapeInv
  <2>3. scan'[r] = scan[r] /\ commit_rx'[r] = commit_rx[r]
    BY <1>1, <1>5, <1>7 DEF ShapeInv
  <2> QED  BY <1>2, <2>1, <2>2, <2>3 DEF Same
<1>8. Sent' = Sent
  BY <1>2 DEF Sent
<1>9. ShapeInv'
  <2>1. \A r \in Standbys : IsScan(scan'[r])
    BY <1>1, <1>5, <1>6, <1>7 DEF ShapeInv, Same
  <2>2. up' \in [Standbys -> Seq(Acks \cup Requests)]
    <3>1. <<request>> \in Seq(Acks \cup Requests) /\ <<>> \in Seq(Acks \cup Requests)
      BY <1>3
    <3>2. u \in Seq(Acks \cup Requests)
      BY <1>5, <3>1
    <3> QED  BY <1>1, <1>5, <3>2 DEF ShapeInv
  <2>3. down' \in [Standbys -> Seq(CommitMessages \cup SnapshotMessages)]
    BY <1>1, <1>5 DEF ShapeInv
  <2>4. client' \in [Standbys -> {"off", "connecting", "ready"}]
    BY <1>1, <1>5 DEF ShapeInv
  <2>5. handler' \in [Standbys -> {"none", "spawned", "open"}]
    BY <1>1, <1>5 DEF ShapeInv
  <2>6. commit_rx' \in [Standbys -> Seq(Nat)]
    <3>1. commit_rx \in [Standbys -> Seq(Nat)] /\ <<>> \in Seq(Nat)
      BY <1>1 DEF ShapeInv
    <3>2. commit_rx' = commit_rx \/ commit_rx' = [commit_rx EXCEPT ![s] = <<>>]
      BY <1>5
    <3> QED  BY <3>1, <3>2
  <2> QED  BY <1>1, <1>2, <1>6, <1>8, <2>1, <2>2, <2>3, <2>4, <2>5, <2>6 DEF ShapeInv
<1>10. Len(u) <= 1 /\ \A i \in DOMAIN u : u[i] \in Requests /\ u[i].type # "Applied"
  <2>1. CASE u = <<>>
    BY <2>1
  <2>2. CASE u = <<request>>
    BY <1>3, <2>2
  <2> QED  BY <1>5, <2>1, <2>2
<1>11. Connection(s)'
  BY <1>5, <1>6, <1>10 DEF Connection, Snapped
<1>12. Stream(s)'
  BY <1>6 DEF Stream
<1>13. ASSUME NEW v, Keeps(s, v) PROVE Keeps(s, v)'
  <2>1. v \in 0 .. Sent' /\ Covering(writes', replica'[s], v)
    BY <1>2, <1>8, <1>13 DEF Keeps
  <2> QED  BY <1>5, <1>6, <2>1 DEF Keeps
<1>14. Acked(s)'
  BY <1>6, <1>10 DEF Acked
<1> QED  BY <1>2, <1>7, <1>8, <1>9, <1>11, <1>12, <1>13, <1>14, OneStandby DEF StandbyInv

\* receive_snapshot: the maps become those of the snapshot.
LEMMA ReceiveSnapshotStays ==
    ASSUME ReplicationInv, NEW s \in Standbys, receive_snapshot(s)
    PROVE  ReplicationInv'
<1>1. Connection(s) /\ Stream(s) /\ Acked(s) /\ ShapeInv
  BY DEF ReplicationInv, StandbyInv
<1>2. /\ UNCHANGED <<version, writes, data, batch, applied, standby_connected, handler, commit_rx, scan, up>>
      /\ client[s] = "connecting" /\ down[s] # <<>> /\ Head(down[s]).type = "Snapshot"
      /\ client' = [client EXCEPT ![s] = "ready"]
      /\ replica' = [replica EXCEPT ![s] = Head(down[s]).data]
      /\ down' = [down EXCEPT ![s] = Tail(@)]
  BY DEF receive_snapshot, primary, hub, server
<1>3. PICK d : d = down[s] /\ d \in Seq(CommitMessages \cup SnapshotMessages)
  BY <1>1 DEF ShapeInv
<1>4. /\ Tail(d) \in Seq(CommitMessages \cup SnapshotMessages) /\ Len(Tail(d)) = Len(d) - 1 /\ DOMAIN Tail(d) = 1 .. Len(d) - 1
      /\ \A i \in DOMAIN Tail(d) : Tail(d)[i] = d[i + 1] /\ i + 1 \in DOMAIN d
      /\ 1 \in DOMAIN d /\ Head(d) = d[1] /\ d[1] \in CommitMessages \cup SnapshotMessages /\ Len(d) \in Nat /\ DOMAIN d = 1 .. Len(d)
  BY <1>2, <1>3, TailIs
<1>5. PICK m : m = d[1].data /\ m \in [Keys -> Nat] /\ d[1].type = "Snapshot"
  BY <1>2, <1>3, <1>4 DEF CommitMessages, SnapshotMessages
<1>6. /\ client'[s] = "ready" /\ replica'[s] = m /\ down'[s] = Tail(d)
      /\ \A r \in Standbys : r # s => client'[r] = client[r] /\ replica'[r] = replica[r] /\ down'[r] = down[r]
  <2>1. client'[s] = "ready" /\ \A r \in Standbys : r # s => client'[r] = client[r]
    BY <1>1, <1>2 DEF ShapeInv
  <2>2. replica'[s] = m /\ \A r \in Standbys : r # s => replica'[r] = replica[r]
    BY <1>1, <1>2, <1>3, <1>4, <1>5 DEF ShapeInv
  <2>3. down'[s] = Tail(d) /\ \A r \in Standbys : r # s => down'[r] = down[r]
    BY <1>1, <1>2, <1>3 DEF ShapeInv
  <2> QED  BY <2>1, <2>2, <2>3
<1>7. Sent' = Sent /\ Forwarded(s)' = Forwarded(s)
  BY <1>2 DEF Sent, Forwarded
<1>8. ShapeInv'
  <2>1. client' \in [Standbys -> {"off", "connecting", "ready"}]
    BY <1>1, <1>2 DEF ShapeInv
  <2>2. replica' \in [Standbys -> [Keys -> Nat]]
    BY <1>1, <1>2, <1>3, <1>4, <1>5 DEF ShapeInv
  <2>3. down' \in [Standbys -> Seq(CommitMessages \cup SnapshotMessages)]
    BY <1>1, <1>2, <1>3, <1>4 DEF ShapeInv
  <2> QED  BY <1>1, <1>2, <1>7, <2>1, <2>2, <2>3 DEF ShapeInv
<1>9. PICK a, b : a = Forwarded(s) /\ b = Base(s) /\ a \in Int /\ b \in Int /\ b = a - Len(d)
  BY <1>1, <1>3, Counts
<1>10. Base(s)' = b + 1
  <2>1. Base(s)' = Forwarded(s)' - Len(Tail(d))
    BY <1>6 DEF Base
  <2>2. Base(s)' = a - (Len(d) - 1)
    BY <1>4, <1>7, <1>9, <2>1
  <2> QED  BY <1>4, <1>9, <2>2
<1>11. handler[s] = "open" /\ ~Requested(s) /\ ~scan[s].active /\ Snapped(s)
  BY <1>1, <1>2, <1>3, <1>4, <1>5 DEF Connection, Snapped, ShapeInv
<1>12. \A i \in DOMAIN d : d[i].type = "Snapshot" => i = 1
  <2>1. \A i, j \in DOMAIN d : d[i].type = "Snapshot" /\ d[j].type = "Snapshot" => i = j
    BY <1>1, <1>3 DEF Connection
  <2> QED  BY <1>4, <1>5, <2>1
<1>13. ~Snapped(s)'
  BY <1>4, <1>6, <1>12 DEF Snapped
<1>14. Connection(s)'
  <2>1. \A i \in DOMAIN Tail(d) : Tail(d)[i].type # "Snapshot"
    BY <1>4, <1>12
  <2> QED  BY <1>1, <1>2, <1>6, <1>11, <1>13, <2>1 DEF Connection, Requested
<1>15. /\ 0 <= a /\ \A i \in DOMAIN commit_rx[s] : commit_rx[s][i] = a + i
       /\ \A i \in DOMAIN d : OnlyCommits(s, i) => d[i].version = b + i
       /\ 0 <= b + 1 /\ Covering(writes, m, b + 1)
  BY <1>1, <1>3, <1>4, <1>5, <1>9, <1>11 DEF Stream
<1>16. Stream(s)'
  <2>1. ASSUME NEW i \in DOMAIN Tail(d), OnlyCommits(s, i)' PROVE Tail(d)[i].version = b + 1 + i
    <3>1. OnlyCommits(s, i + 1)
      <4>1. \A j \in DOMAIN Tail(d) : i <= j => Tail(d)[j].type = "Commit"
        BY <1>6, <2>1 DEF OnlyCommits
      <4>2. ASSUME NEW j \in DOMAIN d, i + 1 <= j PROVE d[j].type = "Commit"
        <5>1. j - 1 \in DOMAIN Tail(d) /\ i <= j - 1 /\ j - 1 + 1 = j
          BY <1>4, <4>2
        <5> QED  BY <1>4, <4>1, <5>1
      <4> QED  BY <1>3, <4>2 DEF OnlyCommits
    <3>2. d[i + 1].version = b + (i + 1) /\ i \in Int
      BY <1>4, <1>15, <3>1
    <3> QED  BY <1>4, <1>9, <3>2
  <2>2. \A i \in DOMAIN Tail(d) : Tail(d)[i].type # "Snapshot"
    BY <1>4, <1>12
  <2> QED  BY <1>2, <1>6, <1>7, <1>9, <1>10, <1>11, <1>15, <2>1, <2>2 DEF Stream
<1>17. ASSUME NEW v, Keeps(s, v) PROVE Keeps(s, v)'
  <2>1. v \in 0 .. Sent /\ v <= a /\ v <= b + 1
    BY <1>3, <1>4, <1>5, <1>9, <1>11, <1>17 DEF Keeps
  <2>2. Covering(writes, m, v)
    <3>1. v \in Nat /\ b + 1 \in Nat
      BY <1>1, <1>9, <1>15, <2>1, Counts
    <3> QED  BY <1>5, <1>15, <2>1, <3>1, CoveringLess
  <2>3. \A i \in DOMAIN Tail(d) : Tail(d)[i].type # "Snapshot"
    BY <1>4, <1>12
  <2> QED  BY <1>2, <1>6, <1>7, <1>9, <1>10, <2>1, <2>2, <2>3 DEF Keeps
<1>18. Acked(s)'
  BY <1>1, <1>2, <1>17 DEF Acked
<1> QED  BY <1>2, <1>6, <1>7, <1>8, <1>14, <1>16, <1>17, <1>18, OneStandby DEF StandbyInv, Same

\* receive_commit: the record after the version the maps cover is applied, and its
\* version acknowledged.
LEMMA ReceiveCommitStays ==
    ASSUME ReplicationInv, NEW s \in Standbys, receive_commit(s)
    PROVE  ReplicationInv'
<1>1. Connection(s) /\ Stream(s) /\ Acked(s) /\ ShapeInv
  BY DEF ReplicationInv, StandbyInv
<1> DEFINE ack == [type |-> "Applied", version |-> Head(down[s]).version]
<1>2. /\ UNCHANGED <<version, writes, data, batch, applied, standby_connected, handler, commit_rx, scan, client>>
      /\ client[s] = "ready" /\ down[s] # <<>>
      /\ replica' = [replica EXCEPT ![s] = Applying(writes, @, Head(down[s]).version)]
      /\ down' = [down EXCEPT ![s] = Tail(@)]
      /\ up' = [up EXCEPT ![s] = Append(@, ack)]
  BY DEF receive_commit, Apply, Applying, primary, hub, server
<1>3. PICK d, q : d = down[s] /\ d \in Seq(CommitMessages \cup SnapshotMessages) /\ q = up[s] /\ q \in Seq(Acks \cup Requests)
  BY <1>1 DEF ShapeInv
<1>4. /\ Tail(d) \in Seq(CommitMessages \cup SnapshotMessages) /\ Len(Tail(d)) = Len(d) - 1 /\ DOMAIN Tail(d) = 1 .. Len(d) - 1
      /\ \A i \in DOMAIN Tail(d) : Tail(d)[i] = d[i + 1] /\ i + 1 \in DOMAIN d
      /\ 1 \in DOMAIN d /\ Head(d) = d[1] /\ d[1] \in CommitMessages \cup SnapshotMessages /\ Len(d) \in Nat /\ DOMAIN d = 1 .. Len(d)
  BY <1>2, <1>3, TailIs
<1>5. handler[s] = "open" /\ ~Requested(s) /\ ~scan[s].active /\ ~Snapped(s)
  BY <1>1, <1>2 DEF Connection
<1>6. \A i \in DOMAIN d : d[i].type = "Commit"
  <2>1. \A i \in DOMAIN d : d[i].type # "Snapshot" /\ d[i] \in CommitMessages \cup SnapshotMessages
    BY <1>3, <1>5 DEF Snapped
  <2> QED  BY <2>1 DEF CommitMessages, SnapshotMessages
<1>7. PICK a, b : a = Forwarded(s) /\ b = Base(s) /\ a \in Int /\ b \in Int /\ b = a - Len(d)
  BY <1>1, <1>3, Counts
<1>8. /\ 0 <= a /\ \A i \in DOMAIN commit_rx[s] : commit_rx[s][i] = a + i
      /\ \A i \in DOMAIN d : d[i].version = b + i
      /\ 0 <= b /\ Covering(writes, replica[s], b)
  <2>1. \A i \in DOMAIN d : OnlyCommits(s, i)
    BY <1>3, <1>6 DEF OnlyCommits
  <2> QED  BY <1>1, <1>2, <1>3, <1>5, <1>7, <2>1 DEF Stream
<1>9. Head(down[s]).version = b + 1
  BY <1>3, <1>4, <1>8
<1>10. ack.type = "Applied" /\ ack.version = b + 1 /\ ack \in Acks
  <2>1. b + 1 \in Nat
    BY <1>7, <1>8
  <2> QED  BY <1>9, <2>1 DEF Acks
<1> HIDE DEF ack
<1>11. PICK m : m = replica[s] /\ m \in [Keys -> Nat]
  BY <1>1 DEF ShapeInv
<1>12. Applying(writes, m, b + 1) \in [Keys -> Nat]
  BY <1>7, <1>8, <1>11 DEF Applying
<1>13. /\ replica'[s] = Applying(writes, m, b + 1) /\ down'[s] = Tail(d) /\ up'[s] = Append(q, ack)
       /\ \A r \in Standbys : r # s => up'[r] = up[r] /\ replica'[r] = replica[r] /\ down'[r] = down[r]
  <2>1. up'[s] = Append(q, ack) /\ \A r \in Standbys : r # s => up'[r] = up[r]
    BY <1>1, <1>2, <1>3 DEF ShapeInv
  <2>2. replica'[s] = Applying(writes, m, b + 1) /\ \A r \in Standbys : r # s => replica'[r] = replica[r]
    BY <1>1, <1>2, <1>9, <1>11 DEF ShapeInv
  <2>3. down'[s] = Tail(d) /\ \A r \in Standbys : r # s => down'[r] = down[r]
    BY <1>1, <1>2, <1>3 DEF ShapeInv
  <2> QED  BY <2>1, <2>2, <2>3
<1>14. /\ Append(q, ack) \in Seq(Acks \cup Requests) /\ Len(Append(q, ack)) = Len(q) + 1
       /\ DOMAIN Append(q, ack) = 1 .. Len(q) + 1 /\ DOMAIN q = 1 .. Len(q) /\ Len(q) \in Nat
       /\ \A i \in DOMAIN q : Append(q, ack)[i] = q[i]
       /\ Append(q, ack)[Len(q) + 1] = ack
  <2>1. ack \in Acks \cup Requests
    BY <1>10
  <2> QED  BY <1>3, <2>1, AppendIs
<1>15. Sent' = Sent /\ Forwarded(s)' = a
  BY <1>2, <1>7 DEF Sent, Forwarded
<1>16. ShapeInv'
  <2>1. up' \in [Standbys -> Seq(Acks \cup Requests)]
    BY <1>1, <1>2, <1>3, <1>14 DEF ShapeInv
  <2>2. replica' \in [Standbys -> [Keys -> Nat]]
    BY <1>1, <1>2, <1>9, <1>11, <1>12 DEF ShapeInv
  <2>3. down' \in [Standbys -> Seq(CommitMessages \cup SnapshotMessages)]
    BY <1>1, <1>2, <1>3, <1>4 DEF ShapeInv
  <2> QED  BY <1>1, <1>2, <1>15, <2>1, <2>2, <2>3 DEF ShapeInv
<1>17. Base(s)' = b + 1 /\ b + 1 <= a
  <2>1. Base(s)' = Forwarded(s)' - Len(Tail(d))
    BY <1>13 DEF Base
  <2>2. Base(s)' = a - (Len(d) - 1) /\ Len(d) >= 1
    BY <1>4, <1>15, <2>1
  <2> QED  BY <1>4, <1>7, <2>2
<1>18. \A v \in Nat : v <= b /\ Covering(writes, m, v) => Covering(writes, Applying(writes, m, b + 1), v)
  <2>1. b \in Nat /\ b + 1 \in Nat
    BY <1>7, <1>8
  <2>2. \A v \in Nat : v <= b => v <= b + 1
    BY <2>1
  <2> QED  BY <1>11, <2>1, <2>2, CoveringApplied
<1>19. Covering(writes, Applying(writes, m, b + 1), b + 1)
  <2>1. b \in Nat /\ b + 1 \in Nat /\ b <= b + 1
    BY <1>7, <1>8
  <2> QED  BY <1>8, <1>11, <2>1, CoveringApplied
<1>20. \A i \in DOMAIN Tail(d) : Tail(d)[i].type = "Commit" /\ Tail(d)[i].version = b + 1 + i
  <2>1. ASSUME NEW i \in DOMAIN Tail(d) PROVE Tail(d)[i].type = "Commit" /\ Tail(d)[i].version = b + 1 + i
    <3>1. i + 1 \in DOMAIN d /\ Tail(d)[i] = d[i + 1] /\ i \in Int
      BY <1>4
    <3>2. b + (i + 1) = b + 1 + i
      BY <1>7, <3>1
    <3> QED  BY <1>6, <1>8, <3>1, <3>2
  <2> QED  BY <2>1
<1>21. Connection(s)'
  <2>1. ~Requested(s)'
    BY <1>3, <1>5, <1>10, <1>13, <1>14 DEF Requested
  <2>2. ~Snapped(s)' /\ \A i \in DOMAIN down'[s] : down'[s][i].type # "Snapshot"
    BY <1>13, <1>20 DEF Snapped
  <2> QED  BY <1>1, <1>2, <1>5, <2>1, <2>2 DEF Connection
<1>22. Stream(s)'
  <2>1. 0 <= b + 1
    BY <1>7, <1>8
  <2>2. \A i \in DOMAIN Tail(d) : Tail(d)[i].version = b + 1 + i /\ Tail(d)[i].type # "Snapshot"
    BY <1>20
  <2> QED  BY <1>2, <1>5, <1>8, <1>13, <1>15, <1>17, <1>19, <2>1, <2>2 DEF Stream
<1>23. ASSUME NEW v, Keeps(s, v) PROVE Keeps(s, v)'
  <2>1. v \in 0 .. Sent /\ v \in Nat /\ v <= a /\ v <= b /\ Covering(writes, m, v)
    BY <1>1, <1>2, <1>5, <1>7, <1>11, <1>23, Counts DEF Keeps
  <2>2. v <= b + 1
    BY <1>7, <2>1
  <2> QED  BY <1>2, <1>13, <1>15, <1>17, <1>18, <1>20, <2>1, <2>2 DEF Keeps
<1>24. Keeps(s, b + 1)'
  <2>1. b + 1 \in 0 .. Sent
    <3>1. PICK n : n = Len(commit_rx[s]) /\ n \in Nat /\ a = Sent - n /\ Sent \in Nat
      BY <1>1, <1>7, Counts
    <3> QED  BY <1>7, <1>8, <1>17, <3>1
  <2>2. b + 1 <= b + 1
    BY <1>7
  <2> QED  BY <1>2, <1>13, <1>15, <1>17, <1>19, <1>20, <2>1, <2>2 DEF Keeps
<1>25. Acked(s)'
  <2>1. ASSUME NEW i \in DOMAIN Append(q, ack), Append(q, ack)[i].type = "Applied",
               NEW v, v = Append(q, ack)[i].version
        PROVE  Keeps(s, v)'
    <3>1. CASE i \in DOMAIN q
      <4>1. Keeps(s, v)
        BY <1>1, <1>3, <1>14, <2>1, <3>1 DEF Acked
      <4> QED  BY <1>23, <4>1
    <3>2. CASE i = Len(q) + 1
      <4>1. v = b + 1
        BY <1>10, <1>14, <2>1, <3>2
      <4> QED  BY <1>24, <4>1
    <3> QED  BY <1>14, <3>1, <3>2
  <2> QED  BY <1>13, <2>1 DEF Acked
<1> QED  BY <1>2, <1>13, <1>15, <1>16, <1>21, <1>22, <1>23, <1>25, OneStandby DEF StandbyInv, Same

\* read_length changes nothing that the invariant speaks of.
LEMMA LengthStays ==
    ASSUME ReplicationInv, NEW s \in Standbys, read_length(s)
    PROVE  ReplicationInv'
<1>1. /\ UNCHANGED <<version, writes, data, batch, applied, standby_connected, handler, commit_rx, scan, client, down, up, replica>>
  BY DEF read_length, primary, hub, standby, net
<1>2. Sent' = Sent /\ \A r \in Standbys : Same(r)
  BY <1>1 DEF Sent, Same
<1>3. ShapeInv'
  BY <1>1, <1>2 DEF ReplicationInv, ShapeInv
<1>4. StandbyInv(s)' /\ \A v : Keeps(s, v) => Keeps(s, v)'
  BY <1>1, <1>2, SameStays DEF ReplicationInv
<1> QED  BY <1>1, <1>2, <1>3, <1>4, OneStandby

----------------------------------------------------------------------------
(* Steps of the primary. *)

\* One or two commits are applied: the maps have every one of them, and what was
\* covered before is covered as it was.
LEMMA BatchMaps ==
    ASSUME ReplicationInv, NEW keys \in Seq(SUBSET Keys), commit_batch(keys)
    PROVE  /\ data' \in [Keys -> 0 .. version + Len(keys)]
           /\ Covering(writes \o keys, data', version + Len(keys))
<1>1. ShapeInv /\ data' = [k \in Keys |-> Max({data[k]} \cup {version + i : i \in {j \in DOMAIN keys : k \in keys[j]}})]
  BY DEF ReplicationInv, commit_batch
<1>2. PICK n, l, w : n = version /\ l = Len(keys) /\ n \in Nat /\ l \in Nat /\ w = writes /\ w \in Seq(SUBSET Keys) /\ Len(w) = n
  <2>1. Len(keys) \in Nat
    OBVIOUS
  <2> QED  BY <1>1, <2>1 DEF ShapeInv
<1>3. n + l \in Nat
  BY <1>2
<1>4. ASSUME NEW k \in Keys
      PROVE  data'[k] \in 0 .. n + l /\ Newest(w \o keys, k, n + l) <= data'[k]
  <2> DEFINE new == {n + i : i \in {j \in DOMAIN keys : k \in keys[j]}}
             T == {data[k]} \cup new
  <2>1. data'[k] = Max(T)
    BY <1>1, <1>2
  <2>2. data[k] \in 0 .. n /\ Newest(w, k, n) <= data[k]
    BY <1>1, <1>2 DEF ShapeInv, Covering
  <2>3. new \in SUBSET (0 .. n + l)
    BY <1>2
  <2>4. T \in SUBSET (0 .. n + l) /\ T # {} /\ data[k] \in T
    <3>1. data[k] \in 0 .. n + l
      BY <1>2, <2>2
    <3> HIDE DEF new
    <3> QED  BY <2>3, <3>1
  <2>5. Max(T) \in T /\ \A y \in T : y <= Max(T)
    <3> HIDE DEF T
    <3> QED  BY <1>3, <2>4, Greatest
  <2>6. PICK x : x = Newest(w \o keys, k, n + l)
    OBVIOUS
  <2>7. x \in 0 .. n + l /\ (x = 0 \/ k \in (w \o keys)[x])
    BY <1>3, <2>6, NewestIs
  <2>8. x <= Max(T)
    <3>1. CASE x = 0
      BY <1>2, <2>4, <2>5, <3>1
    <3>2. CASE x \in 1 .. n
      <4>1. (w \o keys)[x] = w[x]
        BY <1>2, <3>2
      <4>2. k \in w[x]
        BY <1>2, <2>7, <3>2, <4>1
      <4>3. x <= Newest(w, k, n) /\ Newest(w, k, n) \in 0 .. n
        BY <1>2, <3>2, <4>2, NewestIs
      <4>4. x <= data[k] /\ data[k] <= Max(T)
        BY <1>2, <2>2, <2>4, <2>5, <3>2, <4>3
      <4> QED  BY <1>2, <2>2, <2>4, <2>5, <2>7, <4>4
    <3>3. CASE x \in n + 1 .. n + l
      <4>1. x - n \in DOMAIN keys /\ (w \o keys)[x] = keys[x - n] /\ n + (x - n) = x /\ x # 0
        BY <1>2, <3>3
      <4>2. k \in keys[x - n]
        BY <2>7, <4>1
      <4>3. x \in new
        BY <4>1, <4>2
      <4> QED  BY <2>5, <4>3
    <3> QED  BY <1>2, <2>7, <3>1, <3>2, <3>3
  <2> HIDE DEF T
  <2> QED  BY <2>1, <2>4, <2>5, <2>6, <2>8
<1>5. data' \in [Keys -> 0 .. n + l]
  <2>1. DOMAIN data' = Keys /\ data' = [k \in Keys |-> data'[k]]
    BY <1>1
  <2> QED  BY <1>4, <2>1
<1> QED  BY <1>2, <1>4, <1>5 DEF Covering

LEMMA BatchStays ==
    ASSUME ReplicationInv, NEW keys \in Seq(SUBSET Keys), commit_batch(keys)
    PROVE  ReplicationInv'
<1>1. ShapeInv
  BY DEF ReplicationInv
<1>2. /\ UNCHANGED <<applied, standby_connected, handler, commit_rx, scan, client, down, up, replica>>
      /\ batch = <<>> /\ version' = version + Len(keys) /\ writes' = writes \o keys
      /\ batch' = [i \in DOMAIN keys |-> version + i]
  BY DEF commit_batch, hub, server, standby, net
<1>3. PICK n, l : n = version /\ l = Len(keys) /\ n \in Nat /\ l \in Nat
  <2>1. Len(keys) \in Nat
    OBVIOUS
  <2> QED  BY <1>1, <2>1 DEF ShapeInv
<1>4. Sent = n /\ \A r \in Standbys : Same(r)
  BY <1>2, <1>3 DEF Sent, Same
<1>5. batch' \in Seq(Nat) /\ Len(batch') = l /\ DOMAIN batch' = 1 .. l /\ \A i \in DOMAIN batch' : batch'[i] = n + i
  <2>1. DOMAIN keys = 1 .. l
    BY <1>3
  <2>2. batch' = [i \in 1 .. l |-> n + i]
    BY <1>2, <1>3, <2>1
  <2>3. \A i \in 1 .. l : n + i \in Nat
    BY <1>3
  <2> QED  BY <1>3, <2>2, <2>3
<1>6. version' = n + l /\ Sent' = n
  <2>1. version' = n + l /\ Sent' = version' - l
    BY <1>2, <1>3, <1>5 DEF Sent
  <2> QED  BY <1>3, <2>1
<1>7. writes' \in Seq(SUBSET Keys) /\ Len(writes') = n + l
  <2>1. writes \in Seq(SUBSET Keys) /\ Len(writes) = n
    BY <1>1, <1>3 DEF ShapeInv
  <2>2. writes \o keys \in Seq(SUBSET Keys) /\ Len(writes \o keys) = Len(writes) + Len(keys)
    BY <2>1
  <2> QED  BY <1>2, <1>3, <2>1, <2>2
<1>8. ShapeInv'
  <2>1. data' \in [Keys -> 0 .. version'] /\ Covering(writes', data', version')
    BY <1>2, BatchMaps
  <2>2. version' \in Nat /\ Sent' \in Nat
    BY <1>3, <1>6
  <2>3. \A i \in DOMAIN batch' : batch'[i] = Sent' + i
    BY <1>5, <1>6
  <2> QED  BY <1>1, <1>2, <1>5, <1>6, <1>7, <2>1, <2>2, <2>3 DEF ShapeInv
<1>9. \A v \in Nat : v <= n => \A m : (Covering(writes', m, v) <=> Covering(writes, m, v))
  BY <1>1, <1>2, <1>3, CoveringGrows DEF ShapeInv
<1>10. ASSUME NEW v \in Nat, v <= n, NEW k PROVE Newest(writes', k, v) = Newest(writes, k, v)
  <2>1. writes \in Seq(SUBSET Keys) /\ v <= Len(writes)
    BY <1>1, <1>3, <1>10 DEF ShapeInv
  <2> QED  BY <1>2, <2>1, NewestGrows
<1>11. ASSUME NEW s \in Standbys
       PROVE  StandbyInv(s)' /\ \A v : Keeps(s, v) => Keeps(s, v)'
  <2>1. Connection(s) /\ Stream(s) /\ Acked(s)
    BY DEF ReplicationInv, StandbyInv
  <2>2. PICK a, b : a = Forwarded(s) /\ b = Base(s) /\ a \in Int /\ b \in Int /\ b = a - Len(down[s]) /\ a = n - Len(commit_rx[s])
                    /\ Len(down[s]) \in Nat /\ Len(commit_rx[s]) \in Nat /\ DOMAIN down[s] = 1 .. Len(down[s])
    <3>1. DOMAIN down[s] = 1 .. Len(down[s])
      BY <1>1 DEF ShapeInv
    <3> QED  BY <1>1, <1>4, <3>1, Counts
  <2>3. Forwarded(s)' = a /\ Base(s)' = b
    BY <1>4, <1>6, <2>2 DEF Forwarded, Base, Same
  <2>4. a <= n /\ b <= n /\ \A i \in DOMAIN down[s] : b + i <= n /\ b + i \in Int
    <3>1. PICK x, y : x = Len(down[s]) /\ y = Len(commit_rx[s]) /\ x \in Nat /\ y \in Nat
      BY <2>2
    <3>2. a \in Int /\ b \in Int /\ a = n - y /\ b = a - x /\ \A i \in DOMAIN down[s] : i \in 1 .. x
      BY <2>2, <3>1
    <3>3. n \in Nat /\ x \in Nat /\ y \in Nat /\ a \in Int /\ b \in Int /\ a = n - y /\ b = a - x
      BY <1>3, <3>1, <3>2
    <3>4. a <= n /\ b <= n
      BY <3>3
    <3>5. ASSUME NEW i \in DOMAIN down[s] PROVE b + i <= n /\ b + i \in Int
      <4>1. i \in 1 .. x
        BY <3>2
      <4> QED  BY <3>3, <4>1
    <3> QED  BY <3>4, <3>5
  <2>5. ASSUME NEW v PROVE Keeps(s, v) => Keeps(s, v)'
    <3>1. v \in 0 .. n => v \in Nat /\ v <= n
      BY <1>3
    <3> QED  BY <1>4, <1>6, <1>9, <2>2, <2>3, <3>1 DEF Keeps, Same
  <2>6. Connection(s)'
    BY <1>2, <1>4, <2>1 DEF Connection, Same, Requested, Snapped
  <2>7. Stream(s)'
    <3>1. ASSUME handler[s] = "open"
          PROVE  /\ 0 <= a /\ \A i \in DOMAIN commit_rx[s] : commit_rx[s][i] = a + i
                 /\ \A i \in DOMAIN down[s] : OnlyCommits(s, i) => down[s][i].version = b + i
                 /\ \A i \in DOMAIN down[s] : down[s][i].type = "Snapshot" =>
                        0 <= b + i /\ Covering(writes, down[s][i].data, b + i)
                 /\ scan[s].active => \A k \in DOMAIN scan[s].taken : Newest(writes, k, a) <= scan[s].taken[k]
                 /\ client[s] = "ready" => 0 <= b /\ Covering(writes, replica[s], b)
      BY <2>1, <2>2, <3>1 DEF Stream
    <3>2. ASSUME handler[s] = "open", NEW i \in DOMAIN down[s], down[s][i].type = "Snapshot"
          PROVE  0 <= b + i /\ Covering(writes', down[s][i].data, b + i)
      <4>1. 0 <= b + i /\ Covering(writes, down[s][i].data, b + i)
        BY <3>1, <3>2
      <4>2. b + i \in Nat
        BY <2>4, <4>1
      <4> QED  BY <1>9, <2>4, <4>1, <4>2
    <3>3. ASSUME handler[s] = "open", scan[s].active, NEW k \in DOMAIN scan[s].taken
          PROVE  Newest(writes', k, a) <= scan[s].taken[k]
      <4>1. a \in Nat
        BY <2>2, <3>1, <3>3
      <4> QED  BY <1>10, <2>4, <3>1, <3>3, <4>1
    <3>4. ASSUME handler[s] = "open", client[s] = "ready"
          PROVE  0 <= b /\ Covering(writes', replica[s], b)
      <4>1. 0 <= b /\ b \in Nat
        BY <2>2, <3>1, <3>4
      <4> QED  BY <1>9, <2>4, <3>1, <3>4, <4>1
    <3>5. \A i : OnlyCommits(s, i)' <=> OnlyCommits(s, i)
      BY <1>4 DEF OnlyCommits, Same
    <3> QED  BY <1>4, <2>3, <3>1, <3>2, <3>3, <3>4, <3>5 DEF Stream, Same
  <2>8. Acked(s)'
    BY <1>4, <2>1, <2>5 DEF Acked, Same
  <2> QED  BY <2>5, <2>6, <2>7, <2>8 DEF StandbyInv
<1>12. HubInv'
  <2>1. PICK x : x = applied /\ applied' = x
    BY <1>2
  <2>2. x = 0 \/ \E s \in Standbys : Keeps(s, x)
    BY <2>1 DEF ReplicationInv, HubInv
  <2>3. x = 0 \/ \E s \in Standbys : Keeps(s, x)'
    BY <1>11, <2>2
  <2> QED  BY <2>1, <2>3 DEF HubInv
<1> QED  BY <1>8, <1>11, <1>12 DEF ReplicationInv

\* The listener is called for the next record. Who has subscribed gets it.
LEMMA ListenerStays ==
    ASSUME ReplicationInv, UNCHANGED <<version, writes, data, applied, standby_connected, handler, scan, client, down, up, replica>>,
           batch # <<>>, batch' = Tail(batch), commit_rx' \in [Standbys -> Seq(Nat)],
           \A s \in Standbys : handler[s] = "open" => commit_rx'[s] = Append(commit_rx[s], Head(batch))
    PROVE  ReplicationInv'
<1>1. ShapeInv
  BY DEF ReplicationInv
<1>2. PICK t : t = batch /\ t \in Seq(Nat)
  BY <1>1 DEF ShapeInv
<1>3. /\ Tail(t) \in Seq(Nat) /\ Len(Tail(t)) = Len(t) - 1 /\ DOMAIN Tail(t) = 1 .. Len(t) - 1
      /\ \A i \in DOMAIN Tail(t) : Tail(t)[i] = t[i + 1] /\ i + 1 \in DOMAIN t
      /\ 1 \in DOMAIN t /\ Head(t) = t[1] /\ Len(t) \in Nat
  BY <1>2, TailIs
<1>4. PICK n : n = Sent /\ n \in Nat /\ n = version - Len(t) /\ version \in Nat
  BY <1>1, <1>2 DEF ShapeInv, Sent
<1>5. Sent' = n + 1 /\ Head(t) = n + 1
  <2>1. Sent' = version - (Len(t) - 1)
    BY <1>2, <1>3 DEF Sent
  <2>2. Head(t) = n + 1
    BY <1>1, <1>2, <1>3, <1>4 DEF ShapeInv
  <2> QED  BY <1>3, <1>4, <2>1, <2>2
<1>6. ShapeInv'
  <2>1. ASSUME NEW i \in DOMAIN Tail(t) PROVE Tail(t)[i] = Sent' + i
    <3>1. Tail(t)[i] = n + (i + 1) /\ i \in Int
      BY <1>1, <1>2, <1>3, <1>4 DEF ShapeInv
    <3> QED  BY <1>4, <1>5, <3>1
  <2>2. Sent' \in Nat /\ batch' = Tail(t)
    BY <1>2, <1>4, <1>5
  <2> QED  BY <1>1, <1>3, <2>1, <2>2 DEF ShapeInv
<1>7. ASSUME NEW s \in Standbys
      PROVE  StandbyInv(s)' /\ \A v : Keeps(s, v) => Keeps(s, v)'
  <2>1. Connection(s) /\ Stream(s) /\ Acked(s)
    BY DEF ReplicationInv, StandbyInv
  <2>2. Connection(s)'
    BY <2>1 DEF Connection, Requested, Snapped
  <2>3. \A v : v \in 0 .. n => v \in 0 .. n + 1
    BY <1>4
  <2>4. CASE handler[s] # "open"
    <3>1. down[s] = <<>> /\ client[s] # "ready"
      BY <2>1, <2>4 DEF Connection
    <3>2. ASSUME NEW v PROVE Keeps(s, v) => Keeps(s, v)'
      BY <1>4, <1>5, <2>3, <2>4, <3>1 DEF Keeps
    <3>3. Stream(s)'
      BY <2>4 DEF Stream
    <3>4. Acked(s)'
      BY <2>1, <3>2 DEF Acked
    <3> QED  BY <2>2, <3>2, <3>3, <3>4 DEF StandbyInv
  <2>5. CASE handler[s] = "open"
    <3>1. PICK q : q = commit_rx[s] /\ q \in Seq(Nat) /\ commit_rx'[s] = Append(q, n + 1)
      BY <1>1, <1>2, <1>5, <2>5 DEF ShapeInv
    <3>2. /\ Len(Append(q, n + 1)) = Len(q) + 1
          /\ DOMAIN Append(q, n + 1) = 1 .. Len(q) + 1 /\ DOMAIN q = 1 .. Len(q) /\ Len(q) \in Nat
          /\ \A i \in DOMAIN q : Append(q, n + 1)[i] = q[i]
          /\ Append(q, n + 1)[Len(q) + 1] = n + 1
      <4>1. n + 1 \in Nat
        BY <1>4
      <4> QED  BY <3>1, <4>1, AppendIs
    <3>3. PICK a, b : a = Forwarded(s) /\ b = Base(s) /\ a \in Int /\ b \in Int /\ b = a - Len(down[s]) /\ a = n - Len(q)
      BY <1>1, <1>4, <3>1, Counts
    <3>4. Forwarded(s)' = a /\ Base(s)' = b
      <4>1. Forwarded(s)' = (n + 1) - (Len(q) + 1)
        BY <1>5, <3>1, <3>2 DEF Forwarded
      <4>2. Forwarded(s)' = a
        BY <1>4, <3>2, <3>3, <4>1
      <4> QED  BY <3>3, <4>2 DEF Base
    <3>5. ASSUME NEW i \in DOMAIN Append(q, n + 1) PROVE Append(q, n + 1)[i] = a + i
      <4>1. CASE i \in DOMAIN q
        BY <2>1, <2>5, <3>1, <3>2, <3>3, <4>1 DEF Stream
      <4>2. CASE i = Len(q) + 1
        <5>1. n + 1 = a + i
          BY <1>4, <3>2, <3>3, <4>2
        <5> QED  BY <3>2, <4>2, <5>1
      <4> QED  BY <3>2, <4>1, <4>2
    <3>6. ASSUME NEW v PROVE Keeps(s, v) => Keeps(s, v)'
      BY <1>4, <1>5, <2>3, <2>5, <3>3, <3>4 DEF Keeps
    <3>7. Stream(s)'
      BY <2>1, <2>5, <3>1, <3>3, <3>4, <3>5 DEF Stream, OnlyCommits
    <3>8. Acked(s)'
      BY <2>1, <3>6 DEF Acked
    <3> QED  BY <2>2, <3>6, <3>7, <3>8 DEF StandbyInv
  <2> QED  BY <2>4, <2>5
<1>8. HubInv'
  <2>1. PICK x : x = applied /\ applied' = x
    OBVIOUS
  <2>2. x = 0 \/ \E s \in Standbys : Keeps(s, x)
    BY <2>1 DEF ReplicationInv, HubInv
  <2>3. x = 0 \/ \E s \in Standbys : Keeps(s, x)'
    BY <1>7, <2>2
  <2> QED  BY <2>1, <2>3 DEF HubInv
<1> QED  BY <1>6, <1>7, <1>8 DEF ReplicationInv

----------------------------------------------------------------------------
(* The implementation. *)

\* A receiver holds no more than the channel's capacity.
ChannelInv == \A s \in Standbys : Len(commit_rx[s]) <= Capacity
NothingLost == \A s \in Standbys : ~lagged[s]

LEMMA ChannelStays ==
    ASSUME ShapeInv, ChannelInv, [Next]_vars
    PROVE  ChannelInv'
<1>1. Capacity \in Nat /\ Capacity >= 1
  BY ReplicationAssumption
<1> USE DEF vars, primary, hub, server, standby, net
<1>2. \A s \in Standbys : Len(commit_rx[s]) \in Nat /\ Len(commit_rx[s]) <= Capacity /\ commit_rx[s] \in Seq(Nat)
  BY DEF ShapeInv, ChannelInv
<1>3. CASE commit_rx' = commit_rx
  BY <1>3 DEF ChannelInv
<1>4. ASSUME NEW s \in Standbys, commit_rx' = [commit_rx EXCEPT ![s] = <<>>]
      PROVE  ChannelInv'
  <2>1. ASSUME NEW r \in Standbys PROVE commit_rx'[r] = commit_rx[r] \/ commit_rx'[r] = <<>>
    BY <1>4 DEF ShapeInv
  <2>2. Len(<<>>) <= Capacity
    BY <1>1
  <2> QED  BY <1>2, <2>1, <2>2 DEF ChannelInv
<1>5. ASSUME NEW s \in Standbys, forward(s) PROVE ChannelInv'
  <2>1. ASSUME NEW r \in Standbys PROVE commit_rx'[r] = commit_rx[r] \/ (commit_rx'[r] = Tail(commit_rx[r]) /\ commit_rx[r] # <<>>)
    BY <1>5 DEF forward, ShapeInv
  <2>2. ASSUME NEW q \in Seq(Nat), q # <<>>, Len(q) <= Capacity PROVE Len(Tail(q)) <= Capacity
    BY <1>1, <2>2
  <2> QED  BY <1>2, <2>1, <2>2 DEF ChannelInv
<1>6. CASE on_commit_send
  <2>1. PICK v : commit_rx' = [s \in Standbys |-> IF Subscribed(s) THEN Receive(commit_rx[s], v) ELSE commit_rx[s]]
    BY <1>6 DEF on_commit_send
  <2>2. ASSUME NEW q \in Seq(Nat), Len(q) <= Capacity PROVE Len(Receive(q, v)) <= Capacity
    <3>1. CASE Len(q) < Capacity
      BY <1>1, <2>2, <3>1 DEF Receive
    <3>2. CASE Len(q) = Capacity
      <4>1. q # <<>> /\ Tail(q) \in Seq(Nat) /\ Len(Tail(q)) = Capacity - 1
        BY <1>1, <2>2, <3>2
      <4> QED  BY <1>1, <3>2, <4>1 DEF Receive
    <3> QED  BY <1>1, <2>2, <3>1, <3>2
  <2>3. ASSUME NEW s \in Standbys PROVE commit_rx'[s] = commit_rx[s] \/ commit_rx'[s] = Receive(commit_rx[s], v)
    BY <2>1
  <2> HIDE DEF Receive
  <2> QED  BY <1>2, <2>2, <2>3 DEF ChannelInv
<1>7. CASE \E keys \in Batches : commit_batch(keys)
  BY <1>3, <1>7 DEF commit_batch
<1>8. CASE on_commit_alone \/ on_commit_return
  BY <1>3, <1>8 DEF on_commit_alone, on_commit_return
<1>9. ASSUME NEW s \in Standbys, ServerStep(s) PROVE ChannelInv'
  <2>1. CASE accept(s)
    BY <1>3, <2>1 DEF accept
  <2>2. CASE subscribe(s)
    BY <1>4, <2>2 DEF subscribe
  <2>3. CASE read_length(s)
    BY <1>3, <2>3 DEF read_length
  <2>4. CASE read_message(s)
    BY <1>3, <2>4 DEF read_message
  <2>5. CASE scan_all_maps(s)
    BY <1>3, <2>5 DEF scan_all_maps
  <2>6. CASE snapshot_response(s)
    BY <1>3, <2>6 DEF snapshot_response
  <2> QED  BY <1>5, <1>9, <2>1, <2>2, <2>3, <2>4, <2>5, <2>6 DEF ServerStep
<1>10. ASSUME NEW s \in Standbys, ClientStep(s) \/ connect(s) \/ disconnect(s) PROVE ChannelInv'
  <2>1. CASE receive_snapshot(s)
    BY <1>3, <2>1 DEF receive_snapshot
  <2>2. CASE receive_commit(s)
    BY <1>3, <2>2 DEF receive_commit
  <2>3. CASE connect(s)
    BY <1>3, <2>3 DEF connect
  <2>4. CASE Dropped(s)
    BY <1>4, <2>4 DEF Dropped
  <2> QED  BY <1>10, <2>1, <2>2, <2>3, <2>4 DEF ClientStep, unexpected_message, disconnect
<1>11. CASE UNCHANGED vars
  BY <1>3, <1>11
<1> QED  BY <1>6, <1>7, <1>8, <1>9, <1>10, <1>11 DEF Next, Listener

\* As long as nothing is lost, every step preserves the invariant.
LEMMA StepStays ==
    ASSUME ReplicationInv, ChannelInv, NothingLost', [Next]_vars
    PROVE  ReplicationInv'
<1>1. ASSUME NEW keys \in Batches, commit_batch(keys) PROVE ReplicationInv'
  <2>1. keys \in Seq(SUBSET Keys)
    BY DEF Batches
  <2> QED  BY <1>1, <2>1, BatchStays
<1>2. CASE on_commit_alone
  <2>1. /\ UNCHANGED <<version, writes, data, applied, standby_connected, handler, commit_rx, scan, client, down, up, replica>>
        /\ batch # <<>> /\ batch' = Tail(batch) /\ ~standby_connected
    BY <1>2 DEF on_commit_alone, hub, server, standby, net
  <2>2. ASSUME NEW s \in Standbys PROVE handler[s] # "open"
    BY <2>1 DEF ReplicationInv, StandbyInv, Connection
  <2>3. commit_rx' \in [Standbys -> Seq(Nat)]
    BY <2>1 DEF ReplicationInv, ShapeInv
  <2> QED  BY <2>1, <2>2, <2>3, ListenerStays
<1>3. CASE on_commit_send
  <2>1. /\ UNCHANGED <<version, writes, data, applied, standby_connected, handler, scan, client, down, up, replica>>
        /\ batch # <<>> /\ batch' = Tail(batch)
        /\ commit_rx' = [s \in Standbys |-> IF Subscribed(s) THEN Receive(commit_rx[s], Head(batch)) ELSE commit_rx[s]]
        /\ lagged' = [s \in Standbys |-> lagged[s] \/ (Subscribed(s) /\ Len(commit_rx[s]) = Capacity)]
    BY <1>3 DEF on_commit_send, hub, standby, net
  <2>2. Head(batch) \in Nat /\ Capacity \in Nat
    BY <2>1, TailIs, ReplicationAssumption DEF ReplicationInv, ShapeInv
  <2>3. ASSUME NEW s \in Standbys, handler[s] = "open" PROVE commit_rx'[s] = Append(commit_rx[s], Head(batch))
    <3>1. Subscribed(s) /\ ~lagged'[s]
      BY <2>3 DEF Subscribed, NothingLost
    <3>2. Len(commit_rx[s]) # Capacity
      BY <2>1, <3>1
    <3>3. Len(commit_rx[s]) <= Capacity /\ Len(commit_rx[s]) \in Nat
      BY Counts DEF ChannelInv, ReplicationInv
    <3>4. Len(commit_rx[s]) < Capacity
      BY <2>2, <3>2, <3>3
    <3>5. commit_rx'[s] = Receive(commit_rx[s], Head(batch))
      BY <2>1, <3>1
    <3> QED  BY <3>4, <3>5 DEF Receive
  <2>4. commit_rx' \in [Standbys -> Seq(Nat)]
    <3>1. ASSUME NEW s \in Standbys PROVE commit_rx'[s] \in Seq(Nat)
      <4>1. commit_rx[s] \in Seq(Nat)
        BY DEF ReplicationInv, ShapeInv
      <4>2. CASE handler[s] = "open"
        <5>1. PICK q, e : q = commit_rx[s] /\ e = Head(batch) /\ q \in Seq(Nat) /\ e \in Nat /\ commit_rx'[s] = Append(q, e)
          BY <2>2, <2>3, <4>1, <4>2
        <5>2. Append(q, e) \in Seq(Nat)
          BY <5>1
        <5> QED  BY <5>1, <5>2
      <4>3. CASE handler[s] # "open"
        BY <2>1, <4>1, <4>3 DEF Subscribed
      <4> QED  BY <4>2, <4>3
    <3>2. commit_rx' = [s \in Standbys |-> commit_rx'[s]]
      BY <2>1
    <3> QED  BY <3>1, <3>2
  <2> QED  BY <2>1, <2>3, <2>4, ListenerStays
<1>4. CASE UNCHANGED <<version, writes, data, batch, hub, server, standby, net>>
  <2>1. UNCHANGED <<version, writes, data, batch, applied, standby_connected, handler, commit_rx, scan, client, down, up, replica>>
    BY <1>4 DEF hub, server, standby, net
  <2>2. Sent' = Sent /\ \A r \in Standbys : Same(r)
    BY <2>1 DEF Sent, Same
  <2>3. ShapeInv'
    BY <2>1, <2>2 DEF ReplicationInv, ShapeInv
  <2>4. ASSUME NEW s \in Standbys PROVE StandbyInv(s)' /\ \A v : Keeps(s, v) => Keeps(s, v)'
    BY <2>1, <2>2, SameStays DEF ReplicationInv
  <2>5. HubInv'
    <3>1. PICK x : x = applied /\ applied' = x
      BY <2>1
    <3>2. x = 0 \/ \E s \in Standbys : Keeps(s, x)
      BY <3>1 DEF ReplicationInv, HubInv
    <3>3. x = 0 \/ \E s \in Standbys : Keeps(s, x)'
      BY <2>4, <3>2
    <3> QED  BY <3>1, <3>3 DEF HubInv
  <2> QED  BY <2>3, <2>4, <2>5 DEF ReplicationInv
<1>5. CASE on_commit_return
  BY <1>4, <1>5 DEF on_commit_return
<1>6. CASE UNCHANGED vars
  BY <1>4, <1>6 DEF vars, primary
<1>7. ASSUME NEW s \in Standbys, ServerStep(s) PROVE ReplicationInv'
  BY <1>7, AcceptStays, ForwardStays, LengthStays, ReadStays, ScanStays, SnapshotStays DEF ServerStep
<1>8. ASSUME NEW s \in Standbys, ClientStep(s) \/ connect(s) \/ disconnect(s) PROVE ReplicationInv'
  BY <1>8, ReceiveSnapshotStays, ReceiveCommitStays, ReconnectStays DEF ClientStep
<1> QED  BY <1>1, <1>2, <1>3, <1>5, <1>6, <1>7, <1>8 DEF Next, Listener

LEMMA InitialInv ==
    ASSUME Init
    PROVE  ReplicationInv /\ ChannelInv
<1>1. Sent = 0
  <2>1. version = 0 /\ Len(batch) = 0
    BY DEF Init
  <2> QED  BY <2>1 DEF Sent
<1>2. IsScan(NoScan) /\ ~NoScan.active
  BY DEF NoScan, IsScan
<1>3. Covering(writes, data, version)
  <2>1. data \in [Keys -> Nat] /\ version = 0
    BY DEF Init
  <2> QED  BY <2>1, CoveringZero
<1>4. ShapeInv
  <2>1. version \in Nat /\ writes \in Seq(SUBSET Keys) /\ Len(writes) = version /\ data \in [Keys -> 0 .. version]
    BY DEF Init
  <2>2. batch \in Seq(Nat) /\ Sent \in Nat /\ DOMAIN batch = {} /\ applied \in Nat
    BY <1>1 DEF Init
  <2>3. /\ handler \in [Standbys -> {"none", "spawned", "open"}]
        /\ client \in [Standbys -> {"off", "connecting", "ready"}]
    BY DEF Init
  <2>4. commit_rx \in [Standbys -> Seq(Nat)] /\ down \in [Standbys -> Seq(CommitMessages \cup SnapshotMessages)]
        /\ up \in [Standbys -> Seq(Acks \cup Requests)]
    BY DEF Init
  <2>5. DOMAIN scan = Standbys /\ \A s \in Standbys : IsScan(scan[s])
    BY <1>2 DEF Init
  <2>6. replica \in [Standbys -> [Keys -> Nat]]
    BY DEF Init
  <2> QED  BY <1>3, <2>1, <2>2, <2>3, <2>4, <2>5, <2>6 DEF ShapeInv
<1>5. ASSUME NEW s \in Standbys PROVE StandbyInv(s)
  <2>1. handler[s] = "none" /\ client[s] = "off" /\ up[s] = <<>> /\ down[s] = <<>> /\ ~scan[s].active
    BY <1>2 DEF Init
  <2> QED  BY <2>1 DEF StandbyInv, Connection, Stream, Acked, Requested, Snapped
<1>6. HubInv
  BY DEF Init, HubInv
<1>7. ChannelInv
  BY ReplicationAssumption DEF Init, ChannelInv
<1> QED  BY <1>4, <1>5, <1>6, <1>7 DEF ReplicationInv

\* The version the hub takes as applied is one that a standby covers.
CoveredBounds == Covered \in applied .. version /\ applied \in Nat /\ version \in Nat

LEMMA CoveredIs ==
    ASSUME ReplicationInv
    PROVE  CoveredBounds
<1>1. ShapeInv /\ HubInv /\ applied \in Nat /\ version \in Nat
  BY DEF ReplicationInv, ShapeInv
<1> DEFINE T == {v \in 0 .. version : \E s \in Standbys : Covers(s, v)}
<1>2. \A s \in Standbys, v \in Nat : Covering(writes, replica[s], v) => Covers(s, v)
  <2>1. ASSUME NEW s \in Standbys, NEW v \in Nat, Covering(writes, replica[s], v), NEW k \in Keys
        PROVE  replica[s][k] >= LastWrite(k, v)
    <3>1. Newest(writes, k, v) <= replica[s][k] /\ LastWrite(k, v) = Newest(writes, k, v)
      BY <2>1 DEF Covering, LastWrite, Newest
    <3>2. Newest(writes, k, v) \in Nat /\ replica[s][k] \in Nat
      BY <1>1, NewestIs DEF ShapeInv
    <3> QED  BY <3>1, <3>2
  <2> QED  BY <2>1 DEF Covers
<1>3. applied \in T
  <2>1. CASE applied = 0
    <3>1. PICK s \in Standbys : TRUE
      BY ReplicationAssumption
    <3>2. Covering(writes, replica[s], 0)
      BY <1>1, CoveringZero DEF ShapeInv
    <3> QED  BY <1>1, <1>2, <2>1, <3>2
  <2>2. CASE applied # 0
    <3>1. PICK s \in Standbys : Keeps(s, applied)
      BY <1>1, <2>2 DEF HubInv
    <3>2. applied \in 0 .. Sent /\ Covering(writes, replica[s], applied) /\ Sent \in Nat /\ Sent <= version
      BY <1>1, <3>1, Counts DEF Keeps
    <3>3. applied \in 0 .. version
      BY <1>1, <3>2
    <3> QED  BY <1>1, <1>2, <3>2, <3>3
  <2> QED  BY <2>1, <2>2
<1>4. T \in SUBSET (0 .. version) /\ T # {}
  BY <1>3
<1> HIDE DEF T
<1>5. Max(T) \in T /\ \A y \in T : y <= Max(T)
  BY <1>1, <1>4, Greatest
<1>6. Covered = Max(T)
  BY DEF Covered, T
<1>7. Max(T) \in applied .. version
  <2>1. PICK x, y, z : x = applied /\ y = version /\ z = Max(T) /\ x \in Nat /\ y \in Nat
    BY <1>1
  <2>2. z \in 0 .. y /\ x <= z
    BY <1>3, <1>4, <1>5, <2>1
  <2>3. z \in x .. y
    BY <2>1, <2>2
  <2> QED  BY <2>1, <2>3
<1> QED  BY <1>1, <1>6, <1>7 DEF CoveredBounds

\* What the steps do to the version and to what is taken as applied.
LEMMA StepShows ==
    ASSUME [Next]_vars, ShapeInv
    PROVE  \/ \E n \in 1 .. 2 : version' = version + n /\ applied' = applied
           \/ version' = version /\ applied' = applied
           \/ UNCHANGED <<version, writes, replica>> /\ applied' >= applied
<1> USE DEF vars, primary, hub, server, standby, net
<1>1. ASSUME NEW keys \in Batches, commit_batch(keys)
      PROVE  \E n \in 1 .. 2 : version' = version + n /\ applied' = applied
  <2>1. Len(keys) \in 1 .. 2
    BY DEF Batches
  <2> QED  BY <1>1, <2>1 DEF commit_batch
<1>2. CASE Listener
  BY <1>2 DEF Listener, on_commit_alone, on_commit_send, on_commit_return
<1>3. ASSUME NEW s \in Standbys, read_message(s)
      PROVE  UNCHANGED <<version, writes, replica>> /\ (applied' = applied \/ applied' >= applied)
  <2>1. UNCHANGED <<version, writes, replica>>
    BY <1>3 DEF read_message
  <2>2. applied' = applied \/ (applied' = Max({applied, Head(up[s]).version}) /\ Head(up[s]).type = "Applied" /\ up[s] # <<>>)
    BY <1>3 DEF read_message, notify_applied, Reading
  <2>3. ASSUME Head(up[s]).type = "Applied", up[s] # <<>> PROVE Head(up[s]).version \in Nat
    <3>1. Head(up[s]) \in Acks \cup Requests
      BY <2>3, TailIs DEF ShapeInv
    <3> QED  BY <2>3, <3>1 DEF Acks, Requests
  <2>4. ASSUME NEW x \in Nat, NEW y \in Nat PROVE Max({x, y}) >= x
    <3>1. \E z \in {x, y} : \A u \in {x, y} : z >= u
      OBVIOUS
    <3> QED  BY <3>1 DEF Max
  <2> QED  BY <2>1, <2>2, <2>3, <2>4 DEF ShapeInv
<1>4. ASSUME NEW s \in Standbys, ServerStep(s), ~read_message(s)
      PROVE  version' = version /\ applied' = applied
  BY <1>4 DEF ServerStep, accept, subscribe, forward, read_length, scan_all_maps, snapshot_response
<1>5. ASSUME NEW s \in Standbys, ClientStep(s) \/ connect(s) \/ disconnect(s)
      PROVE  version' = version /\ applied' = applied
  BY <1>5 DEF ClientStep, receive_snapshot, unexpected_message, receive_commit, connect, disconnect
<1>6. CASE UNCHANGED vars
  BY <1>6
<1> QED  BY <1>1, <1>2, <1>3, <1>4, <1>5, <1>6 DEF Next

\* Every step of the replication is a step of remote_apply.
LEMMA StepImplements ==
    ASSUME CoveredBounds, CoveredBounds', ShapeInv, [Next]_vars
    PROVE  [RA!Next]_<<version, Covered, applied>>
<1>1. ASSUME NEW n \in 1 .. 2, version' = version + n, applied' = applied PROVE RA!Next
  BY <1>1 DEF RA!Next, RA!Commit, CoveredBounds
<1>2. ASSUME version' = version, applied' = applied PROVE RA!Next
  BY <1>2 DEF RA!Next, RA!Apply, CoveredBounds
<1>3. ASSUME UNCHANGED <<version, writes, replica>>, applied' >= applied PROVE RA!Next
  <2>1. Covered' = Covered
    BY <1>3 DEF Covered, Covers, LastWrite
  <2>2. applied' \in applied .. Covered
    <3>1. PICK x, y, z, u : x = applied /\ y = applied' /\ z = Covered /\ u = version
      OBVIOUS
    <3>2. z \in y .. u /\ z \in x .. u /\ x \in Nat /\ y \in Nat /\ u \in Nat /\ y >= x
      BY <1>3, <2>1, <3>1 DEF CoveredBounds
    <3>3. y \in x .. z
      BY <3>2
    <3> QED  BY <3>1, <3>3
  <2> QED  BY <1>3, <2>1, <2>2 DEF RA!Next, RA!Acknowledge
<1> QED  BY <1>1, <1>2, <1>3, StepShows

\* Through commits, snapshots taken while they go on, connections that break and
\* are made again, and acknowledgements read late or never, the hub takes no
\* version as applied that no standby covers, as long as no receiver of the
\* broadcast channel (handle_standby_connection) loses a record.
THEOREM HubImplementsRemoteApply ==
    Spec /\ []NothingLost => ImplementsRemoteApply
<1>1. Init => ReplicationInv /\ ChannelInv
  BY InitialInv
<1>2. ReplicationInv /\ ChannelInv /\ NothingLost' /\ [Next]_vars => ReplicationInv'
  BY StepStays
<1>3. ReplicationInv /\ ChannelInv /\ [Next]_vars => ChannelInv'
  BY ChannelStays DEF ReplicationInv
<1>4. ReplicationInv => CoveredBounds /\ ShapeInv
  BY CoveredIs DEF ReplicationInv
<1>5. Init /\ CoveredBounds => RA!Init
  <2>1. ASSUME Init, CoveredBounds PROVE version = 0 /\ applied = 0 /\ Covered = 0
    BY <2>1 DEF Init, CoveredBounds
  <2> QED  BY <2>1 DEF RA!Init
<1>6. CoveredBounds /\ CoveredBounds' /\ ShapeInv /\ [Next]_vars => [RA!Next]_<<version, Covered, applied>>
  BY StepImplements
<1> QED  BY <1>1, <1>2, <1>3, <1>4, <1>5, <1>6, PTL DEF Spec, ImplementsRemoteApply, RA!Spec

\* A channel with room for every commit there is loses nothing.
RoomInv == NothingLost /\ version <= MaxVersion

LEMMA RoomStays ==
    ASSUME MaxVersion <= Capacity, ReplicationInv, RoomInv, [Next]_vars
    PROVE  RoomInv'
<1>1. ShapeInv /\ version \in Nat /\ Capacity \in Nat /\ MaxVersion \in Nat /\ version <= MaxVersion
  BY ReplicationAssumption DEF ReplicationInv, ShapeInv, RoomInv
<1> USE DEF vars, primary, hub, server, standby, net
<1>2. CASE lagged' = lagged /\ version' = version
  BY <1>2 DEF RoomInv, NothingLost
<1>3. ASSUME NEW s \in Standbys, lagged' = [lagged EXCEPT ![s] = FALSE], version' = version PROVE RoomInv'
  <2>1. ASSUME NEW r \in Standbys PROVE ~lagged'[r]
    BY <1>3 DEF RoomInv, NothingLost
  <2> QED  BY <1>3, <2>1 DEF RoomInv, NothingLost
<1>4. CASE on_commit_send
  <2>1. /\ batch # <<>> /\ version' = version
        /\ lagged' = [s \in Standbys |-> lagged[s] \/ (Subscribed(s) /\ Len(commit_rx[s]) = Capacity)]
    BY <1>4 DEF on_commit_send
  <2>2. ASSUME NEW s \in Standbys, Subscribed(s) PROVE Len(commit_rx[s]) # Capacity
    <3>1. 0 <= Forwarded(s)
      BY <2>2 DEF ReplicationInv, StandbyInv, Stream, Subscribed
    <3>2. PICK x, y, z : x = Len(commit_rx[s]) /\ y = Sent /\ z = version
      OBVIOUS
    <3>3. x \in Nat /\ y \in Nat /\ 0 <= y - x
      BY <1>1, <3>1, <3>2, Counts
    <3>4. y < z
      <4>1. batch \in Seq(Nat)
        BY <1>1 DEF ShapeInv
      <4>2. Len(batch) \in Nat /\ Len(batch) # 0
        BY <2>1, <4>1
      <4> QED  BY <1>1, <3>2, <4>2 DEF Sent
    <3>5. z \in Nat /\ z <= MaxVersion
      BY <1>1, <3>2
    <3>6. x # Capacity
      BY <1>1, <3>3, <3>4, <3>5
    <3> QED  BY <3>2, <3>6
  <2> QED  BY <2>1, <2>2 DEF RoomInv, NothingLost
<1>5. CASE \E keys \in Batches : commit_batch(keys)
  BY <1>5 DEF commit_batch, RoomInv, NothingLost
<1>6. CASE on_commit_alone \/ on_commit_return
  BY <1>2, <1>6 DEF on_commit_alone, on_commit_return
<1>7. ASSUME NEW s \in Standbys, ServerStep(s) PROVE RoomInv'
  BY <1>2, <1>7 DEF ServerStep, accept, subscribe, forward, read_length, read_message, scan_all_maps, snapshot_response
<1>8. ASSUME NEW s \in Standbys, ClientStep(s) \/ connect(s) \/ disconnect(s) PROVE RoomInv'
  <2>1. CASE receive_snapshot(s) \/ receive_commit(s) \/ connect(s)
    BY <1>2, <2>1 DEF receive_snapshot, receive_commit, connect
  <2>2. CASE unexpected_message(s) \/ disconnect(s)
    BY <1>3, <2>2 DEF unexpected_message, disconnect, Dropped
  <2> QED  BY <1>8, <2>1, <2>2 DEF ClientStep
<1> QED  BY <1>2, <1>4, <1>5, <1>6, <1>7, <1>8 DEF Next, Listener

\* With such a channel the hub implements remote_apply in every behaviour.
THEOREM AmpleChannelImplementsRemoteApply ==
    ASSUME MaxVersion <= Capacity
    PROVE  Spec => ImplementsRemoteApply
<1>1. Init => ReplicationInv /\ ChannelInv /\ RoomInv
  <2>1. Init => RoomInv
    BY ReplicationAssumption DEF Init, RoomInv, NothingLost
  <2> QED  BY <2>1, InitialInv
<1>2. ReplicationInv /\ RoomInv /\ [Next]_vars => RoomInv'
  BY RoomStays
<1>3. ReplicationInv /\ ChannelInv /\ RoomInv' /\ [Next]_vars => ReplicationInv' /\ ChannelInv'
  BY StepStays, ChannelStays DEF ReplicationInv, RoomInv
<1>4. RoomInv => NothingLost
  BY DEF RoomInv
<1>5. Spec => []NothingLost
  BY <1>1, <1>2, <1>3, <1>4, PTL DEF Spec
<1> QED  BY <1>5, HubImplementsRemoteApply

=============================================================================
