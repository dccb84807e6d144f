--------------------------- MODULE MVStoreProofs ---------------------------
(***************************************************************************)
(* What MVStore::open makes of the files that a crash leaves, for any      *)
(* keys and bounds: they can be opened, recovery returns what was          *)
(* acknowledged, and the journal misses nothing.                           *)
(***************************************************************************)
EXTENDS MVStore, SequenceTheorems, WellFoundedInduction, TLAPS

----------------------------------------------------------------------------
(* The invariant. *)

Entries == [val : Nat, ver : Nat, unc : [tx : Nat, run : Nat]]
Maps == [Keys -> Entries]
Chunks == [full : BOOLEAN, data : Maps, previous : Nat]
Headers == [version : Nat, chunk : Nat]
Records == [ver : Nat, changes : Maps]
FileRecords == [chunks : Seq(Chunks), primary : Headers, shadow : Headers]

\* A chunk builds on an earlier one; a readable header slot points to a chunk.
Linked(cs) == \A i \in DOMAIN cs : cs[i].previous < i
Points(h, cs) == h # Torn => h.chunk <= Len(cs)
Files == {f \in FileRecords : Linked(f.chunks) /\ Points(f.primary, f.chunks) /\ Points(f.shadow, f.chunks)}

Writing == {"chunk", "shadow", "primary"}
Replacing == {"move", "place", "drop", "reopen"}

CommitRecords == [tx : Nat, at : {"none", "appended"}, id : Nat, ver : Nat, changes : Maps]
JobRecords == [kind : {"none", "checkpoint", "compact", "reclaim"},
               at : {"none", "tmp", "clear"} \cup Writing \cup Replacing,
               version : Nat, data : Maps, drained : Maps]
Disks == [main : Files, bak : Files, tmp : Files, wal : Seq(Records)]
Counters == [commits : Nat, jobs : Nat, torn : Nat]

ShapeInv ==
    /\ mem \in Maps /\ journal \in Maps /\ acked \in [Keys -> Nat]
    /\ version \in Nat /\ next_commit_version \in Nat /\ version <= next_commit_version
    /\ header \in Headers /\ run \in Nat
    /\ active \subseteq Nat \ {0} /\ next_tx_id \in Nat \ {0}
    /\ commit \in CommitRecords /\ job \in JobRecords /\ disk \in Disks /\ started \in Counters

\* A commit and a job exclude each other; both belong to a running process.
PhaseInv ==
    /\ commit.at = "none" => commit = NoCommit
    /\ job.at = "none" => job = NoJob
    /\ commit.at = "appended" => up /\ job.at = "none" /\ version <= commit.ver /\ commit.ver <= next_commit_version
    /\ job.at # "none" => up
    /\ job.at \in Writing => job.kind = "checkpoint" /\ job.version >= 1
    /\ job.at \in {"tmp"} \cup Replacing => job.kind \in {"compact", "reclaim"}
    /\ job.at \in {"shadow", "primary"} => handle
    /\ job.at \in Replacing => ~ handle

\* Which of the files are there.
PlaceInv ==
    /\ up /\ handle => disk.main # NoFile
    /\ handle => header.chunk <= Len(disk.main.chunks)
    /\ job.at \in {"shadow", "primary"} => 1 <= Len(disk.main.chunks)
    /\ job.at = "place" => disk.bak # NoFile /\ disk.main = NoFile
    /\ job.at \in {"move", "place"} => disk.tmp # NoFile /\ Len(disk.tmp.chunks) = 1
    /\ job.at \in {"drop", "reopen"} => disk.main # NoFile /\ Len(disk.main.chunks) = 1
    /\ \/ unreplaced \/ disk.main # NoFile
       \/ disk.bak # NoFile /\ (~ up \/ job.at \in {"move", "place"})

BaseInv == ShapeInv /\ PhaseInv /\ PlaceInv

Readable(f) == f.primary # Torn \/ f.shadow # Torn

\* A file has a readable header slot, the primary one as long as none was torn.
FileInv(f, torn) == f = NoFile \/ (Readable(f) /\ (torn = 0 => f.primary # Torn))

OpenInv ==
    /\ FileInv(disk.main, started.torn) /\ FileInv(disk.bak, started.torn) /\ FileInv(disk.tmp, started.torn)
    /\ job.at = "primary" => disk.main.shadow # Torn

\* The slot leads to a map that has, but for what the changes wc have anyway, the
\* values a.
Holds(f, h, wc, a) ==
    h # Torn =>
        /\ h.chunk <= Len(f.chunks)
        /\ \A k \in Keys :
              /\ wc[k] = NoChange => ChainData(f, h.chunk)[k].val = a[k]
              /\ ChainData(f, h.chunk)[k].ver <= h.version
GoodFile(f, wc, a) == Holds(f, f.primary, wc, a) /\ Holds(f, f.shadow, wc, a)

\* The newest changes of a log are of the values a, and not newer than its records.
GoodLog(wal, a) ==
    \A k \in Keys : WalChanges(wal)[k] # NoChange =>
        WalChanges(wal)[k].val = a[k] /\ \E i \in DOMAIN wal : WalChanges(wal)[k].ver <= wal[i].ver

\* Changes, and a map, of the values a and up to version v.
Delta(m, a, v) == \A k \in Keys : m[k] # NoChange => m[k].val = a[k] /\ m[k].ver <= v
Full(m, a, v) == \A k \in Keys : m[k].val = a[k] /\ m[k].ver <= v

\* The log without the record that is not yet known to be durable.
Settled == IF commit.at = "appended" THEN SubSeq(disk.wal, 1, Len(disk.wal) - 1) ELSE disk.wal

DiskInv == GoodFile(MainFile(disk), WalChanges(Settled), acked) /\ GoodLog(Settled, acked)

CommitInv ==
    commit.at = "appended" =>
        /\ disk.wal = Append(Settled, [ver |-> commit.ver, changes |-> commit.changes])
        /\ \A k \in Keys : commit.changes[k] # NoChange =>
              commit.changes[k].val = commit.id /\ commit.changes[k].ver = commit.ver

MemInv ==
    up =>
        /\ Full(mem, acked, version) /\ Delta(journal, acked, version)
        /\ ~ journaling => journal = Unchanged
        /\ has_checkpoint => journaling
        /\ handle \/ job.at \in Replacing

\* The changes since the chunk of the header.
Pending == IF job.at \in Writing THEN job.drained ELSE journal

\* The map m lacks, of the values a up to version v, only the changes c.
Behind(m, c, a, v) == \A k \in Keys : (c[k] = NoChange => m[k].val = a[k]) /\ m[k].ver <= v

HeaderInv ==
    up /\ has_checkpoint /\ job.at \notin Replacing =>
        Behind(ChainData(disk.main, header.chunk), Pending, acked, version)

JobInv ==
    /\ job.at \in Writing => Delta(job.drained, acked, version) /\ version < job.version /\ journaling
    /\ job.at \in Writing /\ has_checkpoint => job.data = job.drained
    /\ job.at \in Writing /\ ~ has_checkpoint => Full(job.data, acked, version)
    /\ job.at \in {"shadow", "primary"} => Holds(disk.main, NewHeader, Unchanged, acked)
    /\ job.at = "primary" => disk.main.shadow = NewHeader
    /\ job.at \in {"tmp"} \cup Replacing => has_checkpoint /\ version <= job.version
    /\ job.at = "tmp" => Full(job.data, acked, job.version)
    /\ job.at \in {"move", "place"} =>
          GoodFile(disk.tmp, Unchanged, acked) /\ disk.tmp.primary = [version |-> job.version, chunk |-> 1]
    /\ job.at \in {"drop", "reopen"} =>
          GoodFile(disk.main, Unchanged, acked) /\ disk.main.primary = [version |-> job.version, chunk |-> 1]
    /\ job.at = "clear" =>
          has_checkpoint /\ GoodFile(disk.main, Unchanged, acked) /\ disk.main.primary = header /\ header # Torn

SoundInv == DiskInv /\ CommitInv /\ MemInv /\ HeaderInv /\ JobInv
DurableInv == unreplaced \/ SoundInv

----------------------------------------------------------------------------
(* Recursive definitions: that the functions exist, and what they return.  *)

\* Every set of natural numbers has a least member.
LEMMA LeastNumber ==
    ASSUME NEW T \in SUBSET Nat, T # {}
    PROVE  \E x \in T : \A y \in T : x <= y
<1> DEFINE R == {ss \in Nat \X Nat : ss[1] < ss[2]}
<1>1. IsWellFoundedOn(R, Nat)
  BY NatLessThanWellFounded DEF OpToRel
<1>2. PICK x \in T : \A y \in T : ~ (<<y, x>> \in R)
  <2> HIDE DEF R
  <2> QED  BY <1>1, WFMin
<1>3. ASSUME NEW y \in T PROVE x <= y
  <2>1. ~ (<<y, x>> \in R) /\ x \in Nat /\ y \in Nat
    BY <1>2
  <2>2. <<y, x>>[1] = y /\ <<y, x>>[2] = x /\ <<y, x>> \in Nat \X Nat
    BY <2>1
  <2>3. ~ (y < x)
    BY <2>1, <2>2
  <2> QED  BY <2>1, <2>3
<1> QED  BY <1>3

\* Induction: a set that contains 0 and the successors of its members up to n
\* contains n.
LEMMA UpTo ==
    ASSUME NEW n \in Nat, NEW T, 0 \in T, \A m \in 0 .. n : m \in T /\ m < n => m + 1 \in T
    PROVE  \A m \in 0 .. n : m \in T
<1> SUFFICES ASSUME {m \in 0 .. n : m \notin T} # {} PROVE FALSE
  OBVIOUS
<1>1. PICK x \in {m \in 0 .. n : m \notin T} : \A y \in {m \in 0 .. n : m \notin T} : x <= y
  <2>1. {m \in 0 .. n : m \notin T} \in SUBSET Nat
    OBVIOUS
  <2> QED  BY <2>1, LeastNumber
<1>2. x # 0 /\ x - 1 \in 0 .. n /\ x - 1 < n /\ x - 1 + 1 = x /\ ~ (x <= x - 1)
  BY <1>1
<1>3. x - 1 \in T
  BY <1>1, <1>2
<1> QED  BY <1>1, <1>2, <1>3

\* A member is added to a sequence.
LEMMA AppendIs ==
    ASSUME NEW S, NEW q \in Seq(S), NEW e \in S
    PROVE  /\ Append(q, e) \in Seq(S) /\ Len(Append(q, e)) = Len(q) + 1 /\ Len(q) \in Nat
           /\ DOMAIN Append(q, e) = 1 .. Len(q) + 1 /\ DOMAIN q = 1 .. Len(q)
           /\ \A i \in 1 .. Len(q) : Append(q, e)[i] = q[i]
           /\ Append(q, e)[Len(q) + 1] = e
           /\ SubSeq(Append(q, e), 1, Len(Append(q, e)) - 1) = q
  OBVIOUS

\* ChainData.
Link(cs, g, i) ==
    IF i = 0 THEN [k \in Keys |-> Absent]
    ELSE IF cs[i].full THEN cs[i].data
    ELSE Overlay(cs[i].data, g[cs[i].previous])
ChainUpTo(cs, g, n) == g = [i \in 0 .. n |-> Link(cs, g, i)]
Chain(cs) == CHOOSE g : ChainUpTo(cs, g, Len(cs))

LEMMA ChainIs ==
    ASSUME NEW f, NEW c
    PROVE  ChainData(f, c) = Chain(f.chunks)[c]
  BY Zenon DEF ChainData, Chain, ChainUpTo, Link

LEMMA ChainExists ==
    ASSUME NEW cs \in Seq(Chunks), Linked(cs)
    PROVE  ChainUpTo(cs, Chain(cs), Len(cs))
<1> DEFINE T == {m \in 0 .. Len(cs) : \E g : ChainUpTo(cs, g, m)}
<1>1. 0 \in T
  <2>1. ChainUpTo(cs, [i \in 0 .. 0 |-> [k \in Keys |-> Absent]], 0)
    BY DEF ChainUpTo, Link
  <2>2. 0 \in 0 .. Len(cs)
    OBVIOUS
  <2> QED  BY <2>1, <2>2
<1>2. ASSUME NEW m \in 0 .. Len(cs), m \in T, m < Len(cs) PROVE m + 1 \in T
  <2>1. PICK g : ChainUpTo(cs, g, m)
    BY <1>2
  <2> DEFINE h == [i \in 0 .. m + 1 |-> Link(cs, g, i)]
  <2>2. ASSUME NEW i \in 0 .. m + 1 PROVE Link(cs, h, i) = Link(cs, g, i)
    <3>1. CASE i = 0
      BY <3>1 DEF Link
    <3>2. CASE i # 0
      <4>1. i \in DOMAIN cs /\ cs[i].previous \in 0 .. m
        <5>1. i \in DOMAIN cs
          BY <1>2, <3>2
        <5>2. cs[i] \in Chunks /\ cs[i].previous < i
          BY <5>1 DEF Linked
        <5>3. cs[i].previous \in Nat
          BY <5>2 DEF Chunks
        <5> QED  BY <1>2, <5>1, <5>2, <5>3
      <4>2. PICK p : p = cs[i].previous /\ p \in 0 .. m
        BY <4>1
      <4>3. h[p] = Link(cs, g, p) /\ g[p] = Link(cs, g, p)
        BY <2>1, <4>2 DEF ChainUpTo
      <4> HIDE DEF h
      <4> QED  BY <3>2, <4>2, <4>3 DEF Link
    <3> QED  BY <3>1, <3>2
  <2>3. ChainUpTo(cs, h, m + 1)
    <3>1. h = [i \in 0 .. m + 1 |-> Link(cs, h, i)]
      BY <2>2
    <3> QED  BY <3>1 DEF ChainUpTo
  <2>4. m + 1 \in 0 .. Len(cs)
    BY <1>2
  <2> HIDE DEF h
  <2> QED  BY <2>3, <2>4
<1>3. Len(cs) \in 0 .. Len(cs) /\ Len(cs) \in Nat
  OBVIOUS
<1>4. \E g : ChainUpTo(cs, g, Len(cs))
  <2>1. \A m \in 0 .. Len(cs) : m \in T
    <3> HIDE DEF T
    <3> QED  BY <1>1, <1>2, <1>3, UpTo
  <2> QED  BY <1>3, <2>1
<1> QED  BY <1>4 DEF Chain

\* What the chain of a chunk returns.
LEMMA ChainValue ==
    ASSUME NEW f \in Files, NEW c \in 0 .. Len(f.chunks)
    PROVE  /\ c = 0 => ChainData(f, c) = [k \in Keys |-> Absent]
           /\ c # 0 /\ f.chunks[c].full => ChainData(f, c) = f.chunks[c].data
           /\ c # 0 /\ ~ f.chunks[c].full =>
                 ChainData(f, c) = Overlay(f.chunks[c].data, ChainData(f, f.chunks[c].previous))
<1>1. f.chunks \in Seq(Chunks) /\ Linked(f.chunks)
  BY DEF Files, FileRecords
<1>2. PICK cs, g : cs = f.chunks /\ g = Chain(cs)
  OBVIOUS
<1>3. ChainUpTo(cs, g, Len(cs))
  BY <1>1, <1>2, ChainExists
<1>4. g[c] = Link(cs, g, c)
  BY <1>2, <1>3 DEF ChainUpTo
<1>5. \A b : ChainData(f, b) = g[b]
  BY <1>2, ChainIs
<1> QED  BY <1>2, <1>4, <1>5 DEF Link

\* A chunk that is appended changes nothing about the earlier ones.
LEMMA ChainGrows ==
    ASSUME NEW f \in Files, NEW h \in Files, NEW x, h.chunks = Append(f.chunks, x),
           NEW c \in 0 .. Len(f.chunks)
    PROVE  ChainData(h, c) = ChainData(f, c)
<1>1. PICK n : n = Len(f.chunks) /\ n \in Nat
  BY DEF Files, FileRecords
<1>2. Len(h.chunks) = n + 1 /\ \A i \in 1 .. n : h.chunks[i] = f.chunks[i]
  BY <1>1 DEF Files, FileRecords
<1> SUFFICES ASSUME {i \in 0 .. n : ChainData(h, i) # ChainData(f, i)} # {} PROVE FALSE
  BY <1>1
<1>3. PICK i \in {j \in 0 .. n : ChainData(h, j) # ChainData(f, j)} :
         \A y \in {j \in 0 .. n : ChainData(h, j) # ChainData(f, j)} : i <= y
  <2>1. {j \in 0 .. n : ChainData(h, j) # ChainData(f, j)} \in SUBSET Nat
    BY <1>1
  <2> QED  BY <2>1, LeastNumber
<1>4. i \in 0 .. n /\ i \in 0 .. Len(f.chunks) /\ i \in 0 .. Len(h.chunks)
  BY <1>1, <1>2, <1>3
<1>5. CASE i = 0
  BY <1>3, <1>4, <1>5, ChainValue
<1>6. CASE i # 0
  <2>1. i \in 1 .. n /\ h.chunks[i] = f.chunks[i]
    BY <1>1, <1>2, <1>4, <1>6
  <2>2. f.chunks[i] \in Chunks /\ f.chunks[i].previous < i
    BY <1>1, <2>1 DEF Files, FileRecords, Linked
  <2>3. PICK p : p = f.chunks[i].previous /\ p \in Nat /\ p < i
    BY <2>2 DEF Chunks
  <2>4. ChainData(h, p) = ChainData(f, p)
    <3>1. p \in 0 .. n /\ ~ (i <= p)
      BY <1>1, <1>4, <2>3
    <3> QED  BY <1>3, <3>1
  <2>5. ChainData(h, i) = ChainData(f, i)
    BY <1>4, <1>6, <2>1, <2>3, <2>4, ChainValue
  <2> QED  BY <1>3, <2>5
<1> QED  BY <1>5, <1>6

\* WalChanges.
Replay(wal, g, i) == IF i = 0 THEN Unchanged ELSE Overlay(wal[i].changes, g[i - 1])
ReplayUpTo(wal, g, n) == g = [i \in 0 .. n |-> Replay(wal, g, i)]
Replayed(wal) == CHOOSE g : ReplayUpTo(wal, g, Len(wal))

LEMMA ReplayIs ==
    ASSUME NEW wal
    PROVE  WalChanges(wal) = Replayed(wal)[Len(wal)]
  BY Zenon DEF WalChanges, Replayed, ReplayUpTo, Replay

LEMMA ReplayExists ==
    ASSUME NEW wal \in Seq(Records)
    PROVE  ReplayUpTo(wal, Replayed(wal), Len(wal))
<1> DEFINE T == {m \in 0 .. Len(wal) : \E g : ReplayUpTo(wal, g, m)}
<1>1. 0 \in T
  <2>1. ReplayUpTo(wal, [i \in 0 .. 0 |-> Unchanged], 0)
    BY DEF ReplayUpTo, Replay
  <2>2. 0 \in 0 .. Len(wal)
    OBVIOUS
  <2> QED  BY <2>1, <2>2
<1>2. ASSUME NEW m \in 0 .. Len(wal), m \in T, m < Len(wal) PROVE m + 1 \in T
  <2>1. PICK g : ReplayUpTo(wal, g, m)
    BY <1>2
  <2> DEFINE h == [i \in 0 .. m + 1 |-> Replay(wal, g, i)]
  <2>2. ASSUME NEW i \in 0 .. m + 1 PROVE Replay(wal, h, i) = Replay(wal, g, i)
    <3>1. CASE i = 0
      BY <3>1 DEF Replay
    <3>2. CASE i # 0
      <4>1. PICK p : p = i - 1 /\ p \in 0 .. m
        BY <1>2, <3>2
      <4>2. h[p] = Replay(wal, g, p) /\ g[p] = Replay(wal, g, p)
        BY <1>2, <2>1, <4>1 DEF ReplayUpTo
      <4> HIDE DEF h
      <4> QED  BY <3>2, <4>1, <4>2 DEF Replay
    <3> QED  BY <3>1, <3>2
  <2>3. ReplayUpTo(wal, h, m + 1)
    <3>1. h = [i \in 0 .. m + 1 |-> Replay(wal, h, i)]
      BY <2>2
    <3> QED  BY <3>1 DEF ReplayUpTo
  <2>4. m + 1 \in 0 .. Len(wal)
    BY <1>2
  <2> HIDE DEF h
  <2> QED  BY <2>3, <2>4
<1>3. Len(wal) \in 0 .. Len(wal) /\ Len(wal) \in Nat
  OBVIOUS
<1>4. \E g : ReplayUpTo(wal, g, Len(wal))
  <2>1. \A m \in 0 .. Len(wal) : m \in T
    <3> HIDE DEF T
    <3> QED  BY <1>1, <1>2, <1>3, UpTo
  <2> QED  BY <1>3, <2>1
<1> QED  BY <1>4 DEF Replayed

\* The changes of an empty log, and of one with a record more.
LEMMA NothingLogged == WalChanges(<<>>) = Unchanged
<1>1. <<>> \in Seq(Records) /\ Len(<<>>) = 0
  OBVIOUS
<1>2. PICK g : g = Replayed(<<>>)
  OBVIOUS
<1>3. ReplayUpTo(<<>>, g, 0)
  BY <1>1, <1>2, ReplayExists
<1>4. g[0] = Unchanged
  BY <1>3 DEF ReplayUpTo, Replay
<1> QED  BY <1>1, <1>2, <1>4, ReplayIs

LEMMA OneMoreLogged ==
    ASSUME NEW wal \in Seq(Records), NEW r \in Records
    PROVE  WalChanges(Append(wal, r)) = Overlay(r.changes, WalChanges(wal))
<1>1. PICK n, w : n = Len(wal) /\ n \in Nat /\ w = Append(wal, r) /\ w \in Seq(Records) /\ Len(w) = n + 1
                  /\ w[n + 1] = r /\ \A i \in 1 .. n : w[i] = wal[i]
  <2>1. /\ Append(wal, r) \in Seq(Records) /\ Len(Append(wal, r)) = Len(wal) + 1 /\ Len(wal) \in Nat
        /\ \A i \in 1 .. Len(wal) : Append(wal, r)[i] = wal[i]
        /\ Append(wal, r)[Len(wal) + 1] = r
    BY AppendIs
  <2> QED  BY <2>1
<1>2. PICK g, h : g = Replayed(wal) /\ h = Replayed(w)
  OBVIOUS
<1>3. ReplayUpTo(wal, g, n) /\ ReplayUpTo(w, h, n + 1)
  BY <1>1, <1>2, ReplayExists
<1>4. \A i \in 0 .. n : g[i] = Replay(wal, g, i)
  BY <1>3 DEF ReplayUpTo
<1>5. \A i \in 0 .. n + 1 : h[i] = Replay(w, h, i)
  BY <1>3 DEF ReplayUpTo
<1> DEFINE T == {i \in 0 .. n : h[i] = g[i]}
<1>6. 0 \in T
  BY <1>1, <1>4, <1>5 DEF Replay
<1>7. ASSUME NEW m \in 0 .. n, m \in T, m < n PROVE m + 1 \in T
  <2>1. m + 1 \in 1 .. n /\ m + 1 \in 0 .. n /\ m + 1 \in 0 .. n + 1 /\ m + 1 # 0 /\ m + 1 - 1 = m
    BY <1>1, <1>7
  <2>2. h[m + 1] = Overlay(w[m + 1].changes, h[m]) /\ g[m + 1] = Overlay(wal[m + 1].changes, g[m])
    BY <1>4, <1>5, <2>1 DEF Replay
  <2> QED  BY <1>1, <1>7, <2>1, <2>2
<1>8. h[n] = g[n]
  <2>1. \A m \in 0 .. n : m \in T
    <3> HIDE DEF T
    <3> QED  BY <1>1, <1>6, <1>7, UpTo
  <2> QED  BY <1>1, <2>1
<1>9. h[n + 1] = Overlay(r.changes, g[n])
  <2>1. n + 1 \in 0 .. n + 1 /\ n + 1 # 0 /\ n + 1 - 1 = n
    BY <1>1
  <2> QED  BY <1>1, <1>5, <1>8, <2>1 DEF Replay
<1>10. WalChanges(w) = h[n + 1] /\ WalChanges(wal) = g[n]
  BY <1>1, <1>2, ReplayIs
<1> QED  BY <1>1, <1>9, <1>10

\* RecoveredVersion reaches the header and every record.
Raised(b, wal, g, i) == IF i = 0 THEN b ELSE MaxOf(wal[i].ver, g[i - 1])
RaisedUpTo(b, wal, g, n) == g = [i \in 0 .. n |-> Raised(b, wal, g, i)]
RaisedBy(b, wal) == CHOOSE g : RaisedUpTo(b, wal, g, Len(wal))

LEMMA RaisedIs ==
    ASSUME NEW d
    PROVE  RecoveredVersion(d) = RaisedBy(ChosenHeader(MainFile(d)).version, d.wal)[Len(d.wal)]
  BY Zenon DEF RecoveredVersion, RaisedBy, RaisedUpTo, Raised

LEMMA RaisedExists ==
    ASSUME NEW b, NEW wal \in Seq(Records)
    PROVE  RaisedUpTo(b, wal, RaisedBy(b, wal), Len(wal))
<1> DEFINE T == {m \in 0 .. Len(wal) : \E g : RaisedUpTo(b, wal, g, m)}
<1>1. 0 \in T
  <2>1. RaisedUpTo(b, wal, [i \in 0 .. 0 |-> b], 0)
    BY DEF RaisedUpTo, Raised
  <2>2. 0 \in 0 .. Len(wal)
    OBVIOUS
  <2> QED  BY <2>1, <2>2
<1>2. ASSUME NEW m \in 0 .. Len(wal), m \in T, m < Len(wal) PROVE m + 1 \in T
  <2>1. PICK g : RaisedUpTo(b, wal, g, m)
    BY <1>2
  <2> DEFINE h == [i \in 0 .. m + 1 |-> Raised(b, wal, g, i)]
  <2>2. ASSUME NEW i \in 0 .. m + 1 PROVE Raised(b, wal, h, i) = Raised(b, wal, g, i)
    <3>1. CASE i = 0
      BY <3>1 DEF Raised
    <3>2. CASE i # 0
      <4>1. PICK p : p = i - 1 /\ p \in 0 .. m
        BY <1>2, <3>2
      <4>2. h[p] = Raised(b, wal, g, p) /\ g[p] = Raised(b, wal, g, p)
        BY <1>2, <2>1, <4>1 DEF RaisedUpTo
      <4> HIDE DEF h
      <4> QED  BY <3>2, <4>1, <4>2 DEF Raised
    <3> QED  BY <3>1, <3>2
  <2>3. RaisedUpTo(b, wal, h, m + 1)
    <3>1. h = [i \in 0 .. m + 1 |-> Raised(b, wal, h, i)]
      BY <2>2
    <3> QED  BY <3>1 DEF RaisedUpTo
  <2>4. m + 1 \in 0 .. Len(wal)
    BY <1>2
  <2> HIDE DEF h
  <2> QED  BY <2>3, <2>4
<1>3. Len(wal) \in 0 .. Len(wal) /\ Len(wal) \in Nat
  OBVIOUS
<1>4. \E g : RaisedUpTo(b, wal, g, Len(wal))
  <2>1. \A m \in 0 .. Len(wal) : m \in T
    <3> HIDE DEF T
    <3> QED  BY <1>1, <1>2, <1>3, UpTo
  <2> QED  BY <1>3, <2>1
<1> QED  BY <1>4 DEF RaisedBy

LEMMA VersionReaches ==
    ASSUME NEW d, d.wal \in Seq(Records), ChosenHeader(MainFile(d)).version \in Nat
    PROVE  /\ RecoveredVersion(d) \in Nat /\ ChosenHeader(MainFile(d)).version <= RecoveredVersion(d)
           /\ \A i \in DOMAIN d.wal : d.wal[i].ver <= RecoveredVersion(d)
<1>1. PICK b, w, n : b = ChosenHeader(MainFile(d)).version /\ w = d.wal /\ n = Len(w)
                     /\ b \in Nat /\ w \in Seq(Records) /\ n \in Nat /\ DOMAIN w = 1 .. n
  OBVIOUS
<1>2. PICK g : g = RaisedBy(b, w) /\ \A i \in 0 .. n : g[i] = Raised(b, w, g, i)
  BY <1>1, RaisedExists DEF RaisedUpTo
<1>3. ASSUME NEW i \in 1 .. n PROVE w[i].ver \in Nat
  <2>1. w[i] \in Records
    BY <1>1
  <2> QED  BY <2>1 DEF Records
<1> DEFINE T == {m \in 0 .. n : g[m] \in Nat /\ b <= g[m] /\ \A i \in 1 .. m : w[i].ver <= g[m]}
<1>4. 0 \in T
  BY <1>1, <1>2 DEF Raised
<1>5. ASSUME NEW m \in 0 .. n, m \in T, m < n PROVE m + 1 \in T
  <2>1. m + 1 \in 1 .. n /\ m + 1 \in 0 .. n /\ m + 1 # 0 /\ m + 1 - 1 = m
    BY <1>1, <1>5
  <2>2. PICK x, y : x = w[m + 1].ver /\ y = g[m] /\ x \in Nat /\ y \in Nat /\ b <= y /\ \A i \in 1 .. m : w[i].ver <= y
    BY <1>3, <1>5, <2>1
  <2>3. g[m + 1] = MaxOf(x, y)
    BY <1>2, <2>1, <2>2 DEF Raised
  <2>4. MaxOf(x, y) \in Nat /\ x <= MaxOf(x, y) /\ y <= MaxOf(x, y)
    BY <2>2 DEF MaxOf
  <2>5. ASSUME NEW i \in 1 .. m + 1 PROVE w[i].ver <= MaxOf(x, y)
    <3>1. CASE i = m + 1
      BY <2>2, <2>4, <3>1
    <3>2. CASE i # m + 1
      <4>1. i \in 1 .. m /\ i \in 1 .. n
        BY <1>1, <1>5, <3>2
      <4>2. PICK z : z = w[i].ver /\ z \in Nat /\ z <= y
        BY <1>3, <2>2, <4>1
      <4>3. z <= MaxOf(x, y)
        BY <2>2, <2>4, <4>2
      <4> QED  BY <4>2, <4>3
    <3> QED  BY <3>1, <3>2
  <2>6. b <= MaxOf(x, y)
    BY <1>1, <2>2, <2>4
  <2> QED  BY <2>1, <2>3, <2>4, <2>5, <2>6
<1>6. n \in T
  <2>1. \A m \in 0 .. n : m \in T
    <3> HIDE DEF T
    <3> QED  BY <1>1, <1>4, <1>5, UpTo
  <2> QED  BY <1>1, <2>1
<1>7. RecoveredVersion(d) = g[n]
  BY <1>1, <1>2, RaisedIs
<1> QED  BY <1>1, <1>6, <1>7

----------------------------------------------------------------------------
(* Files, logs and maps. *)

\* Values of the maps.
LEMMA OverlayIs ==
    ASSUME NEW m, NEW n, NEW k \in Keys
    PROVE  /\ m[k] = NoChange => Overlay(m, n)[k] = n[k]
           /\ m[k] # NoChange => Overlay(m, n)[k] = m[k]
  BY DEF Overlay

LEMMA OverlayMaps ==
    ASSUME NEW m \in Maps, NEW n \in Maps
    PROVE  Overlay(m, n) \in Maps
  BY DEF Overlay, Maps

LEMMA ConstantMaps ==
    /\ Unchanged \in Maps /\ [k \in Keys |-> Absent] \in Maps
    /\ \A k \in Keys : Unchanged[k] = NoChange
    /\ Absent # NoChange
<1>1. NoChange \in Entries /\ Absent \in Entries
  BY DEF NoChange, Absent, NoOne, Entries
<1>2. Absent # NoChange
  <2>1. Absent.unc.run = 0 /\ NoChange.unc.run = 1
    BY DEF Absent, NoChange, NoOne
  <2> QED  BY <2>1
<1> QED  BY <1>1, <1>2 DEF Unchanged, Maps

LEMMA ChainMaps ==
    ASSUME NEW f \in Files, NEW c \in 0 .. Len(f.chunks)
    PROVE  ChainData(f, c) \in Maps
<1>1. PICK n : n = Len(f.chunks) /\ n \in Nat
  BY DEF Files, FileRecords
<1> SUFFICES ASSUME {i \in 0 .. n : ChainData(f, i) \notin Maps} # {} PROVE FALSE
  BY <1>1
<1>2. PICK i \in {j \in 0 .. n : ChainData(f, j) \notin Maps} :
         \A y \in {j \in 0 .. n : ChainData(f, j) \notin Maps} : i <= y
  <2>1. {j \in 0 .. n : ChainData(f, j) \notin Maps} \in SUBSET Nat
    BY <1>1
  <2> QED  BY <2>1, LeastNumber
<1>3. i \in 0 .. n /\ i \in 0 .. Len(f.chunks)
  BY <1>1, <1>2
<1>4. CASE i = 0
  BY <1>2, <1>3, <1>4, ChainValue, ConstantMaps
<1>5. CASE i # 0
  <2>1. i \in 1 .. n
    BY <1>1, <1>3, <1>5
  <2>2. f.chunks[i] \in Chunks /\ f.chunks[i].previous < i
    BY <1>1, <2>1 DEF Files, FileRecords, Linked
  <2>3. PICK p, m : p = f.chunks[i].previous /\ m = f.chunks[i].data /\ p \in Nat /\ p < i /\ m \in Maps
    BY <2>2 DEF Chunks
  <2>4. ChainData(f, p) \in Maps
    <3>1. p \in 0 .. n /\ ~ (i <= p)
      BY <1>1, <1>3, <2>3
    <3> QED  BY <1>2, <3>1
  <2>5. ChainData(f, i) = m \/ ChainData(f, i) = Overlay(m, ChainData(f, p))
    BY <1>3, <1>5, <2>3, ChainValue
  <2> QED  BY <1>2, <2>3, <2>4, <2>5, OverlayMaps
<1> QED  BY <1>4, <1>5

LEMMA WalMaps ==
    ASSUME NEW wal \in Seq(Records)
    PROVE  WalChanges(wal) \in Maps
<1>1. PICK n : n = Len(wal) /\ n \in Nat
  OBVIOUS
<1>2. PICK g : g = Replayed(wal) /\ \A i \in 0 .. n : g[i] = Replay(wal, g, i)
  BY <1>1, ReplayExists DEF ReplayUpTo
<1> DEFINE T == {m \in 0 .. n : g[m] \in Maps}
<1>3. 0 \in T
  BY <1>1, <1>2, ConstantMaps DEF Replay
<1>4. ASSUME NEW m \in 0 .. n, m \in T, m < n PROVE m + 1 \in T
  <2>1. m + 1 \in 1 .. n /\ m + 1 \in 0 .. n /\ m + 1 # 0 /\ m + 1 - 1 = m
    BY <1>1, <1>4
  <2>2. wal[m + 1] \in Records
    BY <1>1, <2>1
  <2>3. g[m + 1] = Overlay(wal[m + 1].changes, g[m]) /\ wal[m + 1].changes \in Maps
    BY <1>2, <2>1, <2>2 DEF Replay, Records
  <2> QED  BY <1>4, <2>1, <2>3, OverlayMaps
<1>5. n \in T
  <2>1. \A m \in 0 .. n : m \in T
    <3> HIDE DEF T
    <3> QED  BY <1>1, <1>3, <1>4, UpTo
  <2> QED  BY <1>1, <2>1
<1> QED  BY <1>1, <1>2, <1>5, ReplayIs

\* The slot that open uses.
LEMMA ChosenIs ==
    ASSUME NEW f \in Files
    PROVE  /\ ChosenHeader(f) \in {f.primary, f.shadow} /\ ChosenHeader(f) \in Headers
           /\ Readable(f) <=> ChosenHeader(f) # Torn
  BY DEF ChosenHeader, Readable, Files, FileRecords

LEMMA ConstantFiles ==
    /\ NoFile \in Files /\ NewFile \in Files
    /\ Readable(NewFile) /\ NewFile.primary # Torn /\ NewFile.primary = NoHeader
    /\ NoFile.primary = Torn /\ NoFile.shadow = Torn /\ NewFile.shadow = Torn
    /\ NoFile.chunks = <<>> /\ NewFile.chunks = <<>>
<1>1. Torn \in Headers /\ NoHeader \in Headers /\ Torn # NoHeader
  <2>1. Torn.chunk = 99 /\ NoHeader.chunk = 0
    BY DEF Torn, NoHeader
  <2> QED  BY <2>1 DEF Torn, NoHeader, Headers
<1>2. <<>> \in Seq(Chunks) /\ Linked(<<>>)
  BY DEF Linked
<1>3. /\ NoFile.primary = Torn /\ NoFile.shadow = Torn /\ NewFile.shadow = Torn /\ NewFile.primary = NoHeader
      /\ NoFile.chunks = <<>> /\ NewFile.chunks = <<>>
  BY DEF NoFile, NewFile
<1>4. NoFile \in FileRecords /\ NewFile \in FileRecords
  BY <1>1, <1>2 DEF NoFile, NewFile, FileRecords
<1>5. Points(Torn, <<>>) /\ Points(NoHeader, <<>>)
  BY DEF Points, NoHeader
<1> QED  BY <1>1, <1>2, <1>3, <1>4, <1>5 DEF Files, Readable

\* A file that is good without a log is good with any.
LEMMA GoodAnyway ==
    ASSUME NEW f, NEW wc, NEW a, GoodFile(f, Unchanged, a)
    PROVE  GoodFile(f, wc, a)
  BY ConstantMaps DEF GoodFile, Holds

\* What recovery returns from good files.
LEMMA RecoveryIs ==
    ASSUME NEW d, d.wal \in Seq(Records), MainFile(d) \in Files, Openable(d), NEW a \in [Keys -> Nat],
           GoodFile(MainFile(d), WalChanges(d.wal), a), GoodLog(d.wal, a)
    PROVE  /\ RecoveredMap(d) \in Maps /\ RecoveredVersion(d) \in Nat
           /\ Full(RecoveredMap(d), a, RecoveredVersion(d))
<1>1. PICK f, h, w : f = MainFile(d) /\ h = ChosenHeader(f) /\ w = d.wal /\ h # Torn /\ f \in Files /\ h \in Headers /\ w \in Seq(Records)
  BY ChosenIs DEF Openable
<1>2. Holds(f, h, WalChanges(w), a)
  BY <1>1, ChosenIs DEF GoodFile
<1>3. h.version \in Nat /\ h.chunk \in 0 .. Len(f.chunks)
  <2>1. h.chunk <= Len(f.chunks)
    BY <1>1, <1>2 DEF Holds
  <2>2. Len(f.chunks) \in Nat /\ h.chunk \in Nat /\ h.version \in Nat
    BY <1>1 DEF Files, FileRecords, Headers
  <2> QED  BY <2>1, <2>2
<1>4. PICK v : v = RecoveredVersion(d) /\ v \in Nat /\ h.version <= v /\ \A i \in DOMAIN w : w[i].ver <= v
  BY <1>1, <1>3, VersionReaches
<1>5. PICK wc, m : wc = WalChanges(w) /\ m = ChainData(f, h.chunk) /\ wc \in Maps /\ m \in Maps
  BY <1>1, <1>3, WalMaps, ChainMaps
<1>6. RecoveredMap(d) = Overlay(wc, m)
  BY <1>1, <1>5 DEF RecoveredMap
<1>7. ASSUME NEW k \in Keys PROVE Overlay(wc, m)[k].val = a[k] /\ Overlay(wc, m)[k].ver <= v
  <2>1. CASE wc[k] = NoChange
    <3>1. Overlay(wc, m)[k] = m[k] /\ m[k].val = a[k] /\ m[k].ver <= h.version
      BY <1>1, <1>2, <1>5, <2>1, OverlayIs DEF Holds
    <3>2. m[k].ver \in Nat
      BY <1>5 DEF Maps, Entries
    <3>3. m[k].ver <= v
      BY <1>3, <1>4, <3>1, <3>2
    <3> QED  BY <3>1, <3>3
  <2>2. CASE wc[k] # NoChange
    <3>1. Overlay(wc, m)[k] = wc[k] /\ wc[k].val = a[k]
      BY <1>1, <1>5, <2>2, OverlayIs DEF GoodLog
    <3>2. PICK i \in DOMAIN w : wc[k].ver <= w[i].ver
      BY <1>1, <1>5, <2>2 DEF GoodLog
    <3>3. PICK x, y : x = wc[k].ver /\ y = w[i].ver /\ x \in Nat /\ y \in Nat /\ x <= y /\ y <= v
      <4>1. wc[k] \in Entries /\ w[i] \in Records
        BY <1>1, <1>5 DEF Maps
      <4> QED  BY <1>4, <3>2, <4>1 DEF Entries, Records
    <3>4. x <= v
      BY <1>4, <3>3
    <3> QED  BY <3>1, <3>3, <3>4
  <2> QED  BY <2>1, <2>2
<1> QED  BY <1>4, <1>5, <1>6, <1>7, OverlayMaps DEF Full

\* A record is added to the log.
After(c, a) == [k \in Keys |-> IF c.changes[k] = NoChange THEN a[k] ELSE c.id]

LEMMA LogGrows ==
    ASSUME NEW f, NEW w \in Seq(Records), NEW a \in [Keys -> Nat], NEW c,
           NEW r \in Records, r.changes = c.changes,
           \A k \in Keys : c.changes[k] # NoChange => c.changes[k].val = c.id /\ c.changes[k].ver = r.ver,
           GoodFile(f, WalChanges(w), a), GoodLog(w, a)
    PROVE  GoodFile(f, WalChanges(Append(w, r)), After(c, a)) /\ GoodLog(Append(w, r), After(c, a))
<1>1. PICK x, y, n : x = WalChanges(w) /\ y = WalChanges(Append(w, r)) /\ y = Overlay(c.changes, x) /\ n = Len(w) + 1
  BY OneMoreLogged
<1>2. \A k \in Keys : y[k] = NoChange => x[k] = NoChange /\ c.changes[k] = NoChange /\ After(c, a)[k] = a[k]
  BY <1>1, OverlayIs DEF After
<1>3. GoodFile(f, y, After(c, a))
  BY <1>1, <1>2 DEF GoodFile, Holds
<1>4. ASSUME NEW k \in Keys, y[k] # NoChange
      PROVE  y[k].val = After(c, a)[k] /\ \E i \in DOMAIN Append(w, r) : y[k].ver <= Append(w, r)[i].ver
  <2>1. CASE c.changes[k] # NoChange
    <3>1. y[k] = c.changes[k] /\ y[k].val = c.id /\ y[k].ver = r.ver /\ After(c, a)[k] = c.id
      BY <1>1, <2>1, OverlayIs DEF After
    <3>2. n \in DOMAIN Append(w, r) /\ Append(w, r)[n] = r
      BY <1>1, AppendIs
    <3>3. r.ver <= r.ver
      BY DEF Records
    <3> QED  BY <3>1, <3>2, <3>3
  <2>2. CASE c.changes[k] = NoChange
    <3>1. y[k] = x[k] /\ After(c, a)[k] = a[k]
      BY <1>1, <2>2, OverlayIs DEF After
    <3>2. y[k].val = a[k] /\ \E i \in DOMAIN w : x[k].ver <= w[i].ver
      BY <1>1, <1>4, <3>1 DEF GoodLog
    <3>3. \A i \in DOMAIN w : i \in DOMAIN Append(w, r) /\ Append(w, r)[i] = w[i]
      BY AppendIs
    <3> QED  BY <3>1, <3>2, <3>3
  <2> QED  BY <2>1, <2>2
<1> QED  BY <1>1, <1>3, <1>4 DEF GoodLog

----------------------------------------------------------------------------
(* Updates of the files. *)

LEMMA Idle ==
    /\ NoCommit \in CommitRecords /\ NoCommit.at = "none"
    /\ NoJob \in JobRecords /\ NoJob.at = "none"
<1>1. Unchanged \in Maps
  BY ConstantMaps
<1> QED  BY <1>1 DEF NoCommit, NoJob, CommitRecords, JobRecords

\* The job goes on to its next step.
LEMMA JobAt ==
    ASSUME NEW j \in JobRecords, NEW at \in {"none", "tmp", "clear"} \cup Writing \cup Replacing
    PROVE  /\ [j EXCEPT !.at = at] \in JobRecords /\ [j EXCEPT !.at = at].at = at
           /\ [j EXCEPT !.at = at].kind = j.kind /\ [j EXCEPT !.at = at].version = j.version
           /\ [j EXCEPT !.at = at].data = j.data /\ [j EXCEPT !.at = at].drained = j.drained
  BY DEF JobRecords

LEMMA DiskFields ==
    ASSUME NEW d \in Disks
    PROVE  d.main \in Files /\ d.bak \in Files /\ d.tmp \in Files /\ d.wal \in Seq(Records)
  BY DEF Disks

LEMMA FileFields ==
    ASSUME NEW f \in Files
    PROVE  /\ f.chunks \in Seq(Chunks) /\ f.primary \in Headers /\ f.shadow \in Headers /\ Linked(f.chunks)
           /\ Len(f.chunks) \in Nat /\ Points(f.primary, f.chunks) /\ Points(f.shadow, f.chunks)
  BY DEF Files, FileRecords

\* A header slot is written, a chunk appended.
ShadowWrite(d, e, h) == e = [d EXCEPT !.main.shadow = h]
PrimaryWrite(d, e, h) == e = [d EXCEPT !.main.primary = h]
ChunkWrite(d, e, c) == e = [d EXCEPT !.main.chunks = Append(@, c)]

LEMMA ShadowWritten ==
    ASSUME NEW d \in Disks, NEW h \in Headers, Points(h, d.main.chunks), NEW e, ShadowWrite(d, e, h)
    PROVE  /\ e \in Disks /\ e.bak = d.bak /\ e.tmp = d.tmp /\ e.wal = d.wal
           /\ e.main.chunks = d.main.chunks /\ e.main.primary = d.main.primary /\ e.main.shadow = h
<1>1. PICK f : f = [d.main EXCEPT !.shadow = h]
  OBVIOUS
<1>2. /\ d.main \in FileRecords /\ Linked(d.main.chunks)
      /\ Points(d.main.primary, d.main.chunks) /\ Points(d.main.shadow, d.main.chunks)
  BY DiskFields DEF Files
<1>3. f \in FileRecords /\ f.chunks = d.main.chunks /\ f.primary = d.main.primary /\ f.shadow = h
  BY <1>1, <1>2 DEF FileRecords
<1>4. f \in Files
  BY <1>2, <1>3 DEF Files
<1>5. e = [d EXCEPT !.main = f]
  BY <1>1 DEF ShadowWrite
<1> QED  BY <1>3, <1>4, <1>5 DEF Disks

LEMMA PrimaryWritten ==
    ASSUME NEW d \in Disks, NEW h \in Headers, Points(h, d.main.chunks), NEW e, PrimaryWrite(d, e, h)
    PROVE  /\ e \in Disks /\ e.bak = d.bak /\ e.tmp = d.tmp /\ e.wal = d.wal
           /\ e.main.chunks = d.main.chunks /\ e.main.shadow = d.main.shadow /\ e.main.primary = h
<1>1. PICK f : f = [d.main EXCEPT !.primary = h]
  OBVIOUS
<1>2. /\ d.main \in FileRecords /\ Linked(d.main.chunks)
      /\ Points(d.main.primary, d.main.chunks) /\ Points(d.main.shadow, d.main.chunks)
  BY DiskFields DEF Files
<1>3. f \in FileRecords /\ f.chunks = d.main.chunks /\ f.shadow = d.main.shadow /\ f.primary = h
  BY <1>1, <1>2 DEF FileRecords
<1>4. f \in Files
  BY <1>2, <1>3 DEF Files
<1>5. e = [d EXCEPT !.main = f]
  BY <1>1 DEF PrimaryWrite
<1> QED  BY <1>3, <1>4, <1>5 DEF Disks

\* The chunk builds on an earlier one.
LEMMA ChunkWritten ==
    ASSUME NEW d \in Disks, NEW c \in Chunks, c.previous <= Len(d.main.chunks),
           NEW e, ChunkWrite(d, e, c)
    PROVE  /\ e \in Disks /\ e.bak = d.bak /\ e.tmp = d.tmp /\ e.wal = d.wal
           /\ e.main.chunks = Append(d.main.chunks, c) /\ Len(e.main.chunks) = Len(d.main.chunks) + 1
           /\ e.main.primary = d.main.primary /\ e.main.shadow = d.main.shadow
           /\ e.main.chunks[Len(e.main.chunks)] = c
<1>1. PICK f : f = [d.main EXCEPT !.chunks = Append(d.main.chunks, c)]
  OBVIOUS
<1>2. d.main \in FileRecords /\ Linked(d.main.chunks) /\ d.main.chunks \in Seq(Chunks)
  BY DiskFields, FileFields DEF Files
<1>3. PICK q, n : q = d.main.chunks /\ n = Len(q) /\ q \in Seq(Chunks) /\ n \in Nat /\ Linked(q) /\ DOMAIN q = 1 .. n
  BY <1>2
<1>4. /\ Append(q, c) \in Seq(Chunks) /\ Len(Append(q, c)) = n + 1 /\ DOMAIN Append(q, c) = 1 .. n + 1
      /\ \A i \in 1 .. n : Append(q, c)[i] = q[i]
      /\ Append(q, c)[n + 1] = c
  BY <1>3, AppendIs
<1>5. c.previous < n + 1
  BY <1>3 DEF Chunks
<1>6. Linked(Append(q, c))
  <2>1. ASSUME NEW i \in 1 .. n + 1 PROVE Append(q, c)[i].previous < i
    <3>1. CASE i = n + 1
      BY <1>4, <1>5, <3>1
    <3>2. CASE i # n + 1
      <4>1. i \in 1 .. n
        BY <1>3, <3>2
      <4> QED  BY <1>3, <1>4, <4>1 DEF Linked
    <3> QED  BY <3>1, <3>2
  <2> QED  BY <1>4, <2>1 DEF Linked
<1>7. f \in FileRecords /\ f.chunks = Append(q, c) /\ f.primary = d.main.primary /\ f.shadow = d.main.shadow
  BY <1>1, <1>2, <1>3, <1>4 DEF FileRecords
<1>8. f \in Files
  <2>1. ASSUME NEW h \in Headers, Points(h, q) PROVE Points(h, Append(q, c))
    BY <1>3, <1>4, <2>1 DEF Points, Headers
  <2>2. Points(f.primary, f.chunks) /\ Points(f.shadow, f.chunks)
    BY <1>3, <1>7, <2>1, DiskFields, FileFields
  <2> QED  BY <1>6, <1>7, <2>2 DEF Files
<1>9. e = [d EXCEPT !.main = f]
  BY <1>1 DEF ChunkWrite
<1>10. e \in Disks /\ e.main = f /\ e.bak = d.bak /\ e.tmp = d.tmp /\ e.wal = d.wal
  BY <1>8, <1>9 DEF Disks
<1> QED  BY <1>3, <1>4, <1>7, <1>10

LEMMA CutLog ==
    ASSUME NEW w \in Seq(Records)
    PROVE  SubSeq(w, 1, Len(w) - 1) \in Seq(Records)
  OBVIOUS

LEMMA HasChunks ==
    ASSUME NEW f, 1 <= Len(f.chunks)
    PROVE  f # NoFile
<1>1. NoFile.chunks = <<>> /\ Len(<<>>) = 0
  BY ConstantFiles
<1> QED  BY <1>1

----------------------------------------------------------------------------
(* Types, phases and the places of the files. *)

LEMMA BaseInit == Init => BaseInv
<1> SUFFICES ASSUME Init PROVE BaseInv
  OBVIOUS
<1>1. disk \in Disks /\ disk.main = NewFile /\ disk.bak = NoFile /\ disk.tmp = NoFile /\ disk.wal = <<>>
  BY ConstantFiles DEF Init, Disks
<1>2. NewFile # NoFile /\ Len(<<>>) = 0 /\ NoHeader \in Headers /\ NoHeader.chunk = 0
  BY ConstantFiles DEF NoHeader, Headers
<1>3. started \in Counters
  BY DEF Init, Counters
<1>4. ShapeInv
  <2>1. mem \in Maps /\ journal \in Maps /\ acked \in [Keys -> Nat]
    BY ConstantMaps DEF Init
  <2> QED  BY <1>1, <1>2, <1>3, <2>1, Idle DEF Init, ShapeInv
<1>5. PhaseInv
  BY Idle DEF Init, PhaseInv, Writing, Replacing
<1>6. PlaceInv
  BY <1>1, <1>2, Idle, ConstantFiles DEF Init, PlaceInv, Writing, Replacing
<1> QED  BY <1>4, <1>5, <1>6 DEF BaseInv

LEMMA BaseLifecycle ==
    ASSUME BaseInv, begin \/ \E t \in 1 .. MaxTx : finish(t)
    PROVE  BaseInv'
<1>1. UNCHANGED <<mem, journal, version, next_commit_version, handle, header, commit, job, run, up, disk, acked, started,
                  unreplaced>>
  BY DEF begin, finish
<1>2. active' \subseteq Nat \ {0} /\ next_tx_id' \in Nat \ {0}
  <2>1. \/ active' = active \cup {next_tx_id} /\ next_tx_id' = next_tx_id + 1
        \/ active' \subseteq active /\ next_tx_id' = next_tx_id
    BY DEF begin, finish
  <2>2. active \subseteq Nat \ {0} /\ next_tx_id \in Nat \ {0}
    BY DEF BaseInv, ShapeInv
  <2>3. active' \subseteq Nat \ {0}
    BY <2>1, <2>2, Zenon
  <2>4. next_tx_id + 1 \in Nat \ {0}
    BY <2>2
  <2> QED  BY <2>1, <2>2, <2>3, <2>4, Zenon
<1>3. ShapeInv'
  BY <1>1, <1>2 DEF BaseInv, ShapeInv
<1>4. PhaseInv' /\ PlaceInv'
  BY <1>1 DEF BaseInv, PhaseInv, PlaceInv
<1> QED  BY <1>3, <1>4 DEF BaseInv

\* The entry that put and undo store: the committed value stays, and it is a
\* change.
LEMMA StoredEntry ==
    ASSUME BaseInv, NEW t \in 1 .. MaxTx, NEW k \in Keys, put(t, k) \/ undo(t, k)
    PROVE  \E e \in Entries : /\ Store(k, e) /\ e.val = mem[k].val /\ e.ver = mem[k].ver /\ e # NoChange
                              /\ UNCHANGED <<journaling, has_checkpoint, version, next_commit_version, handle, header,
                                             active, next_tx_id, commit, job, run, up, disk, acked, started, unreplaced>>
<1>1. mem[k] \in Entries /\ t \in Nat /\ t # 0 /\ run \in Nat
  BY DEF BaseInv, ShapeInv, Maps
<1>2. NoChange.unc.tx = 0 /\ NoChange.unc.run = 1
  BY DEF NoChange
<1>3. CASE put(t, k)
  <2>1. PICK e : e = [mem[k] EXCEPT !.unc = [tx |-> t, run |-> run]]
    OBVIOUS
  <2>2. e \in Entries /\ e.val = mem[k].val /\ e.ver = mem[k].ver /\ e.unc.tx = t
    BY <1>1, <2>1 DEF Entries
  <2>3. e # NoChange
    BY <1>1, <1>2, <2>2
  <2> QED  BY <1>3, <2>1, <2>2, <2>3 DEF put
<1>4. CASE undo(t, k)
  <2>1. PICK e : e = [mem[k] EXCEPT !.unc = NoOne]
    OBVIOUS
  <2>2. e \in Entries /\ e.val = mem[k].val /\ e.ver = mem[k].ver /\ e.unc.run = 0
    BY <1>1, <2>1 DEF Entries, NoOne
  <2>3. e # NoChange
    BY <1>2, <2>2
  <2> QED  BY <1>4, <2>1, <2>2, <2>3 DEF undo
<1> QED  BY <1>3, <1>4

LEMMA BaseMemory ==
    ASSUME BaseInv, NEW t \in 1 .. MaxTx, NEW k \in Keys, put(t, k) \/ undo(t, k)
    PROVE  BaseInv'
<1>1. PICK e \in Entries : Store(k, e)
  BY StoredEntry
<1>2. UNCHANGED <<version, next_commit_version, handle, header, active, next_tx_id, commit, job, run, up, disk, acked,
                  started, unreplaced>>
  BY DEF put, undo
<1>3. mem' \in Maps /\ journal' \in Maps
  BY <1>1 DEF Store, BaseInv, ShapeInv, Maps
<1>4. ShapeInv'
  BY <1>2, <1>3 DEF BaseInv, ShapeInv
<1>5. PhaseInv' /\ PlaceInv'
  BY <1>2 DEF BaseInv, PhaseInv, PlaceInv
<1> QED  BY <1>4, <1>5 DEF BaseInv

LEMMA BaseCommitAppend ==
    ASSUME BaseInv, NEW t \in 1 .. MaxTx, commit_append(t)
    PROVE  /\ BaseInv'
           /\ [ver |-> commit'.ver, changes |-> commit'.changes] \in Records
           /\ disk'.wal = Append(disk.wal, [ver |-> commit'.ver, changes |-> commit'.changes])
           /\ UNCHANGED <<disk.main, disk.bak, disk.tmp>>
<1>1. PICK v, id, ch :
         /\ v = next_commit_version + 1 /\ id = started.commits + 1
         /\ ch = [k \in Keys |-> IF Mine(t, k) THEN [val |-> id, ver |-> v, unc |-> NoOne] ELSE NoChange]
         /\ next_commit_version' = v
         /\ commit' = [tx |-> t, at |-> "appended", id |-> id, ver |-> v, changes |-> ch]
         /\ disk' = [disk EXCEPT !.wal = Append(@, [ver |-> v, changes |-> ch])]
         /\ started' = [started EXCEPT !.commits = id]
  BY DEF commit_append
<1>2. v \in Nat /\ id \in Nat /\ t \in Nat /\ version <= v
  BY <1>1 DEF BaseInv, ShapeInv, Counters
<1>3. ch \in Maps
  <2>1. NoChange \in Entries
    BY DEF NoChange, Entries
  <2>2. [val |-> id, ver |-> v, unc |-> NoOne] \in Entries
    BY <1>2 DEF NoOne, Entries
  <2> QED  BY <1>1, <2>1, <2>2 DEF Maps
<1>4. commit' \in CommitRecords /\ commit'.at = "appended" /\ commit'.ver = v /\ commit'.changes = ch
  BY <1>1, <1>2, <1>3 DEF CommitRecords
<1>5. [ver |-> v, changes |-> ch] \in Records
  BY <1>2, <1>3 DEF Records
<1>6. /\ disk' \in Disks /\ disk'.main = disk.main /\ disk'.bak = disk.bak /\ disk'.tmp = disk.tmp
      /\ disk'.wal = Append(disk.wal, [ver |-> v, changes |-> ch])
  <2>1. Append(disk.wal, [ver |-> v, changes |-> ch]) \in Seq(Records) /\ disk \in Disks
    BY <1>5, DiskFields DEF BaseInv, ShapeInv
  <2>2. disk' = [disk EXCEPT !.wal = Append(disk.wal, [ver |-> v, changes |-> ch])]
    BY <1>1
  <2> QED  BY <2>1, <2>2 DEF Disks
<1>7. started' \in Counters
  BY <1>1, <1>2 DEF BaseInv, ShapeInv, Counters
<1>8. ShapeInv'
  BY <1>1, <1>2, <1>4, <1>6, <1>7 DEF commit_append, BaseInv, ShapeInv
<1>9. PhaseInv'
  <2>1. job = NoJob /\ job' = NoJob /\ up /\ up' /\ version' = version
    BY DEF commit_append
  <2>2. v <= v
    BY <1>2
  <2> QED  BY <1>1, <1>2, <1>4, <2>1, <2>2, Idle DEF PhaseInv, Writing, Replacing
<1>10. PlaceInv'
  BY <1>6 DEF commit_append, BaseInv, PlaceInv
<1> QED  BY <1>4, <1>5, <1>6, <1>8, <1>9, <1>10 DEF BaseInv

LEMMA BaseCommitEnds ==
    ASSUME BaseInv, commit_sync \/ commit_sync_fails
    PROVE  BaseInv'
<1>1. commit' = NoCommit /\ job' = job /\ up' = up /\ commit.at = "appended" /\ job.at = "none" /\ handle' = handle
  BY DEF commit_sync, commit_sync_fails, memoryVars, BaseInv, PhaseInv
<1>2. commit.changes \in Maps /\ commit.id \in Nat /\ commit.ver \in Nat
  BY DEF BaseInv, ShapeInv, CommitRecords
<1>3. disk' \in Disks /\ UNCHANGED <<disk.main, disk.bak, disk.tmp>>
  <2>1. CASE commit_sync
    BY <2>1 DEF commit_sync, BaseInv, ShapeInv
  <2>2. CASE commit_sync_fails
    <3>1. disk \in Disks /\ SubSeq(disk.wal, 1, Len(disk.wal) - 1) \in Seq(Records)
      BY DiskFields, CutLog DEF BaseInv, ShapeInv
    <3>2. disk' = [disk EXCEPT !.wal = SubSeq(disk.wal, 1, Len(disk.wal) - 1)]
      BY <2>2 DEF commit_sync_fails
    <3> QED  BY <3>1, <3>2 DEF Disks
  <2> QED  BY <2>1, <2>2
<1>4. mem' \in Maps /\ journal' \in Maps
  <2>1. CASE commit_sync
    BY <1>2, <2>1, OverlayMaps DEF commit_sync, BaseInv, ShapeInv
  <2>2. CASE commit_sync_fails
    BY <2>2 DEF commit_sync_fails, memoryVars, BaseInv, ShapeInv
  <2> QED  BY <2>1, <2>2
<1>5. acked' \in [Keys -> Nat]
  BY <1>2 DEF commit_sync, commit_sync_fails, BaseInv, ShapeInv
<1>6. version' \in Nat /\ next_commit_version' \in Nat /\ version' <= next_commit_version'
  BY <1>1, <1>2 DEF commit_sync, commit_sync_fails, memoryVars, BaseInv, ShapeInv, PhaseInv
<1>7. UNCHANGED <<header, run, next_tx_id, started, unreplaced>> /\ active' \subseteq active
  BY DEF commit_sync, commit_sync_fails, memoryVars
<1>8. ShapeInv'
  BY <1>1, <1>3, <1>4, <1>5, <1>6, <1>7, Idle DEF BaseInv, ShapeInv
<1>9. PhaseInv'
  BY <1>1, Idle DEF BaseInv, PhaseInv
<1>10. PlaceInv'
  BY <1>1, <1>3, <1>7 DEF BaseInv, PlaceInv
<1> QED  BY <1>8, <1>9, <1>10 DEF BaseInv

LEMMA BaseCheckpointBegin ==
    ASSUME BaseInv, checkpoint_begin
    PROVE  /\ BaseInv' /\ job'.at = "chunk" /\ job'.version = version + 1 /\ job'.drained = journal
           /\ job'.data = IF has_checkpoint THEN journal ELSE mem
<1>1. PICK v, m, n : v = version + 1 /\ m = (IF has_checkpoint THEN journal ELSE mem) /\ n = journal
                     /\ v \in Nat /\ v >= 1 /\ m \in Maps /\ n \in Maps
  BY DEF BaseInv, ShapeInv
<1>2. job' = [kind |-> "checkpoint", at |-> "chunk", version |-> v, data |-> m, drained |-> n]
  BY <1>1 DEF checkpoint_begin
<1>3. /\ job' \in JobRecords /\ job'.at = "chunk" /\ job'.kind = "checkpoint" /\ job'.version = v
      /\ job'.data = m /\ job'.drained = n
  BY <1>1, <1>2 DEF JobRecords, Writing, Replacing
<1>4. started' \in Counters
  BY DEF checkpoint_begin, BaseInv, ShapeInv, Counters
<1>5. ShapeInv'
  BY <1>3, <1>4, ConstantMaps DEF checkpoint_begin, BaseInv, ShapeInv
<1>6. PhaseInv'
  BY <1>1, <1>3, Idle DEF checkpoint_begin, JobMayStart, PhaseInv, Writing, Replacing
<1>7. PlaceInv'
  <2>1. job.at = "none"
    BY Idle DEF checkpoint_begin, JobMayStart
  <2> QED  BY <1>3, <2>1 DEF checkpoint_begin, BaseInv, PlaceInv
<1> QED  BY <1>1, <1>3, <1>5, <1>6, <1>7 DEF BaseInv

LEMMA BaseWriteChunk ==
    ASSUME BaseInv, write_chunk
    PROVE  /\ BaseInv' /\ job' = [job EXCEPT !.at = "shadow"]
           /\ disk'.wal = disk.wal /\ disk'.main.primary = disk.main.primary
           /\ disk'.main.shadow = disk.main.shadow
           /\ \E c \in Chunks : /\ c.full = (~ has_checkpoint) /\ c.data = job.data /\ c.previous = header.chunk
                                /\ disk'.main.chunks = Append(disk.main.chunks, c)
                                /\ Len(disk'.main.chunks) = Len(disk.main.chunks) + 1
                                /\ disk'.main.chunks[Len(disk'.main.chunks)] = c
<1>1. PICK b, m, p : /\ b = (~ has_checkpoint) /\ m = job.data /\ p = header.chunk
                     /\ b \in BOOLEAN /\ m \in Maps /\ p \in Nat
  BY DEF BaseInv, ShapeInv, JobRecords, Headers
<1>2. PICK c : c = [full |-> b, data |-> m, previous |-> p]
  OBVIOUS
<1>3. c \in Chunks /\ c.full = b /\ c.data = m /\ c.previous = p
  BY <1>1, <1>2 DEF Chunks
<1>4. PICK d, e : d = disk /\ e = disk' /\ d \in Disks /\ ChunkWrite(d, e, c)
  <2>1. disk' = [disk EXCEPT !.main.chunks = Append(@, [full |-> ~ has_checkpoint, data |-> job.data, previous |-> header.chunk])]
    BY DEF write_chunk
  <2>2. disk' = [disk EXCEPT !.main.chunks = Append(@, c)]
    BY <1>1, <1>2, <2>1
  <2> QED  BY <2>2 DEF ChunkWrite, BaseInv, ShapeInv
<1>5. handle /\ handle' = handle /\ c.previous <= Len(d.main.chunks)
  BY <1>1, <1>3, <1>4 DEF write_chunk, memoryVars, BaseInv, PlaceInv
<1>6. /\ e \in Disks /\ e.bak = d.bak /\ e.tmp = d.tmp /\ e.wal = d.wal
      /\ e.main.chunks = Append(d.main.chunks, c) /\ Len(e.main.chunks) = Len(d.main.chunks) + 1
      /\ e.main.primary = d.main.primary /\ e.main.shadow = d.main.shadow
      /\ e.main.chunks[Len(e.main.chunks)] = c
  BY <1>3, <1>4, <1>5, ChunkWritten
<1>7. PICK n : n = Len(d.main.chunks) /\ n \in Nat /\ Len(e.main.chunks) = n + 1 /\ header.chunk <= n /\ header.chunk \in Nat
  BY <1>1, <1>3, <1>4, <1>5, <1>6, DiskFields, FileFields
<1>8. 1 <= n + 1 /\ header.chunk <= n + 1
  BY <1>7
<1>9. disk'.main # NoFile /\ 1 <= Len(disk'.main.chunks)
  BY <1>4, <1>7, <1>8, HasChunks
<1>10. job' = [job EXCEPT !.at = "shadow"] /\ job.kind = "checkpoint" /\ job.at = "chunk"
  BY DEF write_chunk
<1>11. job' \in JobRecords /\ job'.at = "shadow" /\ job'.kind = "checkpoint" /\ job'.version = job.version
  BY <1>10, JobAt DEF BaseInv, ShapeInv, Writing, Replacing
<1>12. ShapeInv'
  BY <1>4, <1>6, <1>11 DEF write_chunk, memoryVars, BaseInv, ShapeInv
<1>13. PhaseInv'
  BY <1>5, <1>10, <1>11 DEF write_chunk, memoryVars, BaseInv, PhaseInv, Writing, Replacing
<1>14. PlaceInv'
  BY <1>4, <1>6, <1>7, <1>8, <1>9, <1>11 DEF write_chunk, memoryVars, PlaceInv, Replacing
<1> QED  BY <1>1, <1>3, <1>4, <1>6, <1>10, <1>12, <1>13, <1>14 DEF BaseInv

LEMMA HeaderWritten ==
    ASSUME BaseInv, job.at \in {"shadow", "primary"}
    PROVE  /\ NewHeader \in Headers /\ NewHeader # Torn /\ Points(NewHeader, disk.main.chunks)
           /\ NewHeader.version = job.version /\ NewHeader.chunk = Len(disk.main.chunks)
<1>1. PICK v, n : v = job.version /\ n = Len(disk.main.chunks) /\ v \in Nat /\ n \in Nat /\ v >= 1
  BY DiskFields, FileFields DEF BaseInv, ShapeInv, PhaseInv, JobRecords, Writing
<1>2. NewHeader = [version |-> v, chunk |-> n]
  BY <1>1 DEF NewHeader
<1>3. NewHeader.version = v /\ NewHeader.chunk = n /\ Torn.version = 0
  BY <1>2 DEF Torn
<1>4. NewHeader \in Headers
  BY <1>1, <1>2 DEF Headers
<1> QED  BY <1>1, <1>3, <1>4 DEF Points

\* A slot of the main file is written.
LEMMA SlotKeeps ==
    ASSUME BaseInv, job.at \in {"shadow", "primary"}, NEW h \in {NewHeader, Torn}, NEW e,
           ShadowWrite(disk, e, h) \/ PrimaryWrite(disk, e, h)
    PROVE  /\ e \in Disks /\ e.main # NoFile /\ e.main.chunks = disk.main.chunks
           /\ e.bak = disk.bak /\ e.tmp = disk.tmp /\ e.wal = disk.wal
<1>1. disk \in Disks
  BY DEF BaseInv, ShapeInv
<1>2. h \in Headers /\ Points(h, disk.main.chunks)
  BY HeaderWritten DEF Torn, Headers, Points
<1>3. /\ e \in Disks /\ e.main.chunks = disk.main.chunks
      /\ e.bak = disk.bak /\ e.tmp = disk.tmp /\ e.wal = disk.wal
  BY <1>1, <1>2, ShadowWritten, PrimaryWritten
<1>4. 1 <= Len(e.main.chunks)
  BY <1>3 DEF BaseInv, PlaceInv
<1> QED  BY <1>3, <1>4, HasChunks

LEMMA BaseWriteShadow ==
    ASSUME BaseInv, write_shadow
    PROVE  BaseInv' /\ ShadowWrite(disk, disk', NewHeader) /\ NewHeader' = NewHeader
<1>1. ShadowWrite(disk, disk', NewHeader) /\ job.at = "shadow" /\ job' = [job EXCEPT !.at = "primary"]
  BY DEF write_shadow, ShadowWrite
<1>2. /\ disk' \in Disks /\ disk'.main # NoFile /\ disk'.main.chunks = disk.main.chunks
      /\ disk'.bak = disk.bak /\ disk'.tmp = disk.tmp
  BY <1>1, SlotKeeps
<1>3. job' \in JobRecords /\ job'.at = "primary" /\ job'.kind = job.kind /\ job'.version = job.version
  BY <1>1, JobAt DEF BaseInv, ShapeInv, Writing, Replacing
<1>4. UNCHANGED <<memoryVars, commit, run, up, acked, started, unreplaced>>
  BY DEF write_shadow
<1>5. ShapeInv'
  BY <1>2, <1>3, <1>4 DEF memoryVars, BaseInv, ShapeInv
<1>6. PhaseInv'
  BY <1>1, <1>3, <1>4 DEF memoryVars, BaseInv, PhaseInv, Writing, Replacing
<1>7. PlaceInv'
  BY <1>1, <1>2, <1>3, <1>4 DEF memoryVars, BaseInv, PlaceInv
<1> QED  BY <1>1, <1>2, <1>3, <1>5, <1>6, <1>7 DEF BaseInv, NewHeader

LEMMA MaxOfIs ==
    ASSUME NEW a \in Nat, NEW b \in Nat
    PROVE  MaxOf(a, b) \in Nat /\ b <= MaxOf(a, b)
  BY DEF MaxOf

\* A checkpoint or a rewrite has written its header.
LEMMA BaseCheckpointed ==
    ASSUME BaseInv, NEW h, Checkpointed(h)
    PROVE  /\ version' \in Nat /\ next_commit_version' \in Nat /\ version' <= next_commit_version'
           /\ job' \in JobRecords /\ job'.at = "clear" /\ job'.kind = job.kind
<1>1. version' = job.version /\ job.version \in Nat /\ next_commit_version \in Nat
  BY DEF Checkpointed, BaseInv, ShapeInv, JobRecords
<1>2. next_commit_version' = MaxOf(next_commit_version, job.version)
  BY DEF Checkpointed
<1>3. job' = [job EXCEPT !.at = "clear"] /\ job \in JobRecords
  BY DEF Checkpointed, BaseInv, ShapeInv
<1> QED  BY <1>1, <1>2, <1>3, MaxOfIs, JobAt DEF Writing, Replacing

LEMMA BaseWritePrimary ==
    ASSUME BaseInv, write_primary
    PROVE  BaseInv' /\ PrimaryWrite(disk, disk', NewHeader)
<1>1. PrimaryWrite(disk, disk', NewHeader) /\ job.at = "primary" /\ Checkpointed(NewHeader)
  BY DEF write_primary, PrimaryWrite
<1>2. /\ disk' \in Disks /\ disk'.main # NoFile /\ disk'.main.chunks = disk.main.chunks
      /\ disk'.bak = disk.bak /\ disk'.tmp = disk.tmp
  BY <1>1, SlotKeeps
<1>3. /\ version' \in Nat /\ next_commit_version' \in Nat /\ version' <= next_commit_version'
      /\ job' \in JobRecords /\ job'.at = "clear" /\ job'.kind = job.kind
  BY <1>1, BaseCheckpointed
<1>4. UNCHANGED <<mem, journal, journaling, handle, active, next_tx_id, commit, run, up, acked, started, unreplaced>>
  BY DEF write_primary
<1>5. header' = NewHeader
  BY <1>1 DEF Checkpointed
<1>6. header' \in Headers /\ header'.chunk = Len(disk.main.chunks) /\ Len(disk.main.chunks) \in Nat
  BY <1>1, <1>5, HeaderWritten, DiskFields, FileFields DEF BaseInv, ShapeInv
<1>7. ShapeInv'
  BY <1>2, <1>3, <1>4, <1>6 DEF BaseInv, ShapeInv
<1>8. PhaseInv'
  BY <1>1, <1>3, <1>4 DEF BaseInv, PhaseInv, Writing, Replacing
<1>9. PlaceInv'
  <2>1. header'.chunk <= Len(disk'.main.chunks)
    BY <1>2, <1>6
  <2> QED  BY <1>2, <1>3, <1>4, <2>1 DEF PlaceInv
<1> QED  BY <1>1, <1>7, <1>8, <1>9 DEF BaseInv

LEMMA BaseWriteNothing ==
    ASSUME BaseInv, write_nothing
    PROVE  BaseInv'
<1>1. Checkpointed([header EXCEPT !.version = job.version]) /\ job.at = "chunk" /\ ~ handle
  BY DEF write_nothing
<1>2. UNCHANGED <<mem, journal, journaling, handle, active, next_tx_id, commit, run, up, disk, acked, started, unreplaced>>
  BY DEF write_nothing
<1>3. /\ version' \in Nat /\ next_commit_version' \in Nat /\ version' <= next_commit_version'
      /\ job' \in JobRecords /\ job'.at = "clear" /\ job'.kind = job.kind
  BY <1>1, BaseCheckpointed
<1>4. header' \in Headers
  <2>1. header' = [header EXCEPT !.version = job.version] /\ header \in Headers /\ job.version \in Nat
    BY <1>1 DEF Checkpointed, BaseInv, ShapeInv, JobRecords
  <2> QED  BY <2>1 DEF Headers
<1>5. ShapeInv'
  BY <1>2, <1>3, <1>4 DEF BaseInv, ShapeInv
<1>6. PhaseInv'
  BY <1>1, <1>2, <1>3 DEF BaseInv, PhaseInv, Writing, Replacing
<1>7. PlaceInv'
  BY <1>1, <1>2, <1>3 DEF BaseInv, PhaseInv, PlaceInv
<1> QED  BY <1>5, <1>6, <1>7 DEF BaseInv

\* A slot may keep what it has.
LEMMA SlotStays ==
    ASSUME NEW d \in Disks
    PROVE  [d EXCEPT !.main.shadow = d.main.shadow] = d /\ [d EXCEPT !.main.primary = d.main.primary] = d
<1>1. d.main \in FileRecords
  BY DiskFields DEF Files
<1>2. PICK f : f = d.main /\ f \in FileRecords
  BY <1>1
<1>3. [f EXCEPT !.shadow = f.shadow] = f /\ [f EXCEPT !.primary = f.primary] = f
  BY <1>2 DEF FileRecords
<1>4. [d EXCEPT !.main = f] = d
  BY <1>2 DEF Disks
<1> QED  BY <1>2, <1>3, <1>4

LEMMA BaseCheckpointFails ==
    ASSUME BaseInv, checkpoint_fails
    PROVE  /\ BaseInv'
           /\ \/ UNCHANGED disk
              \/ job.at = "shadow" /\ ShadowWrite(disk, disk', NewHeader)
              \/ job.at = "primary" /\ PrimaryWrite(disk, disk', NewHeader)
<1>1. /\ job.at \in Writing /\ job' = NoJob /\ up /\ journal' = Overlay(journal, job.drained)
      /\ UNCHANGED <<mem, journaling, has_checkpoint, version, next_commit_version, handle, header, active, next_tx_id,
                     commit, run, up, acked, started, unreplaced>>
  BY DEF checkpoint_fails, Writing
<1>2. \/ UNCHANGED disk
      \/ job.at = "shadow" /\ ShadowWrite(disk, disk', NewHeader)
      \/ job.at = "primary" /\ PrimaryWrite(disk, disk', NewHeader)
  <2>1. disk \in Disks
    BY DEF BaseInv, ShapeInv
  <2> QED  BY <2>1, SlotStays DEF checkpoint_fails, ShadowWrite, PrimaryWrite
<1>3. /\ disk' \in Disks /\ disk'.main.chunks = disk.main.chunks
      /\ disk'.bak = disk.bak /\ disk'.tmp = disk.tmp
      /\ disk.main # NoFile => disk'.main # NoFile
  <2>1. CASE UNCHANGED disk
    BY <2>1 DEF BaseInv, ShapeInv
  <2>2. CASE ~ UNCHANGED disk
    BY <1>2, <2>2, SlotKeeps
  <2> QED  BY <2>1, <2>2
<1>4. journal' \in Maps
  BY <1>1, OverlayMaps DEF BaseInv, ShapeInv, JobRecords
<1>5. ShapeInv'
  BY <1>1, <1>3, <1>4, Idle DEF BaseInv, ShapeInv
<1>6. PhaseInv'
  BY <1>1, Idle DEF BaseInv, PhaseInv, Writing, Replacing
<1>7. PlaceInv'
  BY <1>1, <1>3, Idle DEF BaseInv, PlaceInv, Writing
<1> QED  BY <1>2, <1>5, <1>6, <1>7 DEF BaseInv

LEMMA BaseClear ==
    ASSUME BaseInv, clear_wal \/ clear_wal_fails \/ write_tmp_fails \/ replace_fails
    PROVE  BaseInv'
<1>1. /\ job' = NoJob /\ up /\ job.at # "none"
      /\ UNCHANGED <<mem, journaling, version, next_commit_version, handle, header, active, next_tx_id,
                     commit, run, up, acked, started>>
  BY DEF clear_wal, clear_wal_fails, write_tmp_fails, replace_fails, memoryVars
<1>2. journal' \in Maps
  BY ConstantMaps DEF clear_wal, clear_wal_fails, write_tmp_fails, replace_fails, memoryVars, BaseInv, ShapeInv
<1>3. disk' \in Disks /\ UNCHANGED <<disk.main, disk.bak, disk.tmp>>
  <2>1. CASE clear_wal
    <3>1. disk \in Disks /\ disk' = [disk EXCEPT !.wal = <<>>] /\ <<>> \in Seq(Records)
      BY <2>1 DEF clear_wal, BaseInv, ShapeInv
    <3> QED  BY <3>1 DEF Disks
  <2>2. CASE ~ clear_wal
    BY <2>2 DEF clear_wal_fails, write_tmp_fails, replace_fails, BaseInv, ShapeInv
  <2> QED  BY <2>1, <2>2
<1>4. ShapeInv'
  BY <1>1, <1>2, <1>3, Idle DEF BaseInv, ShapeInv
<1>5. PhaseInv'
  BY <1>1, Idle DEF BaseInv, PhaseInv, Writing, Replacing
<1>6. PlaceInv'
  <2>1. unreplaced' \/ (unreplaced' = unreplaced /\ job.at \in {"tmp", "clear"})
    BY DEF clear_wal, clear_wal_fails, write_tmp_fails, replace_fails
  <2> QED  BY <1>1, <1>3, <2>1, Idle DEF BaseInv, PlaceInv
<1> QED  BY <1>4, <1>5, <1>6 DEF BaseInv

LEMMA BaseRewriteBegin ==
    ASSUME BaseInv, NEW kind \in {"compact", "reclaim"}, rewrite_begin(kind)
    PROVE  /\ BaseInv' /\ job'.at = "tmp"
           /\ job'.version = IF kind = "compact" THEN version ELSE version + 1
           /\ job'.data = IF kind = "compact" THEN CleanMap ELSE mem
<1>1. PICK v, m : v = (IF kind = "compact" THEN version ELSE version + 1) /\ m = (IF kind = "compact" THEN CleanMap ELSE mem)
  OBVIOUS
<1>2. v \in Nat
  BY <1>1 DEF BaseInv, ShapeInv
<1>3. m \in Maps
  <2>1. CleanMap \in Maps
    <3>1. ASSUME NEW k \in Keys PROVE mem[k].val = 0 \/ [val |-> mem[k].val, ver |-> version, unc |-> NoOne] \in Entries
      <4>1. mem[k].val \in Nat /\ version \in Nat /\ NoOne \in [tx : Nat, run : Nat]
        BY DEF BaseInv, ShapeInv, Maps, Entries, NoOne
      <4> QED  BY <4>1 DEF Entries
    <3>2. Absent \in Entries
      BY DEF Absent, NoOne, Entries
    <3> QED  BY <3>1, <3>2 DEF CleanMap, Maps
  <2> QED  BY <1>1, <2>1 DEF BaseInv, ShapeInv
<1>4. job' = [kind |-> kind, at |-> "tmp", drained |-> Unchanged, version |-> v, data |-> m]
  BY <1>1 DEF rewrite_begin
<1>5. /\ job' \in JobRecords /\ job'.at = "tmp" /\ job'.kind = kind /\ job'.version = v /\ job'.data = m
  BY <1>2, <1>3, <1>4, ConstantMaps DEF JobRecords, Writing, Replacing
<1>6. started' \in Counters
  BY DEF rewrite_begin, BaseInv, ShapeInv, Counters
<1>7. ShapeInv'
  BY <1>5, <1>6 DEF rewrite_begin, memoryVars, BaseInv, ShapeInv
<1>8. PhaseInv'
  BY <1>5, Idle DEF rewrite_begin, JobMayStart, memoryVars, PhaseInv, Writing, Replacing
<1>9. PlaceInv'
  BY <1>5, Idle DEF rewrite_begin, JobMayStart, memoryVars, BaseInv, PlaceInv
<1> QED  BY <1>1, <1>5, <1>7, <1>8, <1>9 DEF BaseInv

\* The file that a rewrite makes of a map.
Rewritten(v, m) == [chunks |-> <<[full |-> TRUE, data |-> m, previous |-> 0]>>,
                    primary |-> [version |-> v, chunk |-> 1], shadow |-> [version |-> v, chunk |-> 1]]

LEMMA RewrittenIs ==
    ASSUME NEW v \in Nat, NEW m \in Maps
    PROVE  /\ Rewritten(v, m) \in Files /\ Len(Rewritten(v, m).chunks) = 1 /\ Rewritten(v, m) # NoFile
           /\ Rewritten(v, m).primary = [version |-> v, chunk |-> 1]
           /\ Rewritten(v, m).shadow = [version |-> v, chunk |-> 1]
           /\ [version |-> v, chunk |-> 1] \in Headers /\ [version |-> v, chunk |-> 1] # Torn
           /\ ChainData(Rewritten(v, m), 1) = m
<1>1. PICK b : b = TRUE /\ b \in BOOLEAN
  OBVIOUS
<1>2. PICK h, c, q : h = [version |-> v, chunk |-> 1] /\ c = [full |-> b, data |-> m, previous |-> 0] /\ q = <<c>>
  OBVIOUS
<1>3. h \in Headers /\ h.chunk = 1 /\ Torn.chunk = 99
  BY <1>2 DEF Headers, Torn
<1>4. c \in Chunks /\ c.full = b /\ c.data = m /\ c.previous = 0
  BY <1>1, <1>2 DEF Chunks
<1>5. q \in Seq(Chunks) /\ Len(q) = 1 /\ q[1] = c /\ DOMAIN q = 1 .. 1
  BY <1>2, <1>4
<1>6. Linked(q) /\ Points(h, q)
  BY <1>3, <1>4, <1>5 DEF Linked, Points
<1>7. PICK f : f = [chunks |-> q, primary |-> h, shadow |-> h]
  OBVIOUS
<1>8. f \in FileRecords /\ f.chunks = q /\ f.primary = h /\ f.shadow = h
  BY <1>3, <1>5, <1>7 DEF FileRecords
<1>9. f \in Files /\ f # NoFile
  <2>1. f \in Files
    BY <1>6, <1>8 DEF Files
  <2>2. Len(f.chunks) = 1
    BY <1>5, <1>8
  <2>3. 1 <= Len(f.chunks)
    BY <2>2
  <2> QED  BY <2>1, <2>3, HasChunks
<1>10. f = Rewritten(v, m)
  BY <1>1, <1>2, <1>7 DEF Rewritten
<1>11. ChainData(f, 1) = m
  <2>1. Len(f.chunks) = 1 /\ f.chunks[1] = c
    BY <1>5, <1>8
  <2>2. 1 \in 0 .. Len(f.chunks)
    BY <2>1
  <2>3. c.full
    BY <1>1, <1>4, Zenon
  <2>4. c.data = m
    BY <1>4
  <2> QED  BY <1>9, <2>1, <2>2, <2>3, <2>4, ChainValue
<1> QED  BY <1>2, <1>3, <1>5, <1>8, <1>9, <1>10, <1>11

LEMMA BaseWriteTmp ==
    ASSUME BaseInv, write_tmp
    PROVE  /\ BaseInv' /\ disk'.tmp = Rewritten(job.version, job.data) /\ disk'.bak = NoFile
           /\ disk'.main = disk.main /\ disk'.wal = disk.wal
<1>1. PICK f : f = Rewritten(job.version, job.data)
  OBVIOUS
<1>2. f \in Files /\ Len(f.chunks) = 1 /\ f # NoFile
  BY <1>1, RewrittenIs DEF BaseInv, ShapeInv, JobRecords
<1>3. disk' = [disk EXCEPT !.tmp = f, !.bak = NoFile]
  BY <1>1 DEF write_tmp, Rewritten
<1>4. disk' \in Disks /\ disk'.tmp = f /\ disk'.bak = NoFile /\ disk'.main = disk.main /\ disk'.wal = disk.wal
  BY <1>2, <1>3, ConstantFiles DEF BaseInv, ShapeInv, Disks
<1>5. job' = [job EXCEPT !.at = "move"] /\ job \in JobRecords /\ job.at = "tmp"
  BY DEF write_tmp, BaseInv, ShapeInv
<1>6. job' \in JobRecords /\ job'.at = "move" /\ job'.kind = job.kind
  BY <1>5, JobAt DEF Writing, Replacing
<1>7. ~ handle' /\ UNCHANGED <<mem, journal, journaling, has_checkpoint, version, next_commit_version, header, active,
                              next_tx_id, commit, run, up, acked, started, unreplaced>>
  BY DEF write_tmp
<1>8. ShapeInv'
  BY <1>4, <1>6, <1>7 DEF BaseInv, ShapeInv
<1>9. PhaseInv'
  BY <1>5, <1>6, <1>7 DEF BaseInv, PhaseInv, Writing, Replacing
<1>10. PlaceInv'
  BY <1>2, <1>4, <1>5, <1>6, <1>7 DEF BaseInv, PhaseInv, PlaceInv
<1> QED  BY <1>1, <1>4, <1>8, <1>9, <1>10 DEF BaseInv

(* The renames. *)

LEMMA BaseMoveOld ==
    ASSUME BaseInv, rename_main_to_bak
    PROVE  /\ BaseInv' /\ disk'.wal = disk.wal /\ job.at = "move" /\ job'.at = "place" /\ job'.version = job.version
           /\ disk'.main = NoFile /\ disk'.bak = disk.main /\ disk'.tmp = disk.tmp
           /\ UNCHANGED <<memoryVars, commit, run, up, acked, started, unreplaced>>
<1>1. job' = [job EXCEPT !.at = "place"] /\ job.at = "move" /\ job \in JobRecords /\ disk \in Disks
  BY DEF rename_main_to_bak, BaseInv, ShapeInv
<1>2. disk.main \in Files /\ disk.bak \in Files /\ disk.tmp \in Files /\ NoFile \in Files
  BY <1>1, DiskFields, ConstantFiles
<1>3. disk' \in Disks /\ disk'.wal = disk.wal /\ (disk'.main = NoFile /\ disk'.bak = disk.main /\ disk'.tmp = disk.tmp)
  <2>1. disk' = [disk EXCEPT !.bak = disk.main, !.main = NoFile]
    BY DEF rename_main_to_bak
  <2> QED  BY <1>1, <1>2, <2>1 DEF Disks
<1>4. job' \in JobRecords /\ job'.at = "place" /\ job'.kind = job.kind /\ job'.version = job.version
  BY <1>1, JobAt DEF Writing, Replacing
<1>5. UNCHANGED <<memoryVars, commit, run, up, acked, started, unreplaced>>
  BY DEF rename_main_to_bak
<1>6. ShapeInv'
  BY <1>3, <1>4, <1>5 DEF memoryVars, BaseInv, ShapeInv
<1>7. PhaseInv'
  BY <1>1, <1>4, <1>5 DEF memoryVars, BaseInv, PhaseInv, Writing, Replacing
<1>8. PlaceInv'
  BY <1>1, <1>3, <1>4, <1>5 DEF memoryVars, rename_main_to_bak, BaseInv, PhaseInv, PlaceInv, Replacing
<1> QED  BY <1>1, <1>3, <1>4, <1>5, <1>6, <1>7, <1>8 DEF BaseInv

LEMMA BasePlaceNew ==
    ASSUME BaseInv, rename_tmp_to_main
    PROVE  /\ BaseInv' /\ disk'.wal = disk.wal /\ job.at = "place" /\ job'.at = "drop" /\ job'.version = job.version
           /\ disk'.main = disk.tmp /\ disk'.bak = disk.bak /\ disk'.tmp = NoFile
           /\ UNCHANGED <<memoryVars, commit, run, up, acked, started, unreplaced>>
<1>1. job' = [job EXCEPT !.at = "drop"] /\ job.at = "place" /\ job \in JobRecords /\ disk \in Disks
  BY DEF rename_tmp_to_main, BaseInv, ShapeInv
<1>2. disk.main \in Files /\ disk.bak \in Files /\ disk.tmp \in Files /\ NoFile \in Files
  BY <1>1, DiskFields, ConstantFiles
<1>3. disk' \in Disks /\ disk'.wal = disk.wal /\ (disk'.main = disk.tmp /\ disk'.bak = disk.bak /\ disk'.tmp = NoFile)
  <2>1. disk' = [disk EXCEPT !.main = disk.tmp, !.tmp = NoFile]
    BY DEF rename_tmp_to_main
  <2> QED  BY <1>1, <1>2, <2>1 DEF Disks
<1>4. job' \in JobRecords /\ job'.at = "drop" /\ job'.kind = job.kind /\ job'.version = job.version
  BY <1>1, JobAt DEF Writing, Replacing
<1>5. UNCHANGED <<memoryVars, commit, run, up, acked, started, unreplaced>>
  BY DEF rename_tmp_to_main
<1>6. ShapeInv'
  BY <1>3, <1>4, <1>5 DEF memoryVars, BaseInv, ShapeInv
<1>7. PhaseInv'
  BY <1>1, <1>4, <1>5 DEF memoryVars, BaseInv, PhaseInv, Writing, Replacing
<1>8. PlaceInv'
  BY <1>1, <1>3, <1>4, <1>5 DEF memoryVars, rename_tmp_to_main, BaseInv, PhaseInv, PlaceInv, Replacing
<1> QED  BY <1>1, <1>3, <1>4, <1>5, <1>6, <1>7, <1>8 DEF BaseInv

LEMMA BaseReplaceDirectly ==
    ASSUME BaseInv, replace_directly
    PROVE  /\ BaseInv' /\ disk'.wal = disk.wal /\ job.at = "move" /\ job'.at = "reopen" /\ job'.version = job.version
           /\ disk'.main = disk.tmp /\ disk'.bak = disk.bak /\ disk'.tmp = NoFile
           /\ UNCHANGED <<memoryVars, commit, run, up, acked, started, unreplaced>>
<1>1. job' = [job EXCEPT !.at = "reopen"] /\ job.at = "move" /\ job \in JobRecords /\ disk \in Disks
  BY DEF replace_directly, BaseInv, ShapeInv
<1>2. disk.main \in Files /\ disk.bak \in Files /\ disk.tmp \in Files /\ NoFile \in Files
  BY <1>1, DiskFields, ConstantFiles
<1>3. disk' \in Disks /\ disk'.wal = disk.wal /\ (disk'.main = disk.tmp /\ disk'.bak = disk.bak /\ disk'.tmp = NoFile)
  <2>1. disk' = [disk EXCEPT !.main = disk.tmp, !.tmp = NoFile]
    BY DEF replace_directly
  <2> QED  BY <1>1, <1>2, <2>1 DEF Disks
<1>4. job' \in JobRecords /\ job'.at = "reopen" /\ job'.kind = job.kind /\ job'.version = job.version
  BY <1>1, JobAt DEF Writing, Replacing
<1>5. UNCHANGED <<memoryVars, commit, run, up, acked, started, unreplaced>>
  BY DEF replace_directly
<1>6. ShapeInv'
  BY <1>3, <1>4, <1>5 DEF memoryVars, BaseInv, ShapeInv
<1>7. PhaseInv'
  BY <1>1, <1>4, <1>5 DEF memoryVars, BaseInv, PhaseInv, Writing, Replacing
<1>8. PlaceInv'
  BY <1>1, <1>3, <1>4, <1>5 DEF memoryVars, replace_directly, BaseInv, PhaseInv, PlaceInv, Replacing
<1> QED  BY <1>1, <1>3, <1>4, <1>5, <1>6, <1>7, <1>8 DEF BaseInv

LEMMA BaseMoveBack ==
    ASSUME BaseInv, rename_back
    PROVE  /\ BaseInv' /\ disk'.wal = disk.wal /\ job.at = "place" /\ job'.at = "move" /\ job'.version = job.version
           /\ disk' = disk \/ (disk'.main = disk.bak /\ disk'.bak = NoFile /\ disk'.tmp = disk.tmp)
           /\ UNCHANGED <<memoryVars, commit, run, up, acked, started, unreplaced>>
<1>1. job' = [job EXCEPT !.at = "move"] /\ job.at = "place" /\ job \in JobRecords /\ disk \in Disks
  BY DEF rename_back, BaseInv, ShapeInv
<1>2. disk.main \in Files /\ disk.bak \in Files /\ disk.tmp \in Files /\ NoFile \in Files
  BY <1>1, DiskFields, ConstantFiles
<1>3. disk' \in Disks /\ disk'.wal = disk.wal /\ (disk' = disk \/ (disk'.main = disk.bak /\ disk'.bak = NoFile /\ disk'.tmp = disk.tmp))
  <2>1. CASE disk' = disk
    BY <1>1, <2>1
  <2>2. CASE disk' = [disk EXCEPT !.main = disk.bak, !.bak = NoFile]
    BY <1>1, <1>2, <2>2 DEF Disks
  <2> QED  BY <2>1, <2>2 DEF rename_back
<1>4. job' \in JobRecords /\ job'.at = "move" /\ job'.kind = job.kind /\ job'.version = job.version
  BY <1>1, JobAt DEF Writing, Replacing
<1>5. UNCHANGED <<memoryVars, commit, run, up, acked, started, unreplaced>>
  BY DEF rename_back
<1>6. ShapeInv'
  BY <1>3, <1>4, <1>5 DEF memoryVars, BaseInv, ShapeInv
<1>7. PhaseInv'
  BY <1>1, <1>4, <1>5 DEF memoryVars, BaseInv, PhaseInv, Writing, Replacing
<1>8. PlaceInv'
  BY <1>1, <1>3, <1>4, <1>5 DEF memoryVars, rename_back, BaseInv, PhaseInv, PlaceInv, Replacing
<1> QED  BY <1>1, <1>3, <1>4, <1>5, <1>6, <1>7, <1>8 DEF BaseInv

LEMMA BaseDropBak ==
    ASSUME BaseInv, drop_bak
    PROVE  /\ BaseInv' /\ disk'.wal = disk.wal /\ disk'.main = disk.main /\ disk'.tmp = disk.tmp
           /\ disk'.bak \in {disk.bak, NoFile}
<1>1. PICK h : h = [version |-> job.version, chunk |-> 1]
  OBVIOUS
<1>2. Checkpointed(h) /\ handle' /\ job.at \in {"drop", "reopen"}
  BY <1>1 DEF drop_bak
<1>3. h \in Headers /\ h.chunk = 1
  BY <1>1 DEF BaseInv, ShapeInv, JobRecords, Headers
<1>4. disk' \in Disks /\ disk'.main = disk.main /\ disk'.tmp = disk.tmp /\ disk'.wal = disk.wal /\ disk'.bak \in {disk.bak, NoFile}
  <2>1. PICK f \in {disk.bak, NoFile} : disk' = [disk EXCEPT !.bak = f]
    BY DEF drop_bak
  <2>2. f \in Files /\ disk \in Disks
    BY DiskFields, ConstantFiles DEF BaseInv, ShapeInv
  <2> QED  BY <2>1, <2>2 DEF Disks
<1>5. /\ version' \in Nat /\ next_commit_version' \in Nat /\ version' <= next_commit_version'
      /\ job' \in JobRecords /\ job'.at = "clear" /\ job'.kind = job.kind
  BY <1>2, BaseCheckpointed
<1>6. header' = h /\ UNCHANGED <<mem, journal, journaling, active, next_tx_id, commit, run, up, acked, started, unreplaced>>
  BY <1>2 DEF drop_bak, Checkpointed
<1>7. ShapeInv'
  BY <1>3, <1>4, <1>5, <1>6 DEF BaseInv, ShapeInv
<1>8. PhaseInv'
  BY <1>2, <1>5, <1>6 DEF BaseInv, PhaseInv, Writing, Replacing
<1>9. PlaceInv'
  <2>1. disk.main # NoFile /\ Len(disk.main.chunks) = 1
    BY <1>2 DEF BaseInv, PlaceInv
  <2>2. header'.chunk <= Len(disk'.main.chunks) /\ disk'.main # NoFile
    BY <1>3, <1>4, <1>6, <2>1
  <2> QED  BY <1>2, <1>5, <1>6, <2>2 DEF PlaceInv
<1> QED  BY <1>4, <1>7, <1>8, <1>9 DEF BaseInv

\* What a crash may leave.
CutWal(d) == [d EXCEPT !.wal = SubSeq(@, 1, Len(@) - 1)]
EmptyWal(d) == [d EXCEPT !.wal = <<>>]

LEMMA CrashIs ==
    ASSUME BaseInv, NEW d \in CrashOutcomes
    PROVE  \/ d = disk
           \/ commit.at = "appended" /\ d = CutWal(disk)
           \/ job.at = "shadow" /\ ShadowWrite(disk, d, NewHeader)
           \/ job.at = "shadow" /\ ShadowWrite(disk, d, Torn) /\ started.torn < MaxTorn
           \/ job.at = "primary" /\ PrimaryWrite(disk, d, NewHeader)
           \/ job.at = "primary" /\ PrimaryWrite(disk, d, Torn) /\ started.torn < MaxTorn
           \/ job.at = "clear" /\ d = EmptyWal(disk)
<1>1. disk \in Disks
  BY DEF BaseInv, ShapeInv
<1>2. CASE commit.at = "appended"
  <2>1. job.at = "none"
    BY <1>2 DEF BaseInv, PhaseInv
  <2> QED  BY <1>2, <2>1 DEF CrashOutcomes, CutWal
<1>3. CASE job.at = "shadow"
  <2>1. commit.at # "appended"
    BY <1>3 DEF BaseInv, PhaseInv
  <2>2. PICK s \in HalfWritten(disk.main.shadow) : d = [disk EXCEPT !.main.shadow = s]
    BY <1>3, <2>1 DEF CrashOutcomes
  <2>3. s = disk.main.shadow \/ s = NewHeader \/ (s = Torn /\ started.torn < MaxTorn)
    BY <2>2 DEF HalfWritten
  <2> QED  BY <1>1, <1>3, <2>2, <2>3, SlotStays DEF ShadowWrite
<1>4. CASE job.at = "primary"
  <2>1. commit.at # "appended"
    BY <1>4 DEF BaseInv, PhaseInv
  <2>2. PICK s \in HalfWritten(disk.main.primary) : d = [disk EXCEPT !.main.primary = s]
    BY <1>4, <2>1 DEF CrashOutcomes
  <2>3. s = disk.main.primary \/ s = NewHeader \/ (s = Torn /\ started.torn < MaxTorn)
    BY <2>2 DEF HalfWritten
  <2> QED  BY <1>1, <1>4, <2>2, <2>3, SlotStays DEF PrimaryWrite
<1>5. CASE job.at = "clear"
  <2>1. commit.at # "appended"
    BY <1>5 DEF BaseInv, PhaseInv
  <2> QED  BY <1>5, <2>1 DEF CrashOutcomes, EmptyWal
<1>6. CASE commit.at # "appended" /\ job.at \notin {"shadow", "primary", "clear"}
  BY <1>6 DEF CrashOutcomes
<1> QED  BY <1>2, <1>3, <1>4, <1>5, <1>6

LEMMA LogOnly ==
    ASSUME NEW d \in Disks
    PROVE  /\ CutWal(d) \in Disks /\ CutWal(d).wal = SubSeq(d.wal, 1, Len(d.wal) - 1)
           /\ CutWal(d).main = d.main /\ CutWal(d).bak = d.bak /\ CutWal(d).tmp = d.tmp
           /\ EmptyWal(d) \in Disks /\ EmptyWal(d).wal = <<>>
           /\ EmptyWal(d).main = d.main /\ EmptyWal(d).bak = d.bak /\ EmptyWal(d).tmp = d.tmp
<1>1. PICK w : w = SubSeq(d.wal, 1, Len(d.wal) - 1) /\ w \in Seq(Records)
  BY DiskFields, CutLog
<1>2. CutWal(d) = [d EXCEPT !.wal = w]
  BY <1>1 DEF CutWal
<1>3. <<>> \in Seq(Records)
  OBVIOUS
<1>5. /\ CutWal(d) \in Disks /\ CutWal(d).wal = w
      /\ CutWal(d).main = d.main /\ CutWal(d).bak = d.bak /\ CutWal(d).tmp = d.tmp
  BY <1>1, <1>2 DEF Disks
<1>6. /\ EmptyWal(d) \in Disks /\ EmptyWal(d).wal = <<>>
      /\ EmptyWal(d).main = d.main /\ EmptyWal(d).bak = d.bak /\ EmptyWal(d).tmp = d.tmp
  BY <1>3 DEF EmptyWal, Disks
<1> QED  BY <1>1, <1>5, <1>6

LEMMA CrashKeeps ==
    ASSUME BaseInv, NEW d \in CrashOutcomes
    PROVE  /\ d \in Disks /\ d.main.chunks = disk.main.chunks /\ d.bak = disk.bak /\ d.tmp = disk.tmp
           /\ disk.main # NoFile => d.main # NoFile
<1>1. disk \in Disks
  BY DEF BaseInv, ShapeInv
<1>2. CASE d = disk
  BY <1>1, <1>2
<1>3. CASE d = CutWal(disk) \/ d = EmptyWal(disk)
  BY <1>1, <1>3, LogOnly
<1>4. CASE job.at = "shadow" /\ (ShadowWrite(disk, d, NewHeader) \/ ShadowWrite(disk, d, Torn))
  BY <1>4, SlotKeeps
<1>5. CASE job.at = "primary" /\ (PrimaryWrite(disk, d, NewHeader) \/ PrimaryWrite(disk, d, Torn))
  BY <1>5, SlotKeeps
<1> QED  BY <1>2, <1>3, <1>4, <1>5, CrashIs

LEMMA BaseCrash ==
    ASSUME BaseInv, crash
    PROVE  BaseInv'
<1>1. PICK d \in CrashOutcomes :
         /\ disk' = d
         /\ acked' = IF commit.at = "appended" /\ Len(d.wal) = Len(disk.wal)
                     THEN [k \in Keys |-> IF commit.changes[k] = NoChange THEN acked[k] ELSE commit.id]
                     ELSE acked
         /\ started' = started \/ started' = [started EXCEPT !.torn = @ + 1]
  BY DEF crash
<1>2. /\ disk' \in Disks /\ disk'.main.chunks = disk.main.chunks /\ disk'.bak = disk.bak
      /\ disk.main # NoFile => disk'.main # NoFile
  BY <1>1, CrashKeeps
<1>3. acked' \in [Keys -> Nat]
  BY <1>1 DEF BaseInv, ShapeInv, CommitRecords
<1>4. started' \in Counters
  BY <1>1 DEF BaseInv, ShapeInv, Counters
<1>5. ~ up' /\ commit' = NoCommit /\ job' = NoJob /\ UNCHANGED <<memoryVars, run, unreplaced>>
  BY DEF crash
<1>6. ShapeInv'
  BY <1>2, <1>3, <1>4, <1>5, Idle DEF memoryVars, BaseInv, ShapeInv
<1>7. PhaseInv'
  BY <1>5, Idle DEF PhaseInv, Writing, Replacing
<1>8. PlaceInv'
  BY <1>2, <1>5, Idle DEF memoryVars, BaseInv, PlaceInv
<1> QED  BY <1>6, <1>7, <1>8 DEF BaseInv

LEMMA OpenedIs ==
    ASSUME NEW d \in Disks
    PROVE  /\ MainFile(d) \in Files
           /\ MainFile(d) # NoFile
           /\ d.main # NoFile => MainFile(d) = d.main
           /\ d.main = NoFile /\ d.bak # NoFile => MainFile(d) = d.bak
  BY DiskFields, ConstantFiles DEF MainFile

\* RecoveredMap and RecoveredVersion of any files that open accepts.
LEMMA RecoveredIs ==
    ASSUME NEW d \in Disks, Openable(d)
    PROVE  /\ RecoveredMap(d) \in Maps /\ RecoveredVersion(d) \in Nat /\ WalChanges(d.wal) \in Maps
           /\ ChosenHeader(MainFile(d)) \in Headers
           /\ ChosenHeader(MainFile(d)).chunk <= Len(MainFile(d).chunks)
           /\ ChosenHeader(MainFile(d)).version <= RecoveredVersion(d)
<1>1. PICK f, h : f = MainFile(d) /\ h = ChosenHeader(f) /\ f \in Files /\ h \in Headers /\ h # Torn /\ h \in {f.primary, f.shadow}
  BY OpenedIs, ChosenIs DEF Openable
<1>2. h.chunk <= Len(f.chunks) /\ h.chunk \in Nat /\ h.version \in Nat /\ Len(f.chunks) \in Nat
  BY <1>1, FileFields DEF Points, Headers
<1>3. h.chunk \in 0 .. Len(f.chunks)
  BY <1>2
<1>4. RecoveredMap(d) = Overlay(WalChanges(d.wal), ChainData(f, h.chunk))
  BY <1>1 DEF RecoveredMap
<1>5. WalChanges(d.wal) \in Maps /\ ChainData(f, h.chunk) \in Maps
  BY <1>1, <1>3, WalMaps, ChainMaps, DiskFields
<1>6. RecoveredVersion(d) \in Nat /\ h.version <= RecoveredVersion(d)
  BY <1>1, <1>2, VersionReaches, DiskFields
<1> QED  BY <1>1, <1>2, <1>4, <1>5, <1>6, OverlayMaps

LEMMA BaseOpen ==
    ASSUME BaseInv, open
    PROVE  /\ BaseInv' /\ disk'.main = MainFile(disk) /\ disk'.wal = disk.wal /\ disk'.tmp = disk.tmp
           /\ disk'.bak \in {disk.bak, NoFile}
<1>1. PICK f, h : f = MainFile(disk) /\ h = ChosenHeader(f)
  OBVIOUS
<1>2. disk \in Disks /\ Openable(disk)
  BY DEF open, BaseInv, ShapeInv
<1>3. f \in Files /\ f # NoFile /\ NoFile \in Files /\ disk.bak \in Files
  BY <1>1, <1>2, OpenedIs, ConstantFiles, DiskFields
<1>4. /\ disk' \in Disks /\ disk'.main = f /\ disk'.wal = disk.wal /\ disk'.tmp = disk.tmp
      /\ disk'.bak \in {disk.bak, NoFile}
  <2>1. PICK g \in {disk.bak, NoFile} : disk' = [disk EXCEPT !.main = f, !.bak = g]
    BY <1>1 DEF open
  <2> QED  BY <1>2, <1>3, <2>1 DEF Disks
<1>5. /\ mem' = RecoveredMap(disk) /\ journal' = WalChanges(disk.wal)
      /\ version' = RecoveredVersion(disk) /\ next_commit_version' = version' /\ header' = h
      /\ active' = {} /\ next_tx_id' = 1 /\ commit' = NoCommit /\ job' = NoJob /\ run' = run + 1
      /\ UNCHANGED <<acked, started, unreplaced>>
  BY <1>1 DEF open
<1>6. mem' \in Maps /\ journal' \in Maps /\ version' \in Nat /\ header' \in Headers /\ header'.chunk <= Len(disk'.main.chunks)
  BY <1>1, <1>2, <1>4, <1>5, RecoveredIs
<1>7. run' \in Nat /\ version' <= version'
  BY <1>5, <1>6 DEF BaseInv, ShapeInv
<1>8. ShapeInv'
  BY <1>4, <1>5, <1>6, <1>7, Idle DEF BaseInv, ShapeInv
<1>9. PhaseInv'
  BY <1>5, Idle DEF PhaseInv, Writing, Replacing
<1>10. PlaceInv'
  BY <1>3, <1>4, <1>5, <1>6, Idle DEF PlaceInv
<1> QED  BY <1>1, <1>4, <1>8, <1>9, <1>10 DEF BaseInv

LEMMA BaseStep == BaseInv /\ [Next]_vars => BaseInv'
<1> SUFFICES ASSUME BaseInv, [Next]_vars PROVE BaseInv'
  OBVIOUS
<1>1. CASE UNCHANGED vars
  BY <1>1 DEF vars, memoryVars, BaseInv, ShapeInv, PhaseInv, PlaceInv
<1>2. ASSUME NEW t \in 1 .. MaxTx, NEW k \in Keys, put(t, k) \/ undo(t, k) PROVE BaseInv'
  BY <1>2, BaseMemory
<1>3. ASSUME NEW t \in 1 .. MaxTx, finish(t) \/ commit_append(t) PROVE BaseInv'
  BY <1>3, BaseLifecycle, BaseCommitAppend
<1>4. CASE begin
  BY <1>4, BaseLifecycle
<1>5. CASE commit_sync \/ commit_sync_fails
  BY <1>5, BaseCommitEnds
<1>6. CASE checkpoint_begin \/ write_chunk \/ write_shadow \/ write_primary \/ write_nothing \/ checkpoint_fails
  BY <1>6, BaseCheckpointBegin, BaseWriteChunk, BaseWriteShadow, BaseWritePrimary, BaseWriteNothing, BaseCheckpointFails
<1>7. CASE clear_wal \/ clear_wal_fails \/ write_tmp_fails \/ replace_fails
  BY <1>7, BaseClear
<1>8. ASSUME NEW kind \in {"compact", "reclaim"}, rewrite_begin(kind) PROVE BaseInv'
  BY <1>8, BaseRewriteBegin
<1>9. CASE write_tmp \/ rename_main_to_bak \/ rename_tmp_to_main \/ replace_directly \/ rename_back \/ drop_bak
  BY <1>9, BaseWriteTmp, BaseMoveOld, BasePlaceNew, BaseReplaceDirectly, BaseMoveBack, BaseDropBak
<1>10. CASE crash \/ open
  BY <1>10, BaseCrash, BaseOpen
<1> QED  BY <1>1, <1>2, <1>3, <1>4, <1>5, <1>6, <1>7, <1>8, <1>9, <1>10 DEF Next

----------------------------------------------------------------------------
(* One header slot of every file is readable. *)

LEMMA FileKept ==
    ASSUME NEW f, NEW g, NEW n \in Nat, NEW m \in Nat, n <= m, FileInv(f, n), f # NoFile,
           g.primary \in {f.primary, NewHeader}, g.shadow \in {f.shadow, NewHeader}, NewHeader # Torn
    PROVE  FileInv(g, m)
  BY DEF FileInv, Readable

LEMMA FileLater ==
    ASSUME NEW f, NEW n \in Nat, NEW m \in Nat, n <= m, FileInv(f, n)
    PROVE  FileInv(f, m)
  BY DEF FileInv

LEMMA OpenInit == Init => OpenInv
<1> SUFFICES ASSUME Init PROVE OpenInv
  OBVIOUS
<1>1. disk.main = NewFile /\ disk.bak = NoFile /\ disk.tmp = NoFile /\ job.at = "none"
  BY Idle DEF Init
<1> QED  BY <1>1, ConstantFiles DEF OpenInv, FileInv

\* A crash tears at most one slot, and the other one is readable then.
LEMMA OpenCrash ==
    ASSUME MaxTorn <= 1, BaseInv, OpenInv, NEW d \in CrashOutcomes, NEW n \in Nat,
           \/ n = started.torn + 1
           \/ /\ n = started.torn /\ ~ (job.at = "shadow" /\ d.main.shadow = Torn)
              /\ ~ (job.at = "primary" /\ d.main.primary = Torn)
    PROVE  FileInv(d.main, n)
<1>1. disk \in Disks /\ started.torn \in Nat /\ started.torn <= n
  BY DEF BaseInv, ShapeInv, Counters
<1>2. CASE d.main = disk.main
  BY <1>1, <1>2, FileLater DEF OpenInv
<1>3. CASE job.at = "shadow" /\ ShadowWrite(disk, d, NewHeader)
  <2>1. disk.main # NoFile /\ NewHeader # Torn /\ NewHeader \in Headers /\ Points(NewHeader, disk.main.chunks)
    BY <1>3, HeaderWritten DEF BaseInv, PhaseInv, PlaceInv
  <2>2. d.main.primary = disk.main.primary /\ d.main.shadow = NewHeader
    BY <1>1, <1>3, <2>1, ShadowWritten
  <2>3. FileInv(disk.main, started.torn)
    BY DEF OpenInv
  <2> QED  BY <1>1, <2>1, <2>2, <2>3, FileKept
<1>4. CASE job.at = "primary" /\ PrimaryWrite(disk, d, NewHeader)
  <2>1. disk.main # NoFile /\ NewHeader # Torn /\ NewHeader \in Headers /\ Points(NewHeader, disk.main.chunks)
    BY <1>4, HeaderWritten DEF BaseInv, PhaseInv, PlaceInv
  <2>2. d.main.shadow = disk.main.shadow /\ d.main.primary = NewHeader
    BY <1>1, <1>4, <2>1, PrimaryWritten
  <2>3. FileInv(disk.main, started.torn)
    BY DEF OpenInv
  <2> QED  BY <1>1, <2>1, <2>2, <2>3, FileKept
<1>5. Torn \in Headers /\ Points(Torn, disk.main.chunks)
  BY DEF Torn, Headers, Points
<1>6. ASSUME started.torn < MaxTorn, job.at \in {"shadow", "primary"}
      PROVE  started.torn = 0 /\ disk.main.primary # Torn
  <2>1. started.torn = 0
    BY <1>1, <1>6, BoundsAssumption
  <2>2. disk.main # NoFile
    BY <1>6 DEF BaseInv, PhaseInv, PlaceInv
  <2> QED  BY <2>1, <2>2 DEF OpenInv, FileInv
<1>7. CASE job.at = "shadow" /\ ShadowWrite(disk, d, Torn) /\ started.torn < MaxTorn
  <2>1. d.main.primary = disk.main.primary /\ disk.main.primary # Torn
    BY <1>1, <1>5, <1>6, <1>7, ShadowWritten
  <2> QED  BY <2>1 DEF FileInv, Readable
<1>8. CASE job.at = "primary" /\ PrimaryWrite(disk, d, Torn) /\ started.torn < MaxTorn
  <2>1. d.main.primary = Torn /\ d.main.shadow = disk.main.shadow /\ disk.main.shadow # Torn
    BY <1>1, <1>5, <1>8, PrimaryWritten DEF OpenInv
  <2>2. n # 0
    BY <1>1, <1>8, <2>1
  <2> QED  BY <2>1, <2>2 DEF FileInv, Readable
<1> QED  BY <1>1, <1>2, <1>3, <1>4, <1>7, <1>8, CrashIs, LogOnly

\* Nobody writes a header.
LEMMA OpenKept ==
    ASSUME OpenInv, UNCHANGED <<disk.main, disk.bak, disk.tmp, started.torn>>, job'.at \in {job.at, "none", "chunk", "tmp", "clear"}
    PROVE  OpenInv'
  BY DEF OpenInv

LEMMA OpenStep ==
    ASSUME MaxTorn <= 1, BaseInv, OpenInv, [Next]_vars
    PROVE  OpenInv'
<1>1. disk \in Disks /\ started.torn \in Nat /\ started \in Counters /\ started.torn <= started.torn
  BY DEF BaseInv, ShapeInv, Counters
<1>2. FileInv(disk.main, started.torn) /\ FileInv(disk.bak, started.torn) /\ FileInv(disk.tmp, started.torn)
  BY DEF OpenInv
<1>3. CASE UNCHANGED vars
  BY <1>3 DEF vars, OpenInv
<1>4. ASSUME NEW t \in 1 .. MaxTx, NEW k \in Keys, put(t, k) \/ undo(t, k) PROVE OpenInv'
  BY <1>4 DEF put, undo, OpenInv
<1>5. ASSUME begin \/ \E t \in 1 .. MaxTx : finish(t) PROVE OpenInv'
  BY <1>5 DEF begin, finish, OpenInv
<1>6. ASSUME NEW t \in 1 .. MaxTx, commit_append(t) PROVE OpenInv'
  <2>1. UNCHANGED <<disk.main, disk.bak, disk.tmp, job>>
    BY <1>6, BaseCommitAppend DEF commit_append
  <2>2. started'.torn = started.torn
    BY <1>1, <1>6 DEF commit_append, Counters
  <2> QED  BY <2>1, <2>2, OpenKept
<1>7. CASE commit_sync
  BY <1>7 DEF commit_sync, OpenInv
<1>8. CASE commit_sync_fails
  <2>1. disk' = CutWal(disk) /\ UNCHANGED <<job, started>>
    BY <1>8 DEF commit_sync_fails, CutWal
  <2> QED  BY <1>1, <2>1, LogOnly DEF OpenInv
<1>9. CASE checkpoint_begin
  <2>1. started'.torn = started.torn /\ disk' = disk
    BY <1>1, <1>9 DEF checkpoint_begin, Counters
  <2> QED  BY <1>9, <2>1, BaseCheckpointBegin, OpenKept
<1>10. CASE write_chunk
  <2>1. /\ disk'.main.primary = disk.main.primary /\ disk'.main.shadow = disk.main.shadow
    BY <1>10, BaseWriteChunk
  <2>2. disk.main # NoFile /\ UNCHANGED started
    BY <1>10 DEF write_chunk, BaseInv, PlaceInv
  <2>3. FileInv(disk'.main, started.torn)
    BY <1>2, <2>1, <2>2 DEF FileInv, Readable
  <2>4. disk'.bak = disk.bak /\ disk'.tmp = disk.tmp
    BY <1>1, <1>10 DEF write_chunk, Disks
  <2>5. job'.at = "shadow"
    BY <1>10, JobAt DEF write_chunk, BaseInv, ShapeInv, Writing
  <2> QED  BY <1>2, <2>2, <2>3, <2>4, <2>5 DEF OpenInv
<1>11. CASE write_shadow
  <2>1. ShadowWrite(disk, disk', NewHeader) /\ job.at = "shadow" /\ UNCHANGED started /\ disk.main # NoFile
    BY <1>11, BaseWriteShadow DEF write_shadow, BaseInv, PhaseInv, PlaceInv
  <2>2. NewHeader \in Headers /\ NewHeader # Torn /\ Points(NewHeader, disk.main.chunks)
    BY <2>1, HeaderWritten
  <2>3. /\ disk'.main.primary = disk.main.primary /\ disk'.main.shadow = NewHeader
        /\ disk'.bak = disk.bak /\ disk'.tmp = disk.tmp
    BY <1>1, <2>1, <2>2, ShadowWritten
  <2>4. FileInv(disk'.main, started.torn)
    BY <1>1, <1>2, <2>1, <2>2, <2>3, FileKept
  <2> QED  BY <1>2, <2>1, <2>2, <2>3, <2>4 DEF OpenInv
<1>12. CASE write_primary
  <2>1. PrimaryWrite(disk, disk', NewHeader) /\ job.at = "primary" /\ UNCHANGED started /\ disk.main # NoFile
    BY <1>12, BaseWritePrimary DEF write_primary, BaseInv, PhaseInv, PlaceInv
  <2>2. NewHeader \in Headers /\ NewHeader # Torn /\ Points(NewHeader, disk.main.chunks)
    BY <2>1, HeaderWritten
  <2>3. /\ disk'.main.shadow = disk.main.shadow /\ disk'.main.primary = NewHeader
        /\ disk'.bak = disk.bak /\ disk'.tmp = disk.tmp
    BY <1>1, <2>1, <2>2, PrimaryWritten
  <2>4. FileInv(disk'.main, started.torn)
    BY <1>1, <1>2, <2>1, <2>2, <2>3, FileKept
  <2>5. job'.at = "clear"
    BY <1>12, BaseCheckpointed DEF write_primary
  <2> QED  BY <1>2, <2>1, <2>3, <2>4, <2>5 DEF OpenInv
<1>13. CASE write_nothing
  <2>1. job'.at = "clear" /\ UNCHANGED <<disk, started>>
    BY <1>13, BaseCheckpointed DEF write_nothing
  <2> QED  BY <2>1, OpenKept
<1>14. CASE checkpoint_fails
  <2>1. job'.at = "none" /\ UNCHANGED started /\ disk.main # NoFile
    BY <1>14, Idle DEF checkpoint_fails, BaseInv, PlaceInv
  <2>2. CASE UNCHANGED disk
    BY <2>1, <2>2, OpenKept
  <2>3. CASE ~ UNCHANGED disk
    <3>1. job.at \in {"shadow", "primary"} /\ (ShadowWrite(disk, disk', NewHeader) \/ PrimaryWrite(disk, disk', NewHeader))
      BY <1>14, <2>3, BaseCheckpointFails
    <3>2. NewHeader \in Headers /\ NewHeader # Torn /\ Points(NewHeader, disk.main.chunks)
      BY <3>1, HeaderWritten
    <3>3. /\ disk'.main.primary \in {disk.main.primary, NewHeader} /\ disk'.main.shadow \in {disk.main.shadow, NewHeader}
          /\ disk'.bak = disk.bak /\ disk'.tmp = disk.tmp
      BY <1>1, <3>1, <3>2, ShadowWritten, PrimaryWritten
    <3>4. FileInv(disk'.main, started.torn)
      BY <1>1, <1>2, <2>1, <3>2, <3>3, FileKept
    <3> QED  BY <1>2, <2>1, <3>3, <3>4 DEF OpenInv
  <2> QED  BY <2>2, <2>3
<1>15. CASE clear_wal
  <2>1. disk' = EmptyWal(disk) /\ UNCHANGED started /\ job'.at = "none"
    BY <1>15, Idle DEF clear_wal, EmptyWal
  <2> QED  BY <1>1, <2>1, LogOnly, OpenKept
<1>16. CASE clear_wal_fails \/ write_tmp_fails \/ replace_fails
  BY <1>16, Idle, OpenKept DEF clear_wal_fails, write_tmp_fails, replace_fails
<1>17. ASSUME NEW kind \in {"compact", "reclaim"}, rewrite_begin(kind) PROVE OpenInv'
  <2>1. started'.torn = started.torn /\ disk' = disk
    BY <1>1, <1>17 DEF rewrite_begin, Counters
  <2> QED  BY <1>17, <2>1, BaseRewriteBegin, OpenKept
<1>18. CASE write_tmp
  <2>1. PICK f : f = Rewritten(job.version, job.data)
    OBVIOUS
  <2>2. f.primary # Torn
    BY <2>1, RewrittenIs DEF BaseInv, ShapeInv, JobRecords
  <2>3. disk'.tmp = f /\ disk'.bak = NoFile /\ disk'.main = disk.main /\ UNCHANGED started
    BY <1>18, <2>1, BaseWriteTmp DEF write_tmp
  <2>4. job'.at = "move"
    BY <1>18, JobAt DEF write_tmp, BaseInv, ShapeInv, Replacing
  <2> QED  BY <1>2, <2>2, <2>3, <2>4 DEF OpenInv, FileInv, Readable
<1>19. CASE rename_main_to_bak
  BY <1>2, <1>19, BaseMoveOld DEF OpenInv, FileInv
<1>20. CASE rename_tmp_to_main
  BY <1>2, <1>20, BasePlaceNew DEF OpenInv, FileInv
<1>21. CASE replace_directly
  BY <1>2, <1>21, BaseReplaceDirectly DEF OpenInv, FileInv
<1>22. CASE rename_back
  BY <1>2, <1>22, BaseMoveBack DEF OpenInv, FileInv
<1>23. CASE drop_bak
  <2>1. job'.at = "clear" /\ UNCHANGED started
    BY <1>23, BaseCheckpointed DEF drop_bak
  <2> QED  BY <1>2, <1>23, <2>1, BaseDropBak DEF OpenInv, FileInv
<1>24. CASE crash
  <2>1. PICK d \in CrashOutcomes :
           /\ disk' = d
           /\ started' = IF \/ job.at = "shadow" /\ d.main.shadow = Torn
                            \/ job.at = "primary" /\ d.main.primary = Torn
                         THEN [started EXCEPT !.torn = @ + 1] ELSE started
    BY <1>24 DEF crash
  <2>2. PICK n : n = started'.torn /\ n \in Nat /\ started.torn <= n
             /\ \/ n = started.torn + 1
                \/ /\ n = started.torn /\ ~ (job.at = "shadow" /\ d.main.shadow = Torn)
                   /\ ~ (job.at = "primary" /\ d.main.primary = Torn)
    BY <1>1, <2>1 DEF Counters
  <2>3. FileInv(d.main, n)
    BY <2>2, OpenCrash
  <2>4. d.bak = disk.bak /\ d.tmp = disk.tmp
    BY CrashKeeps
  <2>5. FileInv(disk.bak, n) /\ FileInv(disk.tmp, n)
    BY <1>1, <1>2, <2>2, FileLater
  <2>6. job'.at = "none"
    BY <1>24, Idle DEF crash
  <2> QED  BY <2>1, <2>2, <2>3, <2>4, <2>5, <2>6 DEF OpenInv
<1>25. CASE open
  <2>1. FileInv(MainFile(disk), started.torn)
    BY <1>2, ConstantFiles DEF MainFile, FileInv
  <2>2. job'.at = "none" /\ UNCHANGED started
    BY <1>25, Idle DEF open
  <2> QED  BY <1>2, <1>25, <2>1, <2>2, BaseOpen DEF OpenInv, FileInv
<1> QED  BY <1>3, <1>4, <1>5, <1>6, <1>7, <1>8, <1>9, <1>10, <1>11, <1>12, <1>13, <1>14, <1>15, <1>16, <1>17, <1>18,
            <1>19, <1>20, <1>21, <1>22, <1>23, <1>24, <1>25 DEF Next

LEMMA OpenMeans ==
    ASSUME MaxTorn <= 1, BaseInv, OpenInv
    PROVE  AlwaysOpenable
<1> SUFFICES ASSUME NEW d \in CrashOutcomes PROVE Openable(d) /\ (unreplaced \/ d.main # NoFile \/ d.bak # NoFile)
  BY DEF AlwaysOpenable
<1>1. d \in Disks /\ d.bak = disk.bak /\ (disk.main # NoFile => d.main # NoFile)
  BY CrashKeeps
<1>2. PICK n \in Nat : n = started.torn + 1
  BY DEF BaseInv, ShapeInv, Counters
<1>3. FileInv(d.main, n)
  BY <1>2, OpenCrash
<1>4. FileInv(d.bak, n)
  BY <1>1, <1>2, FileLater DEF OpenInv, BaseInv, ShapeInv, Counters
<1>5. Readable(MainFile(d)) /\ MainFile(d) \in Files
  BY <1>1, <1>3, <1>4, ConstantFiles, OpenedIs DEF MainFile, FileInv
<1>6. Openable(d)
  BY <1>5, ChosenIs DEF Openable
<1> QED  BY <1>1, <1>6 DEF BaseInv, PlaceInv

----------------------------------------------------------------------------
(* Good files stay good. *)

LEMMA HoldsAnyway ==
    ASSUME NEW f, NEW h, NEW wc, NEW a, Holds(f, h, Unchanged, a)
    PROVE  Holds(f, h, wc, a)
  BY ConstantMaps DEF Holds

\* Only the chunks of the file count.
LEMMA HoldsSame ==
    ASSUME NEW f, NEW g, f.chunks = g.chunks, NEW h, NEW wc, NEW a, Holds(f, h, wc, a)
    PROVE  Holds(g, h, wc, a)
<1>1. \A c : ChainData(f, c) = ChainData(g, c)
  BY ChainIs
<1> QED  BY <1>1 DEF Holds

LEMMA TornHolds ==
    ASSUME NEW f, NEW wc, NEW a
    PROVE  Holds(f, Torn, wc, a)
  BY DEF Holds

LEMMA HoldsGrows ==
    ASSUME NEW f \in Files, NEW g \in Files, NEW x \in Chunks, g.chunks = Append(f.chunks, x),
           NEW h \in Headers, NEW wc, NEW a, Holds(f, h, wc, a)
    PROVE  Holds(g, h, wc, a)
<1> SUFFICES ASSUME h # Torn
             PROVE  /\ h.chunk <= Len(g.chunks)
                    /\ \A k \in Keys : /\ wc[k] = NoChange => ChainData(g, h.chunk)[k].val = a[k]
                                       /\ ChainData(g, h.chunk)[k].ver <= h.version
  BY DEF Holds
<1>1. PICK c, n : c = h.chunk /\ n = Len(f.chunks) /\ c \in Nat /\ n \in Nat /\ c <= n
  BY FileFields DEF Headers, Holds
<1>2. Len(g.chunks) = n + 1
  BY <1>1, AppendIs, FileFields
<1>3. c \in 0 .. Len(f.chunks) /\ c <= n + 1
  BY <1>1
<1>4. ChainData(g, c) = ChainData(f, c)
  BY <1>3, ChainGrows
<1> QED  BY <1>1, <1>2, <1>3, <1>4 DEF Holds

\* The chunk of a checkpoint: the whole map, or the changes on top of a chunk.
LEMMA ChunkHolds ==
    ASSUME NEW f \in Files, NEW g \in Files, NEW x \in Chunks, g.chunks = Append(f.chunks, x),
           NEW a \in [Keys -> Nat], NEW v \in Nat, NEW h \in Headers, h.chunk = Len(g.chunks), v < h.version,
           x.previous <= Len(f.chunks),
           \/ x.full /\ Full(x.data, a, v)
           \/ /\ ~ x.full /\ Delta(x.data, a, v)
              /\ Behind(ChainData(f, x.previous), x.data, a, v)
    PROVE  Holds(g, h, Unchanged, a)
<1>1. PICK n, p, m : n = Len(f.chunks) /\ p = x.previous /\ m = x.data /\ n \in Nat /\ p \in Nat /\ p <= n /\ m \in Maps
  BY FileFields DEF Chunks
<1>2. Len(g.chunks) = n + 1 /\ g.chunks[n + 1] = x
  BY <1>1, AppendIs, FileFields
<1>3. n + 1 \in 0 .. Len(g.chunks) /\ p \in 0 .. Len(f.chunks) /\ n + 1 # 0
  BY <1>1, <1>2
<1>4. PICK y : y = ChainData(g, n + 1) /\ y \in Maps
  BY <1>3, ChainMaps
<1>5. ASSUME NEW k \in Keys PROVE y[k].val = a[k] /\ y[k].ver <= v
  <2>1. CASE x.full /\ Full(x.data, a, v)
    <3>1. y = m
      BY <1>1, <1>2, <1>3, <1>4, <2>1, ChainValue
    <3> QED  BY <1>1, <2>1, <3>1 DEF Full
  <2>2. CASE ~ x.full /\ Delta(x.data, a, v) /\ Behind(ChainData(f, x.previous), x.data, a, v)
    <3>1. ChainData(g, p) = ChainData(f, p)
      BY <1>3, ChainGrows
    <3>2. y = Overlay(m, ChainData(f, p))
      BY <1>1, <1>2, <1>3, <1>4, <2>2, <3>1, ChainValue
    <3> QED  BY <1>1, <2>2, <3>2, OverlayIs DEF Delta, Behind
  <2> QED  BY <2>1, <2>2
<1>6. ASSUME NEW k \in Keys PROVE y[k].ver <= h.version
  <2>1. y[k].ver \in Nat /\ h.version \in Nat
    BY <1>4 DEF Maps, Entries, Headers
  <2> QED  BY <1>5, <2>1
<1>7. h.chunk = n + 1 /\ h.chunk <= Len(g.chunks)
  BY <1>1, <1>2
<1> QED  BY <1>4, <1>5, <1>6, <1>7 DEF Holds

LEMMA RewrittenHolds ==
    ASSUME NEW v \in Nat, NEW m \in Maps, NEW a, Full(m, a, v)
    PROVE  GoodFile(Rewritten(v, m), Unchanged, a)
<1>1. PICK f, h : f = Rewritten(v, m) /\ h = [version |-> v, chunk |-> 1]
  OBVIOUS
<1>2. h.version = v /\ h.chunk = 1
  BY <1>1
<1>3. Len(f.chunks) = 1 /\ f.primary = h /\ f.shadow = h /\ ChainData(f, 1) = m
  BY <1>1, RewrittenIs
<1>4. h.chunk <= Len(f.chunks)
  BY <1>2, <1>3
<1>5. Holds(f, h, Unchanged, a)
  BY <1>2, <1>3, <1>4 DEF Holds, Full
<1> QED  BY <1>1, <1>3, <1>5 DEF GoodFile

\* Later versions.
LEMMA LaterVersion ==
    ASSUME NEW m \in Maps, NEW a, NEW v \in Nat, NEW w \in Nat, v <= w
    PROVE  /\ Full(m, a, v) => Full(m, a, w)
           /\ Delta(m, a, v) => Delta(m, a, w)
<1>1. \A k \in Keys : m[k].ver \in Nat
  BY DEF Maps, Entries
<1>2. \A k \in Keys : m[k].ver <= v => m[k].ver <= w
  BY <1>1
<1> QED  BY <1>2 DEF Full, Delta

LEMMA EmptyDelta ==
    ASSUME NEW a, NEW v
    PROVE  Delta(Unchanged, a, v)
  BY ConstantMaps DEF Delta

LEMMA DeltaOver ==
    ASSUME NEW m, NEW n, NEW a, NEW v, Delta(m, a, v), Delta(n, a, v)
    PROVE  Delta(Overlay(m, n), a, v)
  BY OverlayIs DEF Delta

LEMMA EmptyLog ==
    ASSUME NEW a
    PROVE  GoodLog(<<>>, a)
  BY NothingLogged, ConstantMaps DEF GoodLog

----------------------------------------------------------------------------
(* What was acknowledged is on disk. *)

LEMMA SoundInit == Init => SoundInv
<1> SUFFICES ASSUME Init PROVE SoundInv
  OBVIOUS
<1>1. disk.main = NewFile /\ disk.wal = <<>> /\ commit.at = "none" /\ job.at = "none" /\ MainFile(disk) = NewFile
  BY Idle, ConstantFiles DEF Init, MainFile
<1>2. ASSUME NEW k \in Keys PROVE acked[k] = 0 /\ mem[k].val = 0 /\ mem[k].ver = 0 /\ version = 0
  BY DEF Init, Absent
<1>3. DiskInv
  <2>1. NoHeader.chunk = 0 /\ NoHeader.version = 0 /\ Len(NewFile.chunks) = 0
    BY ConstantFiles DEF NoHeader
  <2>2. ChainData(NewFile, 0) = [k \in Keys |-> Absent]
    <3>1. 0 \in 0 .. Len(NewFile.chunks)
      BY <2>1
    <3> QED  BY <3>1, ConstantFiles, ChainValue
  <2>3. \A k \in Keys : ChainData(NewFile, 0)[k].val = 0 /\ ChainData(NewFile, 0)[k].ver = 0
    BY <2>2 DEF Absent
  <2>4. Holds(NewFile, NoHeader, Unchanged, acked)
    BY <1>2, <2>1, <2>3 DEF Holds
  <2>5. Holds(NewFile, Torn, Unchanged, acked)
    BY TornHolds
  <2>6. GoodFile(NewFile, Unchanged, acked)
    BY <2>4, <2>5, ConstantFiles DEF GoodFile
  <2>7. Settled = <<>>
    BY <1>1 DEF Settled
  <2> QED  BY <1>1, <2>6, <2>7, NothingLogged, EmptyLog DEF DiskInv
<1>4. MemInv
  <2>1. Full(mem, acked, version)
    BY <1>2 DEF Full
  <2> QED  BY <2>1, EmptyDelta DEF Init, MemInv
<1>5. CommitInv /\ HeaderInv /\ JobInv
  BY <1>1 DEF Init, CommitInv, HeaderInv, JobInv, Writing, Replacing
<1> QED  BY <1>3, <1>4, <1>5 DEF SoundInv

LEMMA SoundLifecycle ==
    ASSUME SoundInv, UNCHANGED vars \/ begin \/ \E t \in 1 .. MaxTx : finish(t)
    PROVE  SoundInv'
<1>1. UNCHANGED <<mem, journal, journaling, has_checkpoint, version, handle, header, commit, job, up, disk, acked>>
  BY DEF vars, memoryVars, begin, finish
<1> QED  BY <1>1 DEF SoundInv, DiskInv, CommitInv, MemInv, HeaderInv, JobInv, Settled, Pending, NewHeader

LEMMA SoundMemory ==
    ASSUME BaseInv, SoundInv, NEW t \in 1 .. MaxTx, NEW k \in Keys, put(t, k) \/ undo(t, k)
    PROVE  SoundInv'
<1>1. PICK e \in Entries : Store(k, e) /\ e.val = mem[k].val /\ e.ver = mem[k].ver /\ e # NoChange
  BY StoredEntry
<1>2. /\ up
      /\ UNCHANGED <<journaling, has_checkpoint, version, next_commit_version, handle, header, active, next_tx_id, commit, job,
                     run, up, disk, acked, started, unreplaced>>
  BY DEF put, undo
<1>3. DiskInv' /\ CommitInv' /\ JobInv'
  BY <1>2 DEF SoundInv, DiskInv, CommitInv, JobInv, Settled, NewHeader
<1>4. mem \in Maps /\ journal \in Maps
  BY DEF BaseInv, ShapeInv
<1>5. \A i \in Keys : mem'[i].val = mem[i].val /\ mem'[i].ver = mem[i].ver
  BY <1>1, <1>4 DEF Store, Maps
<1>6. Full(mem', acked', version') /\ Full(mem, acked, version)
  BY <1>2, <1>5 DEF SoundInv, MemInv, Full
<1>7. \A i \in Keys : journal'[i] = journal[i] \/ (journal'[i] = e /\ i = k)
  BY <1>1, <1>4 DEF Store, Maps
<1>8. Delta(journal', acked', version')
  BY <1>1, <1>2, <1>6, <1>7 DEF SoundInv, MemInv, Full, Delta
<1>9. MemInv'
  BY <1>1, <1>2, <1>6, <1>8 DEF Store, SoundInv, MemInv
<1>10. HeaderInv'
  BY <1>1, <1>2, <1>7 DEF SoundInv, HeaderInv, Pending, Behind
<1> QED  BY <1>3, <1>9, <1>10 DEF SoundInv

LEMMA SoundCommitAppend ==
    ASSUME BaseInv, SoundInv, NEW t \in 1 .. MaxTx, commit_append(t)
    PROVE  SoundInv'
<1>1. /\ [ver |-> commit'.ver, changes |-> commit'.changes] \in Records
      /\ disk'.wal = Append(disk.wal, [ver |-> commit'.ver, changes |-> commit'.changes])
      /\ UNCHANGED <<disk.main, disk.bak, disk.tmp>>
  BY BaseCommitAppend
<1>2. commit.at = "none" /\ job.at = "none" /\ job' = job /\ disk.wal \in Seq(Records)
  BY Idle, DiskFields DEF commit_append, BaseInv, ShapeInv
<1>3. PICK v, id, ch :
         /\ ch = [k \in Keys |-> IF Mine(t, k) THEN [val |-> id, ver |-> v, unc |-> NoOne] ELSE NoChange]
         /\ commit' = [tx |-> t, at |-> "appended", id |-> id, ver |-> v, changes |-> ch]
  BY DEF commit_append
<1>4. commit'.at = "appended" /\ commit'.id = id /\ commit'.ver = v /\ commit'.changes = ch
  BY <1>3
<1>5. Settled = disk.wal /\ Settled' = disk.wal
  <2>1. Settled' = SubSeq(disk'.wal, 1, Len(disk'.wal) - 1)
    BY <1>4 DEF Settled
  <2>2. PICK w, r : w = disk.wal /\ r \in Records /\ w \in Seq(Records) /\ disk'.wal = Append(w, r)
    BY <1>1, <1>2
  <2>3. SubSeq(Append(w, r), 1, Len(Append(w, r)) - 1) = w
    BY <2>2, AppendIs
  <2> QED  BY <1>2, <2>1, <2>2, <2>3 DEF Settled
<1>6. MainFile(disk') = MainFile(disk)
  BY <1>1 DEF MainFile
<1>7. UNCHANGED <<mem, journal, journaling, has_checkpoint, version, handle, header, up, acked>>
  BY DEF commit_append
<1>8. DiskInv'
  BY <1>5, <1>6, <1>7 DEF SoundInv, DiskInv
<1>9. CommitInv'
  <2>1. ASSUME NEW k \in Keys, ch[k] # NoChange PROVE ch[k].val = id /\ ch[k].ver = v
    BY <1>3, <2>1
  <2> QED  BY <1>1, <1>4, <1>5, <2>1 DEF CommitInv
<1>10. MemInv' /\ HeaderInv' /\ JobInv'
  BY <1>1, <1>2, <1>7 DEF SoundInv, MemInv, HeaderInv, Pending, JobInv, Writing, Replacing
<1> QED  BY <1>8, <1>9, <1>10 DEF SoundInv

LEMMA SoundCommitSync ==
    ASSUME BaseInv, SoundInv, commit_sync
    PROVE  SoundInv'
<1>1. /\ commit.at = "appended" /\ commit' = NoCommit /\ job.at = "none" /\ job' = job /\ up /\ up' = up /\ disk' = disk
      /\ UNCHANGED <<journaling, has_checkpoint, handle, header>> /\ acked' = After(commit, acked)
      /\ version' = commit.ver
  BY DEF commit_sync, After, BaseInv, PhaseInv
<1>2. PICK ch, v, id : /\ ch = commit.changes /\ v = commit.ver /\ id = commit.id /\ v \in Nat /\ ch \in Maps
                       /\ version \in Nat /\ version <= v
                       /\ \A k \in Keys : ch[k] # NoChange => ch[k].val = id /\ ch[k].ver = v
  BY <1>1 DEF BaseInv, ShapeInv, PhaseInv, CommitRecords, SoundInv, CommitInv
<1>3. PICK w, r : w = Settled /\ r = [ver |-> v, changes |-> ch] /\ w \in Seq(Records) /\ disk.wal = Append(w, r)
  BY <1>1, <1>2, CutLog, DiskFields DEF SoundInv, CommitInv, Settled, BaseInv, ShapeInv
<1>4. r \in Records /\ r.changes = ch /\ r.ver = v
  BY <1>2, <1>3 DEF Records
<1>5. GoodFile(MainFile(disk), WalChanges(w), acked) /\ GoodLog(w, acked) /\ acked \in [Keys -> Nat]
  BY <1>3 DEF SoundInv, DiskInv, BaseInv, ShapeInv
<1>6. GoodFile(MainFile(disk), WalChanges(disk.wal), After(commit, acked)) /\ GoodLog(disk.wal, After(commit, acked))
  BY <1>2, <1>3, <1>4, <1>5, LogGrows
<1>7. Settled' = disk.wal
  BY <1>1, Idle DEF Settled
<1>8. DiskInv'
  BY <1>1, <1>6, <1>7 DEF DiskInv
<1>9. ASSUME NEW k \in Keys
      PROVE  /\ ch[k] = NoChange => acked'[k] = acked[k]
             /\ ch[k] # NoChange => acked'[k] = id
  BY <1>1, <1>2 DEF After
<1>10. mem \in Maps /\ journal \in Maps /\ Full(mem, acked, v) /\ Delta(journal, acked, v)
  BY <1>1, <1>2, LaterVersion DEF SoundInv, MemInv, BaseInv, ShapeInv
<1>11. Full(mem', acked', version')
  <2>1. mem' = Overlay(ch, mem)
    BY <1>2 DEF commit_sync
  <2>2. v <= v
    BY <1>2
  <2> QED  BY <1>1, <1>2, <1>9, <1>10, <2>1, <2>2, OverlayIs DEF Full
<1>12. journal' = IF journaling THEN Overlay(ch, journal) ELSE journal
  BY <1>2 DEF commit_sync
<1>13. Delta(journal', acked', version')
  <2>1. CASE journaling
    <3>1. v <= v
      BY <1>2
    <3> QED  BY <1>1, <1>2, <1>9, <1>10, <1>12, <2>1, <3>1, OverlayIs DEF Delta
  <2>2. CASE ~ journaling
    BY <1>1, <1>12, <2>2, EmptyDelta DEF SoundInv, MemInv
  <2> QED  BY <2>1, <2>2
<1>14. MemInv'
  BY <1>1, <1>11, <1>12, <1>13 DEF SoundInv, MemInv
<1>15. HeaderInv'
  <2> SUFFICES ASSUME has_checkpoint PROVE Behind(ChainData(disk.main, header.chunk), journal', acked', version')
    BY <1>1 DEF HeaderInv, Pending, Writing
  <2>1. PICK m : m = ChainData(disk.main, header.chunk) /\ m \in Maps
    <3>1. handle
      BY <1>1 DEF SoundInv, MemInv, Replacing
    <3>2. header.chunk <= Len(disk.main.chunks) /\ header.chunk \in Nat /\ disk.main \in Files /\ Len(disk.main.chunks) \in Nat
      BY <3>1, DiskFields, FileFields DEF BaseInv, ShapeInv, PlaceInv, Headers
    <3>3. header.chunk \in 0 .. Len(disk.main.chunks)
      BY <3>2
    <3> QED  BY <3>2, <3>3, ChainMaps
  <2>2. Behind(m, journal, acked, version)
    BY <1>1, <2>1 DEF SoundInv, HeaderInv, Pending, Writing, Replacing
  <2>3. \A k \in Keys : m[k].ver <= v
    <3>1. \A k \in Keys : m[k].ver \in Nat /\ m[k].ver <= version
      BY <2>1, <2>2 DEF Maps, Entries, Behind
    <3> QED  BY <1>2, <3>1
  <2>4. journaling /\ journal' = Overlay(ch, journal)
    BY <1>1, <1>12 DEF SoundInv, MemInv
  <2> QED  BY <1>1, <1>2, <1>9, <2>1, <2>2, <2>3, <2>4, OverlayIs DEF Behind
<1>16. CommitInv' /\ JobInv'
  BY <1>1, Idle DEF CommitInv, JobInv, Writing, Replacing
<1> QED  BY <1>8, <1>14, <1>15, <1>16 DEF SoundInv

LEMMA SoundCommitFails ==
    ASSUME BaseInv, SoundInv, commit_sync_fails
    PROVE  SoundInv'
<1>1. /\ commit.at = "appended" /\ commit' = NoCommit /\ job.at = "none" /\ disk' = CutWal(disk)
      /\ UNCHANGED <<memoryVars, job, up, acked>>
  BY DEF commit_sync_fails, CutWal, BaseInv, PhaseInv
<1>2. disk'.wal = SubSeq(disk.wal, 1, Len(disk.wal) - 1) /\ UNCHANGED <<disk.main, disk.bak, disk.tmp>>
  BY <1>1, LogOnly DEF BaseInv, ShapeInv
<1>3. Settled' = Settled /\ MainFile(disk') = MainFile(disk)
  BY <1>1, <1>2, Idle DEF Settled, MainFile
<1>4. DiskInv'
  BY <1>1, <1>3 DEF SoundInv, DiskInv
<1>5. CommitInv' /\ MemInv' /\ HeaderInv' /\ JobInv'
  BY <1>1, <1>2, Idle DEF memoryVars, SoundInv, CommitInv, MemInv, HeaderInv, Pending, JobInv, Writing, Replacing
<1> QED  BY <1>4, <1>5 DEF SoundInv

\* Outside the renames the main file is open.
LEMMA OpenedFile ==
    ASSUME BaseInv, SoundInv, up, job.at \notin Replacing
    PROVE  /\ handle /\ disk.main # NoFile /\ MainFile(disk) = disk.main /\ disk.main \in Files
           /\ header.chunk \in 0 .. Len(disk.main.chunks) /\ ChainData(disk.main, header.chunk) \in Maps
<1>1. handle
  BY DEF SoundInv, MemInv
<1>2. /\ header.chunk <= Len(disk.main.chunks) /\ header.chunk \in Nat /\ disk.main \in Files /\ Len(disk.main.chunks) \in Nat
      /\ disk.main # NoFile
  BY <1>1, DiskFields, FileFields DEF BaseInv, ShapeInv, PlaceInv, Headers
<1>3. header.chunk \in 0 .. Len(disk.main.chunks)
  BY <1>2
<1> QED  BY <1>1, <1>2, <1>3, ChainMaps DEF MainFile

LEMMA SoundCheckpointBegin ==
    ASSUME BaseInv, SoundInv, checkpoint_begin
    PROVE  SoundInv'
<1>1. /\ job'.at = "chunk" /\ job'.version = version + 1 /\ job'.drained = journal
      /\ job'.data = IF has_checkpoint THEN journal ELSE mem
  BY BaseCheckpointBegin
<1>2. /\ up /\ commit.at = "none" /\ job.at = "none" /\ journal' = Unchanged /\ journaling' = TRUE
      /\ UNCHANGED <<mem, has_checkpoint, version, handle, header, commit, up, disk, acked>>
  BY Idle DEF checkpoint_begin, JobMayStart
<1>3. DiskInv' /\ CommitInv'
  BY <1>2 DEF SoundInv, DiskInv, CommitInv, Settled
<1>4. MemInv'
  BY <1>2, EmptyDelta DEF SoundInv, MemInv, Replacing
<1>5. HeaderInv'
  BY <1>1, <1>2 DEF SoundInv, HeaderInv, Pending, Writing, Replacing
<1>6. JobInv'
  <2>1. version < version + 1
    BY DEF BaseInv, ShapeInv
  <2>2. Delta(journal, acked, version) /\ Full(mem, acked, version)
    BY <1>2 DEF SoundInv, MemInv
  <2> QED  BY <1>1, <1>2, <2>1, <2>2 DEF JobInv, Writing, Replacing
<1> QED  BY <1>3, <1>4, <1>5, <1>6 DEF SoundInv

LEMMA SoundWriteChunk ==
    ASSUME BaseInv, SoundInv, write_chunk
    PROVE  SoundInv'
<1>1. BaseInv' /\ job' = [job EXCEPT !.at = "shadow"] /\ disk'.wal = disk.wal
  BY BaseWriteChunk
<1>2. PICK c \in Chunks : /\ c.full = (~ has_checkpoint) /\ c.data = job.data /\ c.previous = header.chunk
                          /\ disk'.main.chunks = Append(disk.main.chunks, c)
                          /\ Len(disk'.main.chunks) = Len(disk.main.chunks) + 1
  BY BaseWriteChunk
<1>3. disk'.main.primary = disk.main.primary /\ disk'.main.shadow = disk.main.shadow
  BY BaseWriteChunk
<1>4. /\ up /\ job.at = "chunk" /\ commit.at = "none"
      /\ UNCHANGED <<memoryVars, commit, run, up, acked, started, unreplaced>>
  <2>1. commit.at # "appended"
    BY DEF write_chunk, BaseInv, PhaseInv
  <2> QED  BY <2>1 DEF write_chunk, BaseInv, ShapeInv, CommitRecords
<1>5. /\ job'.at = "shadow" /\ job'.version = job.version /\ job'.data = job.data /\ job'.drained = job.drained
      /\ job.version \in Nat
  BY <1>1, JobAt DEF BaseInv, ShapeInv, JobRecords, Writing
<1>6. PICK f, g : f = disk.main /\ g = disk'.main /\ f \in Files /\ g \in Files /\ g # NoFile
                  /\ header.chunk \in 0 .. Len(f.chunks) /\ MainFile(disk) = f /\ MainFile(disk') = g
  <2>1. disk'.main # NoFile /\ disk' \in Disks
    BY <1>1, <1>4, <1>5 DEF BaseInv, ShapeInv, PhaseInv, PlaceInv, memoryVars
  <2>2. job.at \notin Replacing
    BY <1>4 DEF Replacing
  <2> QED  BY <1>4, <2>1, <2>2, OpenedFile, DiskFields DEF MainFile
<1>7. DiskInv'
  <2>1. GoodFile(f, WalChanges(Settled), acked) /\ GoodLog(Settled, acked)
    BY <1>6 DEF SoundInv, DiskInv
  <2>2. f.primary \in Headers /\ f.shadow \in Headers
    BY <1>6, FileFields
  <2>3. GoodFile(g, WalChanges(Settled), acked)
    BY <1>2, <1>3, <1>6, <2>1, <2>2, HoldsGrows DEF GoodFile
  <2>4. Settled' = Settled
    BY <1>1, <1>4 DEF Settled
  <2> QED  BY <1>4, <1>6, <2>1, <2>3, <2>4 DEF DiskInv
<1>8. ChainData(g, header.chunk) = ChainData(f, header.chunk)
  BY <1>2, <1>6, ChainGrows
<1>9. HeaderInv'
  BY <1>4, <1>5, <1>6, <1>8 DEF memoryVars, SoundInv, HeaderInv, Pending, Writing, Replacing
<1>10. Holds(g, NewHeader', Unchanged, acked)
  <2>1. PICK h : h = NewHeader' /\ h \in Headers /\ h.version = job.version /\ h.chunk = Len(g.chunks)
    <3>1. NewHeader' = [version |-> job.version, chunk |-> Len(g.chunks)]
      BY <1>5, <1>6 DEF NewHeader
    <3>2. Len(g.chunks) \in Nat
      BY <1>6, FileFields
    <3> QED  BY <1>5, <3>1, <3>2 DEF Headers
  <2>2. version \in Nat /\ version < job.version /\ Delta(job.drained, acked, version) /\ acked \in [Keys -> Nat]
    BY <1>4 DEF BaseInv, ShapeInv, SoundInv, JobInv, Writing
  <2>3. c.previous <= Len(f.chunks)
    BY <1>2, <1>6
  <2>4. CASE has_checkpoint
    <3>1. job.data = job.drained
      BY <1>4, <2>4 DEF SoundInv, JobInv, Writing
    <3>2. Behind(ChainData(f, header.chunk), job.drained, acked, version)
      BY <1>4, <1>6, <2>4 DEF SoundInv, HeaderInv, Pending, Writing, Replacing
    <3>3. ~ c.full
      BY <1>2, <2>4, Zenon
    <3> QED  BY <1>2, <1>6, <2>1, <2>2, <2>3, <3>1, <3>2, <3>3, ChunkHolds
  <2>5. CASE ~ has_checkpoint
    <3>1. Full(job.data, acked, version)
      BY <1>4, <2>5 DEF SoundInv, JobInv, Writing
    <3>2. c.full
      BY <1>2, <2>5, Zenon
    <3> QED  BY <1>2, <1>6, <2>1, <2>2, <2>3, <3>1, <3>2, ChunkHolds
  <2> QED  BY <2>4, <2>5
<1>11. JobInv'
  BY <1>4, <1>5, <1>6, <1>10 DEF memoryVars, SoundInv, JobInv, Writing, Replacing
<1>12. CommitInv' /\ MemInv'
  BY <1>4, <1>5 DEF memoryVars, SoundInv, CommitInv, MemInv, Replacing
<1> QED  BY <1>7, <1>9, <1>11, <1>12 DEF SoundInv

\* A slot of the open file is written, or torn.
LEMMA SlotHolds ==
    ASSUME BaseInv, SoundInv, job.at \in {"shadow", "primary"}, NEW h \in {NewHeader, Torn}, NEW e,
           ShadowWrite(disk, e, h) \/ PrimaryWrite(disk, e, h)
    PROVE  /\ GoodFile(MainFile(e), WalChanges(Settled), acked) /\ MainFile(e) = e.main
           /\ e.main # NoFile /\ e.main.chunks = disk.main.chunks /\ e.wal = disk.wal
           /\ \A c : ChainData(e.main, c) = ChainData(disk.main, c)
           /\ job.at = "primary" /\ PrimaryWrite(disk, e, NewHeader) =>
                 GoodFile(e.main, Unchanged, acked) /\ e.main.primary = NewHeader
<1>1. e \in Disks /\ e.main # NoFile /\ e.main.chunks = disk.main.chunks /\ e.wal = disk.wal
  BY SlotKeeps
<1>2. up /\ job.at \notin Replacing /\ disk \in Disks
  BY DEF BaseInv, ShapeInv, PhaseInv, Replacing
<1>3. MainFile(disk) = disk.main /\ MainFile(e) = e.main
  BY <1>1, <1>2, OpenedFile DEF MainFile
<1>4. h \in Headers /\ Points(h, disk.main.chunks) /\ NewHeader \in Headers /\ Points(NewHeader, disk.main.chunks)
  BY HeaderWritten DEF Torn, Headers, Points
<1>5. e.main.primary \in {disk.main.primary, h} /\ e.main.shadow \in {disk.main.shadow, h}
  BY <1>2, <1>4, ShadowWritten, PrimaryWritten
<1>6. PICK wc : wc = WalChanges(Settled)
  OBVIOUS
<1>7. Holds(disk.main, disk.main.primary, wc, acked) /\ Holds(disk.main, disk.main.shadow, wc, acked)
  BY <1>3, <1>6 DEF SoundInv, DiskInv, GoodFile
<1>8. Holds(disk.main, NewHeader, Unchanged, acked)
  BY DEF SoundInv, JobInv
<1>9. Holds(disk.main, h, wc, acked)
  BY <1>8, HoldsAnyway, TornHolds
<1>10. GoodFile(e.main, wc, acked)
  BY <1>1, <1>5, <1>7, <1>9, HoldsSame DEF GoodFile
<1>11. ASSUME job.at = "primary", PrimaryWrite(disk, e, NewHeader)
       PROVE  GoodFile(e.main, Unchanged, acked) /\ e.main.primary = NewHeader
  <2>1. e.main.primary = NewHeader /\ e.main.shadow = disk.main.shadow /\ disk.main.shadow = NewHeader
    BY <1>2, <1>4, <1>11, PrimaryWritten DEF SoundInv, JobInv
  <2> QED  BY <1>1, <1>8, <2>1, HoldsSame DEF GoodFile
<1> QED  BY <1>1, <1>3, <1>6, <1>10, <1>11, ChainIs

LEMMA SoundWriteShadow ==
    ASSUME BaseInv, SoundInv, write_shadow
    PROVE  SoundInv'
<1>1. /\ ShadowWrite(disk, disk', NewHeader) /\ NewHeader' = NewHeader /\ job.at = "shadow" /\ up
      /\ UNCHANGED <<memoryVars, commit, run, up, acked, started, unreplaced>>
  BY BaseWriteShadow DEF write_shadow
<1>2. /\ job'.at = "primary" /\ job'.version = job.version /\ job'.data = job.data /\ job'.drained = job.drained
  BY JobAt DEF write_shadow, BaseInv, ShapeInv, Writing
<1>3. /\ GoodFile(MainFile(disk'), WalChanges(Settled), acked) /\ disk'.wal = disk.wal
      /\ disk'.main.chunks = disk.main.chunks
      /\ \A c : ChainData(disk'.main, c) = ChainData(disk.main, c)
  BY <1>1, SlotHolds
<1>4. disk'.main.shadow = NewHeader
  BY <1>1, HeaderWritten, ShadowWritten DEF BaseInv, ShapeInv
<1>5. Settled' = Settled
  BY <1>1, <1>3 DEF Settled
<1>6. DiskInv'
  BY <1>1, <1>3, <1>5 DEF SoundInv, DiskInv
<1>7. HeaderInv'
  BY <1>1, <1>2, <1>3 DEF memoryVars, SoundInv, HeaderInv, Pending, Writing, Replacing
<1>8. Holds(disk'.main, NewHeader, Unchanged, acked)
  BY <1>1, <1>3, HoldsSame DEF SoundInv, JobInv
<1>9. JobInv'
  BY <1>1, <1>2, <1>4, <1>8 DEF memoryVars, SoundInv, JobInv, Writing, Replacing
<1>10. CommitInv' /\ MemInv'
  <2>1. commit.at # "appended"
    BY <1>1 DEF BaseInv, PhaseInv
  <2> QED  BY <1>1, <1>2, <2>1 DEF memoryVars, SoundInv, CommitInv, MemInv, Replacing
<1> QED  BY <1>6, <1>7, <1>9, <1>10 DEF SoundInv

LEMMA SoundWritePrimary ==
    ASSUME BaseInv, SoundInv, write_primary
    PROVE  SoundInv'
<1>1. /\ PrimaryWrite(disk, disk', NewHeader) /\ Checkpointed(NewHeader) /\ job.at = "primary" /\ up /\ job.kind = "checkpoint"
      /\ UNCHANGED <<mem, journal, journaling, handle, commit, up, acked>>
  BY BaseWritePrimary DEF write_primary, BaseInv, PhaseInv, Writing
<1>2. /\ header' = NewHeader /\ version' = job.version /\ has_checkpoint' /\ job'.at = "clear"
  BY <1>1, BaseCheckpointed DEF Checkpointed
<1>3. /\ GoodFile(MainFile(disk'), WalChanges(Settled), acked) /\ disk'.wal = disk.wal
      /\ GoodFile(disk'.main, Unchanged, acked) /\ disk'.main.primary = NewHeader
  BY <1>1, SlotHolds
<1>4. NewHeader # Torn /\ NewHeader.version = job.version
  BY <1>1, HeaderWritten
<1>5. commit.at # "appended" /\ handle /\ journaling /\ version \in Nat /\ job.version \in Nat /\ version <= job.version
  <2>1. version < job.version /\ journaling
    BY <1>1 DEF SoundInv, JobInv, Writing
  <2>2. version \in Nat /\ job.version \in Nat
    BY DEF BaseInv, ShapeInv, JobRecords
  <2> QED  BY <1>1, <2>1, <2>2 DEF BaseInv, PhaseInv
<1>6. DiskInv'
  <2>1. Settled' = Settled
    BY <1>1, <1>3 DEF Settled
  <2> QED  BY <1>1, <1>3, <2>1 DEF SoundInv, DiskInv
<1>7. MemInv'
  <2>1. Full(mem, acked, job.version) /\ Delta(journal, acked, job.version)
    BY <1>1, <1>5, LaterVersion DEF SoundInv, MemInv, BaseInv, ShapeInv
  <2> QED  BY <1>1, <1>2, <1>5, <2>1 DEF MemInv
<1>8. HeaderInv'
  <2>1. Holds(disk'.main, NewHeader, Unchanged, acked)
    BY <1>3 DEF GoodFile
  <2>2. Behind(ChainData(disk'.main, header'.chunk), journal, acked, version')
    BY <1>2, <1>4, <2>1, ConstantMaps DEF Holds, Behind
  <2> QED  BY <1>1, <1>2, <2>2 DEF HeaderInv, Pending, Writing
<1>9. JobInv'
  BY <1>1, <1>2, <1>3, <1>4 DEF JobInv, Writing, Replacing
<1>10. CommitInv'
  BY <1>1, <1>5 DEF CommitInv
<1> QED  BY <1>6, <1>7, <1>8, <1>9, <1>10 DEF SoundInv

LEMMA SoundCheckpointFails ==
    ASSUME BaseInv, SoundInv, checkpoint_fails
    PROVE  SoundInv'
<1>1. /\ job.at \in Writing /\ job'.at = "none" /\ up /\ journal' = Overlay(journal, job.drained)
      /\ UNCHANGED <<mem, journaling, has_checkpoint, version, handle, header, commit, up, acked>>
  BY Idle DEF checkpoint_fails, Writing
<1>2. /\ GoodFile(MainFile(disk'), WalChanges(Settled), acked) /\ disk'.wal = disk.wal
      /\ \A c : ChainData(disk'.main, c) = ChainData(disk.main, c)
  <2>1. CASE UNCHANGED disk
    BY <2>1 DEF SoundInv, DiskInv
  <2>2. CASE ~ UNCHANGED disk
    BY <2>2, BaseCheckpointFails, SlotHolds
  <2> QED  BY <2>1, <2>2
<1>3. commit.at # "appended" /\ journaling /\ job.at \notin Replacing
  BY <1>1 DEF BaseInv, PhaseInv, SoundInv, JobInv, Writing, Replacing
<1>4. DiskInv'
  <2>1. Settled' = Settled
    BY <1>1, <1>2 DEF Settled
  <2> QED  BY <1>1, <1>2, <2>1 DEF SoundInv, DiskInv
<1>5. Delta(journal', acked, version)
  BY <1>1, DeltaOver DEF SoundInv, MemInv, JobInv
<1>6. MemInv'
  BY <1>1, <1>3, <1>5 DEF SoundInv, MemInv
<1>7. HeaderInv'
  <2> SUFFICES ASSUME has_checkpoint PROVE Behind(ChainData(disk.main, header.chunk), journal', acked, version)
    BY <1>1, <1>2 DEF HeaderInv, Pending, Writing
  <2>1. Behind(ChainData(disk.main, header.chunk), job.drained, acked, version)
    BY <1>1, <1>3 DEF SoundInv, HeaderInv, Pending
  <2>2. \A k \in Keys : journal'[k] = NoChange => job.drained[k] = NoChange
    BY <1>1, OverlayIs
  <2> QED  BY <2>1, <2>2 DEF Behind
<1>8. CommitInv' /\ JobInv'
  BY <1>1, <1>3 DEF CommitInv, JobInv, Writing, Replacing
<1> QED  BY <1>4, <1>6, <1>7, <1>8 DEF SoundInv

LEMMA SoundClear ==
    ASSUME BaseInv, SoundInv, clear_wal
    PROVE  SoundInv'
<1>1. /\ job.at = "clear" /\ job'.at = "none" /\ up /\ disk' = EmptyWal(disk) /\ has_checkpoint' /\ journal' \in {journal, Unchanged}
      /\ UNCHANGED <<mem, journaling, version, handle, header, commit, up, acked>>
  BY Idle DEF clear_wal, EmptyWal
<1>2. disk'.wal = <<>> /\ disk'.main = disk.main /\ disk'.bak = disk.bak
  BY <1>1, LogOnly DEF BaseInv, ShapeInv
<1>3. has_checkpoint /\ GoodFile(disk.main, Unchanged, acked) /\ disk.main.primary = header /\ header # Torn
  BY <1>1 DEF SoundInv, JobInv
<1>4. job.at \notin Replacing /\ job.at \notin Writing /\ commit.at # "appended"
  BY <1>1 DEF BaseInv, PhaseInv, Writing, Replacing
<1>5. DiskInv'
  <2>1. MainFile(disk') = disk.main
    BY <1>1, <1>2, <1>4, OpenedFile DEF MainFile
  <2>2. Settled' = <<>>
    BY <1>1, <1>2, <1>4 DEF Settled
  <2> QED  BY <1>1, <1>3, <2>1, <2>2, NothingLogged, EmptyLog DEF DiskInv
<1>6. MemInv'
  BY <1>1, <1>3, <1>4, EmptyDelta DEF SoundInv, MemInv
<1>7. HeaderInv'
  <2>1. Holds(disk.main, header, Unchanged, acked)
    BY <1>3 DEF GoodFile
  <2>2. Behind(ChainData(disk.main, header.chunk), journal, acked, version)
    BY <1>1, <1>3, <1>4 DEF SoundInv, HeaderInv, Pending
  <2>3. Behind(ChainData(disk.main, header.chunk), journal', acked, version)
    BY <1>3, <2>1, <2>2, ConstantMaps DEF Holds, Behind
  <2> QED  BY <1>1, <1>2, <2>3 DEF HeaderInv, Pending, Writing
<1>8. CommitInv' /\ JobInv'
  BY <1>1, <1>4 DEF CommitInv, JobInv, Writing, Replacing
<1> QED  BY <1>5, <1>6, <1>7, <1>8 DEF SoundInv

\* The job gives up before or after its work; what it did stays.
LEMMA SoundGivesUp ==
    ASSUME BaseInv, SoundInv, clear_wal_fails \/ write_tmp_fails
    PROVE  SoundInv'
<1>1. job.at \in {"clear", "tmp"} /\ job'.at = "none" /\ UNCHANGED <<memoryVars, commit, up, disk, acked>>
  BY Idle DEF clear_wal_fails, write_tmp_fails
<1>2. DiskInv' /\ CommitInv' /\ MemInv'
  BY <1>1 DEF memoryVars, SoundInv, DiskInv, CommitInv, Settled, MemInv, Replacing
<1>3. HeaderInv' /\ JobInv'
  BY <1>1 DEF memoryVars, SoundInv, HeaderInv, Pending, JobInv, Writing, Replacing
<1> QED  BY <1>2, <1>3 DEF SoundInv

LEMMA SoundRewriteBegin ==
    ASSUME ~ EarlyRewrites, BaseInv, SoundInv, NEW kind \in {"compact", "reclaim"}, rewrite_begin(kind)
    PROVE  SoundInv'
<1>1. /\ job'.at = "tmp" /\ job'.version = IF kind = "compact" THEN version ELSE version + 1
      /\ job'.data = IF kind = "compact" THEN CleanMap ELSE mem
  BY BaseRewriteBegin
<1>2. /\ up /\ job.at = "none" /\ has_checkpoint
      /\ UNCHANGED <<memoryVars, commit, up, disk, acked>>
  BY Idle DEF rewrite_begin, JobMayStart
<1>3. version \in Nat /\ version <= version + 1 /\ version <= version /\ version + 1 \in Nat /\ 0 <= version /\ mem \in Maps
  BY DEF BaseInv, ShapeInv
<1>4. Full(mem, acked, version) /\ Full(mem, acked, version + 1)
  BY <1>2, <1>3, LaterVersion DEF SoundInv, MemInv
<1>5. Full(CleanMap, acked, version)
  <2>1. ASSUME NEW k \in Keys PROVE CleanMap[k].val = mem[k].val /\ CleanMap[k].ver <= version
    <3>1. CASE mem[k].val = 0
      <4>1. CleanMap[k] = Absent /\ Absent.val = 0 /\ Absent.ver = 0
        BY <3>1 DEF CleanMap, Absent
      <4> QED  BY <1>3, <3>1, <4>1
    <3>2. CASE mem[k].val # 0
      <4>1. CleanMap[k] = [val |-> mem[k].val, ver |-> version, unc |-> NoOne]
        BY <3>2 DEF CleanMap
      <4>2. CleanMap[k].val = mem[k].val /\ CleanMap[k].ver = version
        BY <4>1
      <4> QED  BY <1>3, <4>2
    <3> QED  BY <3>1, <3>2
  <2> QED  BY <1>4, <2>1 DEF Full
<1>6. version <= job'.version /\ Full(job'.data, acked, job'.version)
  BY <1>1, <1>3, <1>4, <1>5
<1>7. JobInv'
  BY <1>1, <1>2, <1>6 DEF memoryVars, JobInv, Writing, Replacing
<1>8. DiskInv' /\ CommitInv' /\ MemInv' /\ HeaderInv'
  BY <1>1, <1>2 DEF memoryVars, SoundInv, DiskInv, CommitInv, MemInv, HeaderInv, Settled, Pending, Writing, Replacing
<1> QED  BY <1>7, <1>8 DEF SoundInv

LEMMA SoundWriteTmp ==
    ASSUME BaseInv, SoundInv, write_tmp
    PROVE  SoundInv'
<1>1. /\ disk'.tmp = Rewritten(job.version, job.data) /\ disk'.bak = NoFile /\ disk'.main = disk.main /\ disk'.wal = disk.wal
  BY BaseWriteTmp
<1>2. /\ job.at = "tmp" /\ up /\ ~ handle'
      /\ UNCHANGED <<mem, journal, journaling, has_checkpoint, version, header, commit, up, acked>>
  BY DEF write_tmp
<1>3. job'.at = "move" /\ job'.version = job.version /\ job.version \in Nat /\ job.data \in Maps
  BY JobAt DEF write_tmp, BaseInv, ShapeInv, JobRecords, Replacing
<1>4. has_checkpoint /\ version <= job.version /\ Full(job.data, acked, job.version)
  BY <1>2 DEF SoundInv, JobInv
<1>5. GoodFile(disk'.tmp, Unchanged, acked) /\ disk'.tmp.primary = [version |-> job.version, chunk |-> 1]
  BY <1>1, <1>3, <1>4, RewrittenHolds, RewrittenIs
<1>6. DiskInv'
  <2>1. MainFile(disk') = MainFile(disk)
    BY <1>1, <1>2, OpenedFile DEF MainFile, Replacing
  <2>2. Settled' = Settled
    BY <1>1, <1>2 DEF Settled
  <2> QED  BY <1>2, <2>1, <2>2 DEF SoundInv, DiskInv
<1>7. CommitInv' /\ MemInv' /\ HeaderInv'
  <2>1. commit.at # "appended"
    BY <1>2 DEF BaseInv, PhaseInv
  <2> QED  BY <1>2, <1>3, <2>1 DEF SoundInv, CommitInv, MemInv, HeaderInv, Replacing
<1>8. JobInv'
  BY <1>2, <1>3, <1>4, <1>5 DEF JobInv, Writing, Replacing
<1> QED  BY <1>6, <1>7, <1>8 DEF SoundInv

\* The renames: the file that open would take stays, or is the new one.
LEMMA SoundRename ==
    ASSUME BaseInv, SoundInv, rename_main_to_bak \/ rename_tmp_to_main \/ replace_directly \/ rename_back
    PROVE  SoundInv'
<1>1. /\ job.at \in {"move", "place"} /\ job'.at \in Replacing /\ job'.version = job.version
      /\ disk'.wal = disk.wal /\ UNCHANGED <<memoryVars, commit, up, acked>>
  BY BaseMoveOld, BasePlaceNew, BaseReplaceDirectly, BaseMoveBack DEF Replacing
<1>2. /\ GoodFile(disk.tmp, Unchanged, acked) /\ disk.tmp.primary = [version |-> job.version, chunk |-> 1]
      /\ has_checkpoint /\ version <= job.version /\ disk.tmp # NoFile
  BY <1>1 DEF BaseInv, PlaceInv, SoundInv, JobInv, Replacing
<1>3. PICK wc : wc = WalChanges(Settled) /\ GoodFile(MainFile(disk), wc, acked)
  BY DEF SoundInv, DiskInv
<1>4. /\ GoodFile(MainFile(disk'), wc, acked)
      /\ job'.at \in {"move", "place"} => disk'.tmp = disk.tmp
      /\ job'.at \in {"drop", "reopen"} => disk'.main = disk.tmp
  <2>1. CASE rename_main_to_bak
    <3>1. disk'.main = NoFile /\ disk'.bak = disk.main /\ disk'.tmp = disk.tmp /\ job'.at = "place" /\ disk.main # NoFile
      BY <2>1, BaseMoveOld DEF rename_main_to_bak
    <3> QED  BY <1>3, <3>1 DEF MainFile
  <2>2. CASE rename_tmp_to_main \/ replace_directly
    <3>1. disk'.main = disk.tmp /\ job'.at \in {"drop", "reopen"}
      BY <2>2, BasePlaceNew, BaseReplaceDirectly
    <3>2. MainFile(disk') = disk.tmp
      BY <1>2, <3>1 DEF MainFile
    <3> QED  BY <1>2, <3>1, <3>2, GoodAnyway
  <2>3. CASE rename_back
    <3>1. /\ disk' = disk \/ (disk'.main = disk.bak /\ disk'.tmp = disk.tmp)
          /\ job'.at = "move" /\ job.at = "place"
      BY <2>3, BaseMoveBack
    <3>2. disk.main = NoFile /\ disk.bak # NoFile
      BY <3>1 DEF BaseInv, PlaceInv
    <3> QED  BY <1>3, <3>1, <3>2 DEF MainFile
  <2> QED  BY <2>1, <2>2, <2>3
<1>5. DiskInv'
  <2>1. Settled' = Settled
    BY <1>1 DEF Settled
  <2> QED  BY <1>1, <1>3, <1>4, <2>1 DEF SoundInv, DiskInv
<1>6. CommitInv' /\ MemInv' /\ HeaderInv'
  <2>1. commit.at # "appended"
    BY <1>1 DEF BaseInv, PhaseInv
  <2> QED  BY <1>1, <2>1 DEF memoryVars, SoundInv, CommitInv, MemInv, HeaderInv
<1>7. JobInv'
  BY <1>1, <1>2, <1>4 DEF memoryVars, JobInv, Writing, Replacing
<1> QED  BY <1>5, <1>6, <1>7 DEF SoundInv

LEMMA SoundDropBak ==
    ASSUME BaseInv, SoundInv, drop_bak
    PROVE  SoundInv'
<1>1. PICK h : h = [version |-> job.version, chunk |-> 1]
  OBVIOUS
<1>2. /\ Checkpointed(h) /\ handle' /\ job.at \in {"drop", "reopen"} /\ up
      /\ UNCHANGED <<mem, journal, journaling, commit, up, acked>>
  BY <1>1 DEF drop_bak
<1>3. disk'.main = disk.main /\ disk'.wal = disk.wal /\ disk.main # NoFile
  BY <1>2, BaseDropBak DEF BaseInv, PlaceInv
<1>4. GoodFile(disk.main, Unchanged, acked) /\ disk.main.primary = h /\ has_checkpoint /\ version <= job.version
  BY <1>1, <1>2 DEF SoundInv, JobInv, Replacing
<1>5. header' = h /\ version' = job.version /\ has_checkpoint' = (has_checkpoint \/ job.kind = "checkpoint") /\ job'.at = "clear"
  BY <1>2, BaseCheckpointed DEF Checkpointed
<1>6. h # Torn /\ h.version = job.version /\ version \in Nat /\ job.version \in Nat
  <2>1. job.version \in Nat /\ version \in Nat
    BY DEF BaseInv, ShapeInv, JobRecords
  <2>2. h.chunk = 1 /\ Torn.chunk = 99 /\ h.version = job.version
    BY <1>1 DEF Torn
  <2> QED  BY <2>1, <2>2
<1>7. DiskInv'
  <2>1. MainFile(disk') = MainFile(disk)
    BY <1>3 DEF MainFile
  <2>2. Settled' = Settled
    BY <1>2, <1>3 DEF Settled
  <2> QED  BY <1>2, <2>1, <2>2 DEF SoundInv, DiskInv
<1>8. MemInv'
  <2>1. Full(mem, acked, job.version) /\ Delta(journal, acked, job.version)
    BY <1>2, <1>4, <1>6, LaterVersion DEF SoundInv, MemInv, BaseInv, ShapeInv
  <2> QED  BY <1>2, <1>4, <1>5, <2>1 DEF SoundInv, MemInv
<1>9. HeaderInv'
  <2>1. Holds(disk.main, h, Unchanged, acked)
    BY <1>4 DEF GoodFile
  <2>2. Behind(ChainData(disk'.main, header'.chunk), journal, acked, version')
    BY <1>3, <1>5, <1>6, <2>1, ConstantMaps DEF Holds, Behind
  <2> QED  BY <1>2, <1>5, <2>2 DEF HeaderInv, Pending, Writing
<1>10. CommitInv' /\ JobInv'
  <2>1. commit.at # "appended"
    BY <1>2 DEF BaseInv, PhaseInv
  <2> QED  BY <1>2, <1>3, <1>4, <1>5, <1>6, <2>1 DEF CommitInv, JobInv, Writing, Replacing
<1> QED  BY <1>7, <1>8, <1>9, <1>10 DEF SoundInv

\* What a crash leaves has the acknowledged values or, if the record of the
\* commit in flight survived, those after it.
LEMMA CrashSound ==
    ASSUME BaseInv, SoundInv, NEW d \in CrashOutcomes, NEW a,
           a = IF commit.at = "appended" /\ Len(d.wal) = Len(disk.wal) THEN After(commit, acked) ELSE acked
    PROVE  GoodFile(MainFile(d), WalChanges(d.wal), a) /\ GoodLog(d.wal, a) /\ a \in [Keys -> Nat]
<1>1. disk \in Disks /\ acked \in [Keys -> Nat] /\ commit \in CommitRecords
  BY DEF BaseInv, ShapeInv
<1>2. GoodFile(MainFile(disk), WalChanges(Settled), acked) /\ GoodLog(Settled, acked)
  BY DEF SoundInv, DiskInv
<1>3. a \in [Keys -> Nat]
  BY <1>1 DEF After, CommitRecords
<1>4. CASE commit.at = "appended"
  <2>1. PICK w, r : w = Settled /\ r = [ver |-> commit.ver, changes |-> commit.changes] /\ w \in Seq(Records) /\ disk.wal = Append(w, r)
    <3>1. Settled \in Seq(Records)
      BY <1>1, <1>4, CutLog, DiskFields DEF Settled
    <3>2. disk.wal = Append(Settled, [ver |-> commit.ver, changes |-> commit.changes])
      BY <1>4 DEF SoundInv, CommitInv
    <3> QED  BY <3>1, <3>2
  <2>2. r \in Records /\ r.changes = commit.changes /\ r.ver = commit.ver
    BY <1>1, <2>1 DEF Records, CommitRecords
  <2>3. job.at = "none"
    BY <1>4 DEF BaseInv, PhaseInv
  <2>4. CASE d = disk
    <3>1. \A k \in Keys : commit.changes[k] # NoChange => commit.changes[k].val = commit.id /\ commit.changes[k].ver = r.ver
      BY <1>4, <2>2 DEF SoundInv, CommitInv
    <3>2. GoodFile(MainFile(disk), WalChanges(Append(w, r)), After(commit, acked)) /\ GoodLog(Append(w, r), After(commit, acked))
      BY <1>1, <1>2, <2>1, <2>2, <3>1, LogGrows
    <3>3. a = After(commit, acked)
      BY <1>4, <2>4
    <3> QED  BY <1>3, <2>1, <2>4, <3>2, <3>3
  <2>5. CASE d = CutWal(disk)
    <3>1. d.wal = w /\ MainFile(d) = MainFile(disk)
      BY <1>1, <1>4, <2>1, <2>5, LogOnly DEF Settled, MainFile
    <3>2. Len(w) \in Nat /\ Len(Append(w, r)) = Len(w) + 1
      BY <2>1, <2>2, AppendIs
    <3>3. Len(d.wal) # Len(disk.wal)
      BY <2>1, <3>1, <3>2
    <3>4. a = acked
      BY <3>3
    <3> QED  BY <1>2, <1>3, <2>1, <3>1, <3>4
  <2> QED  BY <2>3, <2>4, <2>5, CrashIs
<1>5. CASE commit.at # "appended"
  <2>1. Settled = disk.wal /\ a = acked
    BY <1>5 DEF Settled
  <2>2. CASE d = disk
    BY <1>2, <1>3, <2>1, <2>2
  <2>3. CASE job.at \in {"shadow", "primary"} /\ \E h \in {NewHeader, Torn} : ShadowWrite(disk, d, h) \/ PrimaryWrite(disk, d, h)
    BY <1>2, <1>3, <2>1, <2>3, SlotHolds
  <2>4. CASE job.at = "clear" /\ d = EmptyWal(disk)
    <3>1. d.wal = <<>> /\ MainFile(d) = MainFile(disk)
      BY <1>1, <2>4, LogOnly DEF MainFile
    <3>2. GoodFile(disk.main, Unchanged, acked) /\ MainFile(disk) = disk.main
      BY <2>4, OpenedFile DEF BaseInv, PhaseInv, SoundInv, JobInv, Replacing
    <3> QED  BY <1>3, <2>1, <3>1, <3>2, NothingLogged, EmptyLog
  <2> QED  BY <1>5, <2>2, <2>3, <2>4, CrashIs
<1> QED  BY <1>4, <1>5

LEMMA SoundCrash ==
    ASSUME BaseInv, SoundInv, crash
    PROVE  SoundInv'
<1>1. PICK d \in CrashOutcomes :
         /\ disk' = d
         /\ acked' = IF commit.at = "appended" /\ Len(d.wal) = Len(disk.wal) THEN After(commit, acked) ELSE acked
  BY DEF crash, After
<1>2. ~ up' /\ commit'.at = "none" /\ job'.at = "none"
  BY Idle DEF crash
<1>3. GoodFile(MainFile(d), WalChanges(d.wal), acked') /\ GoodLog(d.wal, acked')
  BY <1>1, CrashSound
<1>4. Settled' = d.wal
  BY <1>1, <1>2 DEF Settled
<1>5. DiskInv'
  BY <1>1, <1>3, <1>4 DEF DiskInv
<1>6. CommitInv' /\ MemInv' /\ HeaderInv' /\ JobInv'
  BY <1>2 DEF CommitInv, MemInv, HeaderInv, JobInv, Writing, Replacing
<1> QED  BY <1>5, <1>6 DEF SoundInv

LEMMA SoundOpen ==
    ASSUME BaseInv, SoundInv, open
    PROVE  SoundInv'
<1>1. disk'.main = MainFile(disk) /\ disk'.wal = disk.wal
  BY BaseOpen
<1>2. PICK f, h, w, v : f = MainFile(disk) /\ h = ChosenHeader(f) /\ w = disk.wal /\ v = RecoveredVersion(disk)
  OBVIOUS
<1>3. /\ mem' = RecoveredMap(disk) /\ journal' = WalChanges(w) /\ has_checkpoint' = (h.chunk # 0)
      /\ journaling' = (h.chunk # 0 \/ w # <<>>) /\ version' = v /\ handle' /\ header' = h
      /\ commit'.at = "none" /\ job'.at = "none" /\ ~ up /\ Openable(disk) /\ acked' = acked
  BY <1>2, Idle DEF open
<1>4. disk \in Disks /\ w \in Seq(Records) /\ f \in Files /\ f # NoFile /\ acked \in [Keys -> Nat]
  BY <1>2, DiskFields, OpenedIs DEF BaseInv, ShapeInv
<1>5. Settled = w /\ Settled' = w
  <2>1. commit.at # "appended"
    BY <1>3 DEF BaseInv, PhaseInv
  <2> QED  BY <1>1, <1>2, <1>3, <2>1 DEF Settled
<1>6. GoodFile(f, WalChanges(w), acked) /\ GoodLog(w, acked)
  BY <1>2, <1>5 DEF SoundInv, DiskInv
<1>7. MainFile(disk') = f
  BY <1>1, <1>2, <1>4 DEF MainFile
<1>8. DiskInv'
  BY <1>3, <1>5, <1>6, <1>7 DEF DiskInv
<1>9. Full(mem', acked, v)
  BY <1>2, <1>3, <1>4, <1>6, RecoveryIs
<1>10. h.version <= v /\ h.version \in Nat /\ v \in Nat /\ \A i \in DOMAIN w : w[i].ver <= v
  <2>1. ChosenHeader(MainFile(disk)).version \in Nat
    BY <1>3, <1>4, RecoveredIs DEF Headers
  <2> QED  BY <1>2, <1>4, <2>1, VersionReaches
<1>11. Delta(journal', acked, v)
  <2>1. PICK m : m = WalChanges(w) /\ m \in Maps
    BY <1>4, WalMaps
  <2>2. ASSUME NEW k \in Keys, m[k] # NoChange PROVE m[k].val = acked[k] /\ m[k].ver <= v
    <3>1. m[k].val = acked[k] /\ \E i \in DOMAIN w : m[k].ver <= w[i].ver
      BY <1>6, <2>1, <2>2 DEF GoodLog
    <3>2. PICK i \in DOMAIN w : m[k].ver <= w[i].ver
      BY <3>1
    <3>3. PICK x, y : x = m[k].ver /\ y = w[i].ver /\ x \in Nat /\ y \in Nat /\ x <= y /\ y <= v
      <4>1. m[k] \in Entries /\ w[i] \in Records
        BY <1>4, <2>1 DEF Maps
      <4> QED  BY <1>10, <3>2, <4>1 DEF Entries, Records
    <3>4. x <= v
      BY <1>10, <3>3
    <3> QED  BY <3>1, <3>3, <3>4
  <2> QED  BY <1>3, <2>1, <2>2 DEF Delta
<1>12. MemInv'
  <2>1. ~ journaling' => journal' = Unchanged
    BY <1>3, NothingLogged
  <2>2. has_checkpoint' => journaling'
    BY <1>3
  <2> QED  BY <1>3, <1>9, <1>11, <2>1, <2>2 DEF MemInv
<1>13. HeaderInv'
  <2>1. h # Torn /\ Holds(f, h, WalChanges(w), acked) /\ h.chunk \in 0 .. Len(f.chunks)
    <3>1. h \in {f.primary, f.shadow} /\ h \in Headers /\ h # Torn
      BY <1>2, <1>3, <1>4, ChosenIs DEF Openable
    <3>2. Holds(f, h, WalChanges(w), acked) /\ h.chunk <= Len(f.chunks) /\ h.chunk \in Nat /\ Len(f.chunks) \in Nat
      BY <1>4, <1>6, <3>1, FileFields DEF GoodFile, Points, Headers
    <3> QED  BY <3>1, <3>2
  <2>2. PICK m : m = ChainData(f, h.chunk) /\ m \in Maps
    BY <1>4, <2>1, ChainMaps
  <2>3. \A k \in Keys : m[k].ver <= v
    <3>1. \A k \in Keys : m[k].ver \in Nat /\ m[k].ver <= h.version
      BY <2>1, <2>2 DEF Maps, Entries, Holds
    <3> QED  BY <1>10, <3>1
  <2>4. Behind(m, WalChanges(w), acked, v)
    BY <2>1, <2>2, <2>3 DEF Holds, Behind
  <2> QED  BY <1>1, <1>2, <1>3, <2>2, <2>4 DEF HeaderInv, Pending, Writing
<1>14. CommitInv' /\ JobInv'
  BY <1>3 DEF CommitInv, JobInv, Writing, Replacing
<1> QED  BY <1>8, <1>12, <1>13, <1>14 DEF SoundInv

LEMMA DurableStep ==
    ASSUME ~ EarlyRewrites, BaseInv, DurableInv, [Next]_vars
    PROVE  DurableInv'
<1>1. CASE unreplaced
  <2>1. unreplaced' = unreplaced \/ unreplaced'
    BY DEF Next, vars, begin, put, undo, finish, commit_append, commit_sync, commit_sync_fails, checkpoint_begin, write_chunk,
           write_shadow, write_primary, write_nothing, checkpoint_fails, clear_wal, clear_wal_fails, rewrite_begin,
           write_tmp, write_tmp_fails, rename_main_to_bak, rename_tmp_to_main, replace_directly, rename_back, drop_bak,
           replace_fails, crash, open
  <2> QED  BY <1>1, <2>1 DEF DurableInv
<1>2. CASE SoundInv
  <2> SUFFICES SoundInv' \/ unreplaced'
    BY DEF DurableInv
  <2>1. CASE UNCHANGED vars \/ begin \/ \E t \in 1 .. MaxTx : finish(t)
    BY <1>2, <2>1, SoundLifecycle
  <2>2. ASSUME NEW t \in 1 .. MaxTx, commit_append(t) PROVE SoundInv'
    BY <1>2, <2>2, SoundCommitAppend
  <2>3. ASSUME NEW t \in 1 .. MaxTx, NEW k \in Keys, put(t, k) \/ undo(t, k) PROVE SoundInv'
    BY <1>2, <2>3, SoundMemory
  <2>4. CASE commit_sync \/ commit_sync_fails
    BY <1>2, <2>4, SoundCommitSync, SoundCommitFails
  <2>5. CASE checkpoint_begin \/ write_chunk \/ write_shadow \/ write_primary \/ checkpoint_fails \/ clear_wal
    BY <1>2, <2>5, SoundCheckpointBegin, SoundWriteChunk, SoundWriteShadow, SoundWritePrimary, SoundCheckpointFails, SoundClear
  <2>6. CASE write_nothing
    <3>1. up /\ job.at \notin Replacing /\ ~ handle
      BY <2>6 DEF write_nothing, Replacing
    <3> QED  BY <1>2, <3>1, OpenedFile
  <2>7. CASE clear_wal_fails \/ write_tmp_fails
    BY <1>2, <2>7, SoundGivesUp
  <2>8. ASSUME NEW kind \in {"compact", "reclaim"}, rewrite_begin(kind) PROVE SoundInv'
    BY <1>2, <2>8, SoundRewriteBegin
  <2>9. CASE write_tmp \/ rename_main_to_bak \/ rename_tmp_to_main \/ replace_directly \/ rename_back \/ drop_bak
    BY <1>2, <2>9, SoundWriteTmp, SoundRename, SoundDropBak
  <2>10. CASE replace_fails
    BY <2>10 DEF replace_fails
  <2>11. CASE crash \/ open
    BY <1>2, <2>11, SoundCrash, SoundOpen
  <2> QED  BY <2>1, <2>2, <2>3, <2>4, <2>5, <2>6, <2>7, <2>8, <2>9, <2>10, <2>11 DEF Next
<1> QED  BY <1>1, <1>2 DEF DurableInv

\* What the invariant says of recovery and of the journal.
LEMMA DurableMeans ==
    ASSUME BaseInv, DurableInv
    PROVE  AcknowledgedSurvives /\ NothingEscapesTheJournal
<1>1. CASE unreplaced
  BY <1>1 DEF AcknowledgedSurvives, NothingEscapesTheJournal
<1>2. CASE SoundInv
  <2>1. ASSUME NEW d \in CrashOutcomes, Openable(d)
        PROVE  /\ \/ \A k \in Keys : RecoveredMap(d)[k].val = acked[k]
                  \/ /\ commit.at = "appended"
                     /\ \A k \in Keys :
                           RecoveredMap(d)[k].val = IF commit.changes[k] = NoChange THEN acked[k] ELSE commit.id
               /\ \A k \in Keys : RecoveredMap(d)[k].ver <= RecoveredVersion(d)
    <3>1. PICK a : a = IF commit.at = "appended" /\ Len(d.wal) = Len(disk.wal) THEN After(commit, acked) ELSE acked
      OBVIOUS
    <3>2. GoodFile(MainFile(d), WalChanges(d.wal), a) /\ GoodLog(d.wal, a) /\ a \in [Keys -> Nat]
      BY <1>2, <3>1, CrashSound
    <3>3. d \in Disks /\ d.wal \in Seq(Records) /\ MainFile(d) \in Files
      BY CrashKeeps, DiskFields, OpenedIs
    <3>4. Full(RecoveredMap(d), a, RecoveredVersion(d))
      BY <2>1, <3>2, <3>3, RecoveryIs
    <3>5. CASE commit.at = "appended" /\ Len(d.wal) = Len(disk.wal)
      <4>1. \A k \in Keys : a[k] = IF commit.changes[k] = NoChange THEN acked[k] ELSE commit.id
        BY <3>1, <3>5 DEF After
      <4> QED  BY <3>4, <3>5, <4>1 DEF Full
    <3>6. CASE ~ (commit.at = "appended" /\ Len(d.wal) = Len(disk.wal))
      BY <3>1, <3>4, <3>6 DEF Full
    <3> QED  BY <3>5, <3>6
  <2>2. AcknowledgedSurvives
    BY <2>1 DEF AcknowledgedSurvives
  <2>3. ASSUME up, job = NoJob, has_checkpoint, NEW k \in Keys
        PROVE  Overlay(journal, ChainData(disk.main, header.chunk))[k].val = mem[k].val
    <3>1. job.at \notin Replacing /\ job.at \notin Writing
      BY <2>3, Idle DEF Writing, Replacing
    <3>2. PICK m : m = ChainData(disk.main, header.chunk) /\ Behind(m, journal, acked, version)
      BY <1>2, <2>3, <3>1 DEF SoundInv, HeaderInv, Pending
    <3>3. Full(mem, acked, version) /\ Delta(journal, acked, version)
      BY <1>2, <2>3 DEF SoundInv, MemInv
    <3> QED  BY <3>2, <3>3, OverlayIs DEF Behind, Full, Delta
  <2>4. NothingEscapesTheJournal
    BY <2>3 DEF NothingEscapesTheJournal
  <2> QED  BY <2>2, <2>4
<1> QED  BY <1>1, <1>2 DEF DurableInv

----------------------------------------------------------------------------
(* Theorems. *)

\* Whatever the keys and bounds, files, slots, chunks and counters keep their
\* shape, a commit and a checkpoint or rewrite exclude each other, and the main
\* file or its backup is in place unless a rewrite gave up: what MVStore::open
\* and the steps of FileStore rely on, also with writes and renames that fail.
THEOREM FilesInPlace == Spec => []BaseInv
<1>1. Init => BaseInv
  BY BaseInit
<1>2. BaseInv /\ [Next]_vars => BaseInv'
  BY BaseStep
<1> QED  BY <1>1, <1>2, PTL DEF Spec

\* When at most one header write is ever torn, a crash at any moment leaves
\* files that MVStore::open accepts: write_header writes the slots one after
\* the other, so that the other one is readable.
THEOREM CrashLeavesOpenable ==
    ASSUME MaxTorn <= 1
    PROVE  Spec => []AlwaysOpenable
<1>1. Init => OpenInv
  BY OpenInit
<1>2. BaseInv /\ OpenInv /\ [Next]_vars => OpenInv'
  BY OpenStep
<1>3. BaseInv /\ OpenInv => AlwaysOpenable
  BY OpenMeans
<1> QED  BY <1>1, <1>2, <1>3, FilesInPlace, PTL DEF Spec

\* When no store is rewritten before its first checkpoint, recovery returns
\* every acknowledged value, and the commit in flight as a whole or not at all,
\* after a crash at any moment of commits, checkpoints, rewrites and their
\* failures: MVStore::open replays the WAL over the chunk of the header.
THEOREM RecoveryReturnsAcknowledged ==
    ASSUME ~ EarlyRewrites
    PROVE  Spec => []AcknowledgedSurvives
<1>1. Init => DurableInv
  BY SoundInit DEF DurableInv
<1>2. BaseInv /\ DurableInv /\ [Next]_vars => DurableInv'
  BY DurableStep
<1>3. BaseInv /\ DurableInv => AcknowledgedSurvives
  BY DurableMeans
<1> QED  BY <1>1, <1>2, <1>3, FilesInPlace, PTL DEF Spec

\* Under the same condition the journal misses no change since the chunk of the
\* header, also when a failed checkpoint gave it back (MapJournal).
THEOREM JournalIsComplete ==
    ASSUME ~ EarlyRewrites
    PROVE  Spec => []NothingEscapesTheJournal
<1>1. Init => DurableInv
  BY SoundInit DEF DurableInv
<1>2. BaseInv /\ DurableInv /\ [Next]_vars => DurableInv'
  BY DurableStep
<1>3. BaseInv /\ DurableInv => NothingEscapesTheJournal
  BY DurableMeans
<1> QED  BY <1>1, <1>2, <1>3, FilesInPlace, PTL DEF Spec

=============================================================================
