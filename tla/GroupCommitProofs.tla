------------------------- MODULE GroupCommitProofs -------------------------
(***************************************************************************)
(* Proofs about group commit, for any number of committers and versions.   *)
(***************************************************************************)
EXTENDS GroupCommit, TLAPS

Busy == {"append", "sync", "apply", "complete"}
Leads == {"lead", "sync", "apply", "complete"}

\* The first n records of a sequence.
FirstOf(s, n) == {s[i] : i \in 1 .. n}
Ascending(s) == \A i, j \in DOMAIN s : i < j => s[i] < s[j]

\* The queue mutex is held exactly by the committer inside its section.
MutexInv == \A c \in Committers : pc[c] \in Busy <=> queue = c

\* CommitQueue.leader is raised exactly while somebody leads; a leader finds
\* its own record pending, and nothing is pending while it holds the mutex.
LeaderInv ==
    /\ OneLeader
    /\ PendingHasLeader
    /\ leader <=> \E c \in Committers : pc[c] \in Leads
    /\ \A c \in Committers :
          /\ pc[c] = "lead" => pending # <<>>
          /\ pc[c] \in {"sync", "apply", "complete"} => pending = <<>>

\* A committer finds a durable outcome only for a record that is visible, and
\* no outcome before it waits.
OutcomeInv ==
    \A c \in Committers :
        /\ pc[c] \in Busy \cup Leads => completed[c] = NoOne
        /\ pc[c] = "wait" /\ completed[c] \in {"ok", "durable_error"} => mine[c] \in visible

\* Everything visible is logged before the point where a failed sync would cut
\* the WAL, and the records of a batch are in the WAL until it is visible.
LoggedInv ==
    /\ acked \subseteq visible
    /\ VisibleIsLogged
    /\ Range(pending) \subseteq Range(wal)
    /\ pending # <<>> =>
          batch_start \in 0 .. Len(wal) /\ visible \subseteq saved \cup FirstOf(wal, batch_start)
    /\ \A c \in Committers :
          /\ pc[c] \in {"sync", "apply"} => Range(batch) \subseteq Range(wal)
          /\ pc[c] = "sync" =>
                start \in 0 .. Len(wal) /\ visible \subseteq saved \cup FirstOf(wal, start)
          /\ pc[c] = "complete" => Range(batch) \subseteq visible

\* Versions ascend along the WAL, and what is not yet applied is newer than the
\* published version.
OrderInv ==
    /\ version <= next_commit_version
    /\ WalAscends
    /\ \A i \in DOMAIN wal : wal[i] <= next_commit_version
    /\ Ascending(pending)
    /\ \A v \in Range(pending) : version < v /\ v <= next_commit_version
    /\ \A v \in visible : v <= version
    /\ \A c \in Committers :
          /\ pc[c] = "append" =>
                /\ mine[c] = next_commit_version /\ version < next_commit_version
                /\ \A i \in DOMAIN wal : wal[i] < next_commit_version
                /\ \A v \in Range(pending) : v < next_commit_version
          /\ pc[c] \in {"sync", "apply"} =>
                /\ Ascending(batch)
                /\ \A v \in Range(batch) : version < v /\ v <= next_commit_version

\* A version that failed, or whose failure waits to be reported, is neither
\* visible nor about to be, and a batch lies behind the point where a failed
\* sync cuts the WAL.
FailedInv ==
    /\ FailedIsGone
    /\ \A v \in failed : v <= next_commit_version
    /\ failed \cap Range(pending) = {}
    /\ pending # <<>> => Range(pending) \cap FirstOf(wal, batch_start) = {}
    /\ \A c \in Committers :
          /\ mine[c] <= next_commit_version
          /\ pc[c] = "append" =>
                /\ next_commit_version \notin failed
                /\ \A d \in Committers : pc[d] = "wait" => mine[d] < next_commit_version
          /\ pc[c] \in {"sync", "apply"} => failed \cap Range(batch) = {}
          /\ pc[c] = "sync" => Range(batch) \cap FirstOf(wal, start) = {}
          /\ pc[c] = "wait" /\ completed[c] = "failed" =>
                /\ mine[c] \notin visible /\ mine[c] \notin Range(pending)
                /\ poisoned \/ mine[c] \notin Range(wal)
                /\ \A d \in Committers : pc[d] \in {"sync", "apply"} => mine[c] \notin Range(batch)

CommitInv ==
    TypeOK /\ MutexInv /\ LeaderInv /\ OutcomeInv /\ LoggedInv /\ OrderInv /\ FailedInv

----------------------------------------------------------------------------
(* Sequences of versions. *)

\* The records of a sequence after an append.
LEMMA RangeAppend ==
    ASSUME NEW s \in Seq(Nat), NEW x \in Nat
    PROVE  /\ Append(s, x) \in Seq(Nat)
           /\ Range(Append(s, x)) = Range(s) \cup {x}
           /\ \A n \in 0 .. Len(s) : FirstOf(Append(s, x), n) = FirstOf(s, n)
           /\ FirstOf(Append(s, x), Len(s)) = Range(s)
<1> DEFINE a == Append(s, x)
<1>1. a \in Seq(Nat) /\ Len(a) = Len(s) + 1 /\ DOMAIN a = 1 .. Len(s) + 1 /\ DOMAIN s = 1 .. Len(s)
  OBVIOUS
<1>2. \A i \in 1 .. Len(s) : a[i] = s[i]
  OBVIOUS
<1>3. a[Len(s) + 1] = x
  OBVIOUS
<1> HIDE DEF a
<1>4. Range(a) = Range(s) \cup {x}
  BY <1>1, <1>2, <1>3 DEF Range
<1>5. \A n \in 0 .. Len(s) : FirstOf(a, n) = FirstOf(s, n)
  BY <1>2 DEF FirstOf
<1>6. FirstOf(a, Len(s)) = Range(s)
  BY <1>1, <1>2 DEF FirstOf, Range
<1> QED  BY <1>1, <1>4, <1>5, <1>6 DEF a

\* The records of a sequence that was cut off.
LEMMA RangeCut ==
    ASSUME NEW s \in Seq(Nat), NEW n \in 0 .. Len(s)
    PROVE  /\ SubSeq(s, 1, n) \in Seq(Nat)
           /\ Len(SubSeq(s, 1, n)) = n
           /\ \A i \in 1 .. n : SubSeq(s, 1, n)[i] = s[i]
           /\ Range(SubSeq(s, 1, n)) = FirstOf(s, n)
           /\ Range(SubSeq(s, 1, n)) \subseteq Range(s)
<1> DEFINE a == SubSeq(s, 1, n)
<1>1. a \in Seq(Nat) /\ Len(a) = n /\ DOMAIN a = 1 .. n /\ DOMAIN s = 1 .. Len(s)
  OBVIOUS
<1>2. \A i \in 1 .. n : a[i] = s[i]
  OBVIOUS
<1> HIDE DEF a
<1>3. Range(a) = FirstOf(s, n)
  BY <1>1, <1>2 DEF Range, FirstOf
<1>4. Range(a) \subseteq Range(s)
  BY <1>1, <1>2 DEF Range
<1> QED  BY <1>1, <1>2, <1>3, <1>4 DEF a

\* An append leaves something.
LEMMA AppendNotEmpty ==
    ASSUME NEW s \in Seq(Nat), NEW x \in Nat
    PROVE  Append(s, x) # <<>>
  OBVIOUS

\* Appending a newer version keeps a sequence ascending.
LEMMA AscendingAppend ==
    ASSUME NEW s \in Seq(Nat), NEW x \in Nat, Ascending(s), \A i \in DOMAIN s : s[i] < x
    PROVE  /\ Ascending(Append(s, x))
           /\ \A i \in DOMAIN Append(s, x) : Append(s, x)[i] <= x
<1> DEFINE a == Append(s, x)
<1>1. DOMAIN a = 1 .. Len(s) + 1 /\ DOMAIN s = 1 .. Len(s) /\ Len(s) \in Nat
  OBVIOUS
<1>2. \A i \in 1 .. Len(s) : a[i] = s[i] /\ a[i] \in Nat
  OBVIOUS
<1>3. a[Len(s) + 1] = x
  OBVIOUS
<1> HIDE DEF a
<1> QED  BY <1>1, <1>2, <1>3 DEF Ascending, a

\* Cutting a sequence off keeps it ascending.
LEMMA AscendingCut ==
    ASSUME NEW s \in Seq(Nat), NEW n \in 0 .. Len(s), Ascending(s)
    PROVE  /\ Ascending(SubSeq(s, 1, n))
           /\ DOMAIN SubSeq(s, 1, n) \subseteq DOMAIN s
           /\ \A i \in DOMAIN SubSeq(s, 1, n) : SubSeq(s, 1, n)[i] = s[i]
<1> DEFINE a == SubSeq(s, 1, n)
<1>1. DOMAIN a = 1 .. n /\ DOMAIN s = 1 .. Len(s) /\ Len(s) \in Nat
  OBVIOUS
<1>2. \A i \in 1 .. n : a[i] = s[i]
  OBVIOUS
<1> HIDE DEF a
<1> QED  BY <1>1, <1>2 DEF Ascending, a

\* The last record of an ascending sequence is one of it and the greatest.
LEMMA LastIsGreatest ==
    ASSUME NEW s \in Seq(Nat), s # <<>>, Ascending(s)
    PROVE  s[Len(s)] \in Range(s) /\ \A v \in Range(s) : v <= s[Len(s)]
<1>1. Len(s) \in Nat \ {0} /\ DOMAIN s = 1 .. Len(s) /\ \A i \in DOMAIN s : s[i] \in Nat
  OBVIOUS
<1> QED  BY <1>1 DEF Ascending, Range

\* The records of a sequence are versions.
LEMMA RangeType ==
    ASSUME NEW s \in Seq(Nat)
    PROVE  Range(s) \subseteq Nat
  BY DEF Range

----------------------------------------------------------------------------
(* Type correctness. *)

\* A step of a committer keeps the types.
LEMMA StepTypeOf ==
    ASSUME TypeOK, LoggedInv, NEW c \in Committers, enter_commit_gate(c) \/ step(c)
    PROVE  TypeOK'
<1> USE DEF TypeOK, Goto, Outcomes
<1>1. CASE enter_commit_gate(c)
  BY <1>1 DEF enter_commit_gate
<1>2. CASE refuse(c)
  BY <1>2 DEF refuse
<1>3. CASE assign_version(c)
  BY <1>3 DEF assign_version
<1>4. CASE prepare_fails(c)
  BY <1>4 DEF prepare_fails
<1>5. CASE append_unsynced(c)
  BY <1>5, RangeAppend DEF append_unsynced, NoteBatchStart
<1>6. CASE append_fails(c)
  <2>0. wal' = wal \/ wal' = Append(wal, mine[c])
    BY <1>6 DEF append_fails
  <2> wal \in Seq(Nat) /\ Append(wal, mine[c]) \in Seq(Nat)
    BY RangeAppend
  <2>1. wal' \in Seq(Nat)
    BY <2>0, Zenon
  <2>2. poisoned' \in BOOLEAN
    BY <1>6, Zenon DEF append_fails
  <2>3. batch_start' \in Nat \cup {NoOne}
    BY <1>6 DEF append_fails, NoteBatchStart
  <2> QED  BY <1>6, <2>1, <2>2, <2>3 DEF append_fails
<1>7. CASE return(c)
  <2>0. \/ failed' = failed \cup {mine[c]} /\ acked' = acked
        \/ acked' = acked \cup {mine[c]} /\ failed' = failed
    BY <1>7 DEF return
  <2>1. acked' \subseteq Nat /\ failed' \subseteq Nat
    BY <2>0
  <2> QED  BY <1>7, <2>1 DEF return
<1>8. CASE take_pending(c)
  BY <1>8 DEF take_pending
<1>9. CASE sync_succeeds(c)
  BY <1>9 DEF sync_succeeds
<1>10. CASE sync_fails(c)
  <2>1. SubSeq(wal, 1, start) \in Seq(Nat)
    BY <1>10, RangeCut DEF sync_fails, LoggedInv
  <2>2. completed' \in [Committers -> Outcomes \cup {NoOne}]
    BY <1>10 DEF sync_fails, Complete
  <2>3. wal' \in Seq(Nat)
    BY <1>10, <2>1 DEF sync_fails
  <2>4. poisoned' \in BOOLEAN
    BY <1>10, Zenon DEF sync_fails
  <2>5. leader' \in BOOLEAN /\ queue' = NoOne /\ batch' = <<>>
    BY <1>10 DEF sync_fails, Complete
  <2>6. pc' = [pc EXCEPT ![c] = "wait"]
    BY <1>10 DEF sync_fails, Complete
  <2> QED  BY <1>10, <2>2, <2>3, <2>4, <2>5, <2>6 DEF sync_fails
<1>11. CASE apply_batch(c)
  <2>0. Range(batch) \subseteq Nat
    BY RangeType
  <2>1. version' \in Nat
    BY <1>11 DEF apply_batch
  <2>2. visible' \subseteq Nat
    BY <1>11, <2>0 DEF apply_batch
  <2> QED  BY <1>11, <2>1, <2>2 DEF apply_batch
<1>12. CASE complete_batch(c)
  <2>1. completed' \in [Committers -> Outcomes \cup {NoOne}]
    BY <1>12 DEF complete_batch, Complete
  <2>2. leader' \in BOOLEAN /\ queue' = NoOne /\ batch' = <<>>
    BY <1>12 DEF complete_batch, Complete
  <2>3. pc' = [pc EXCEPT ![c] = "wait"]
    BY <1>12 DEF complete_batch, Complete
  <2> QED  BY <1>12, <2>1, <2>2, <2>3 DEF complete_batch
<1> QED  BY <1>1, <1>2, <1>3, <1>4, <1>5, <1>6, <1>7, <1>8, <1>9, <1>10, <1>11, <1>12 DEF step

\* A checkpoint keeps the types.
LEMMA CheckpointType ==
    ASSUME TypeOK, checkpoint
    PROVE  TypeOK'
<1> USE DEF TypeOK, checkpoint
<1>0. wal' = <<>> \/ wal' = wal
  OBVIOUS
<1> wal \in Seq(Nat) /\ <<>> \in Seq(Nat)
  OBVIOUS
<1>1. wal' \in Seq(Nat)
  BY <1>0, Zenon
<1>2. version' \in Nat /\ next_commit_version' \in Nat
  OBVIOUS
<1> QED  BY <1>1, <1>2

----------------------------------------------------------------------------
(* The queue mutex and the leadership. *)

\* A step of a committer moves its pc along the edges of commit_with, and moves
\* no other committer's.
LEMMA StepMoves ==
    ASSUME TypeOK, NEW c \in Committers, enter_commit_gate(c) \/ step(c)
    PROVE  /\ pc' = [pc EXCEPT ![c] = pc'[c]]
           /\ pc'[c] \in {"idle", "gate", "append", "lead", "sync", "apply", "complete", "wait"}
           /\ \A d \in Committers \ {c} : pc'[d] = pc[d]
<1>1. \E p \in {"idle", "gate", "append", "lead", "sync", "apply", "complete", "wait"} :
         pc' = [pc EXCEPT ![c] = p]
  BY DEF enter_commit_gate, step, refuse, assign_version, prepare_fails, append_unsynced,
         append_fails, return, take_pending, sync_succeeds, sync_fails, apply_batch,
         complete_batch, Complete, Goto
<1> QED  BY <1>1 DEF TypeOK

\* A step of a committer keeps the mutex exclusive.
LEMMA StepMutex ==
    ASSUME TypeOK, MutexInv, NEW c \in Committers, enter_commit_gate(c) \/ step(c)
    PROVE  MutexInv'
<1> USE StepMoves, NoOneAssumption DEF TypeOK, MutexInv, Busy, Goto
<1>1. CASE enter_commit_gate(c) \/ refuse(c) \/ return(c)
  BY <1>1 DEF enter_commit_gate, refuse, return
<1>2. CASE assign_version(c) \/ take_pending(c)
  BY <1>2 DEF assign_version, take_pending
<1>3. CASE prepare_fails(c) \/ append_unsynced(c) \/ append_fails(c)
  <2>1. pc[c] = "append" /\ queue' = NoOne /\ pc'[c] \in {"idle", "wait", "lead"}
    BY <1>3 DEF prepare_fails, append_unsynced, append_fails
  <2> QED  BY <2>1
<1>4. CASE sync_succeeds(c) \/ apply_batch(c)
  BY <1>4 DEF sync_succeeds, apply_batch
<1>5. CASE sync_fails(c) \/ complete_batch(c)
  <2>1. pc[c] \in {"sync", "complete"} /\ queue' = NoOne /\ pc'[c] = "wait"
    BY <1>5 DEF sync_fails, complete_batch, Complete
  <2> QED  BY <2>1
<1> QED  BY <1>1, <1>2, <1>3, <1>4, <1>5 DEF step

\* A step of a committer keeps the leadership: one leader, who will take what
\* is pending.
LEMMA StepLeader ==
    ASSUME TypeOK, MutexInv, LeaderInv, NEW c \in Committers, enter_commit_gate(c) \/ step(c)
    PROVE  LeaderInv'
<1> USE StepMoves DEF TypeOK, LeaderInv, OneLeader, PendingHasLeader, Leads, Goto
<1>1. ASSUME pc[c] \notin Leads, pc'[c] \notin Leads, pending' = pending, leader' = leader
      PROVE  LeaderInv'
  BY <1>1
<1>2. CASE enter_commit_gate(c) \/ refuse(c) \/ return(c)
  <2>1. pc[c] \notin Leads /\ pc'[c] \notin Leads /\ pending' = pending /\ leader' = leader
    BY <1>2 DEF enter_commit_gate, refuse, return
  <2> QED  BY <2>1, <1>1
<1>3. CASE assign_version(c) \/ prepare_fails(c) \/ append_fails(c)
  <2>1. pc[c] \notin Leads /\ pc'[c] \notin Leads /\ pending' = pending /\ leader' = leader
    BY <1>3 DEF assign_version, prepare_fails, append_fails
  <2> QED  BY <2>1, <1>1
<1>4. CASE append_unsynced(c)
  <2>0. pending' = Append(pending, mine[c])
    BY <1>4 DEF append_unsynced
  <2>1. pending' # <<>>
    BY <2>0, AppendNotEmpty
  <2>2. \A d \in Committers : pc[d] \notin {"sync", "apply", "complete"}
    BY <1>4 DEF append_unsynced, MutexInv, Busy
  <2>3. CASE leader
    <3>1. PICK d \in Committers : pc[d] \in Leads
      BY <2>3
    <3>2. pc[c] = "append" /\ pc'[c] = "wait"
      BY <1>4, <2>3 DEF append_unsynced
    <3>3. pc[d] = "lead" /\ pc'[d] = "lead"
      BY <2>2, <3>1, <3>2
    <3>4. leader'
      BY <1>4 DEF append_unsynced
    <3> QED  BY <2>1, <2>2, <3>2, <3>3, <3>4
  <2>4. CASE ~ leader
    BY <1>4, <2>1, <2>2, <2>4 DEF append_unsynced
  <2> QED  BY <2>3, <2>4
<1>5. CASE take_pending(c)
  BY <1>5 DEF take_pending
<1>6. CASE sync_succeeds(c) \/ apply_batch(c)
  <2>1. /\ pc[c] \in {"sync", "apply"} /\ pc'[c] \in {"apply", "complete"}
        /\ pending' = pending /\ leader' = leader
    BY <1>6 DEF sync_succeeds, apply_batch
  <2>2. pending' = <<>>
    BY <2>1
  <2>3. OneLeader'
    BY <2>1
  <2>4. leader' <=> \E d \in Committers : pc'[d] \in Leads
    BY <2>1
  <2> QED  BY <2>1, <2>2, <2>3, <2>4
<1>7. CASE sync_fails(c) \/ complete_batch(c)
  <2>1. /\ pc[c] \in {"sync", "complete"} /\ pc'[c] = "wait"
        /\ pending' = pending /\ leader' = FALSE
    BY <1>7 DEF sync_fails, complete_batch, Complete
  <2>2. \A d \in Committers : pc'[d] \notin Leads
    BY <2>1
  <2> QED  BY <2>1, <2>2
<1> QED  BY <1>2, <1>3, <1>4, <1>5, <1>6, <1>7 DEF step

----------------------------------------------------------------------------
(* Outcomes. *)

\* A step of a committer keeps the outcomes right: none before a committer
\* waits, and a durable one only for a record that is visible.
LEMMA StepOutcome ==
    ASSUME TypeOK, MutexInv, LeaderInv, OutcomeInv, LoggedInv,
           NEW c \in Committers, enter_commit_gate(c) \/ step(c)
    PROVE  OutcomeInv'
<1> USE StepMoves DEF TypeOK, OutcomeInv, Busy, Leads, Goto
<1>1. ASSUME completed' = completed, mine' = mine, visible \subseteq visible',
             pc'[c] \in Busy \cup Leads \cup {"wait"} => pc[c] \in Busy \cup Leads
      PROVE  OutcomeInv'
  BY <1>1, NoOneAssumption
<1>2. CASE enter_commit_gate(c) \/ refuse(c) \/ return(c) \/ prepare_fails(c) \/ append_fails(c)
  <2>1. completed' = completed /\ mine' = mine /\ visible' = visible /\ pc'[c] \in {"idle", "gate"}
    BY <1>2 DEF enter_commit_gate, refuse, return, prepare_fails, append_fails
  <2> QED  BY <2>1, <1>1
<1>3. CASE assign_version(c)
  BY <1>3 DEF assign_version
<1>4. CASE append_unsynced(c) \/ take_pending(c) \/ sync_succeeds(c) \/ apply_batch(c)
  <2>1. /\ completed' = completed /\ mine' = mine /\ visible \subseteq visible'
        /\ pc[c] \in {"append", "lead", "sync", "apply"}
    BY <1>4 DEF append_unsynced, take_pending, sync_succeeds, apply_batch
  <2> QED  BY <2>1, <1>1
<1>5. ASSUME NEW o \in [Committers -> Outcomes], Complete(c, o),
             pc[c] \in {"sync", "complete"}, mine' = mine, visible' = visible,
             \A d \in Committers : o[d] \in {"ok", "durable_error"} => Range(batch) \subseteq visible
      PROVE  OutcomeInv'
  <2>1. pc'[c] = "wait"
    BY <1>5 DEF Complete
  <2>2. \A d \in Committers \ {c} : pc[d] \notin Busy \cup Leads
    BY <1>5 DEF MutexInv, LeaderInv, OneLeader
  <2>3. \A d \in Committers : (completed'[d] = o[d] /\ d \in Members) \/ completed'[d] = completed[d]
    BY <1>5 DEF Complete
  <2>4. \A d \in Members : mine[d] \in Range(batch)
    BY DEF Members
  <2>5. completed[c] = NoOne
    BY <1>5
  <2>6. ASSUME NEW d \in Committers, pc'[d] = "wait", completed'[d] \in {"ok", "durable_error"}
        PROVE  mine'[d] \in visible'
    BY <1>5, <2>1, <2>3, <2>4, <2>5, <2>6, NoOneAssumption
  <2> QED  BY <2>1, <2>2, <2>6
<1>6. CASE sync_fails(c)
  <2> DEFINE o == [d \in Committers |-> "failed"]
  <2>1. Complete(c, o) /\ pc[c] = "sync" /\ mine' = mine /\ visible' = visible
    BY <1>6 DEF sync_fails
  <2>2. o \in [Committers -> Outcomes] /\ \A d \in Committers : o[d] = "failed"
    BY DEF Outcomes
  <2> HIDE DEF o
  <2> QED  BY <1>5, <2>1, <2>2
<1>7. CASE complete_batch(c)
  <2>1. PICK o \in [Committers -> {"ok", "durable_error"}] : Complete(c, o)
    BY <1>7 DEF complete_batch
  <2>2. pc[c] = "complete" /\ mine' = mine /\ visible' = visible
    BY <1>7 DEF complete_batch
  <2>3. Range(batch) \subseteq visible
    BY <2>2 DEF LoggedInv
  <2>4. o \in [Committers -> Outcomes]
    BY DEF Outcomes
  <2> QED  BY <1>5, <2>1, <2>2, <2>3, <2>4
<1> QED  BY <1>2, <1>3, <1>4, <1>6, <1>7 DEF step

----------------------------------------------------------------------------
(* What is logged. *)

\* A step of a committer keeps everything visible in the log, on the safe side
\* of the point where a failed sync cuts it.
LEMMA StepLogged ==
    ASSUME TypeOK, MutexInv, LeaderInv, OutcomeInv, LoggedInv,
           NEW c \in Committers, enter_commit_gate(c) \/ step(c)
    PROVE  LoggedInv'
<1> USE StepMoves DEF TypeOK, LoggedInv, VisibleIsLogged, Goto
<1>1. ASSUME wal' = wal, pending' = pending, batch' = batch, start' = start, saved' = saved,
             visible' = visible, batch_start' = batch_start, acked' \subseteq visible,
             pc'[c] \in {"idle", "gate", "append"} \/ (pc[c] = "sync" /\ pc'[c] = "apply")
      PROVE  LoggedInv'
  BY <1>1
<1>2. CASE enter_commit_gate(c) \/ refuse(c) \/ assign_version(c) \/ prepare_fails(c)
  <2>1. /\ wal' = wal /\ pending' = pending /\ batch' = batch /\ start' = start
        /\ saved' = saved /\ visible' = visible /\ batch_start' = batch_start
        /\ acked' = acked /\ pc'[c] \in {"idle", "gate", "append"}
    BY <1>2 DEF enter_commit_gate, refuse, assign_version, prepare_fails
  <2> QED  BY <2>1, <1>1
<1>3. CASE return(c)
  <2>1. /\ wal' = wal /\ pending' = pending /\ batch' = batch /\ start' = start
        /\ saved' = saved /\ visible' = visible /\ batch_start' = batch_start
        /\ pc'[c] = "idle"
    BY <1>3 DEF return
  <2>2. acked' \subseteq visible
    BY <1>3 DEF return, OutcomeInv, Outcomes
  <2> QED  BY <2>1, <2>2, <1>1
<1>4. CASE sync_succeeds(c)
  <2>1. /\ wal' = wal /\ pending' = pending /\ batch' = batch /\ start' = start
        /\ saved' = saved /\ visible' = visible /\ batch_start' = batch_start
        /\ acked' = acked /\ pc[c] = "sync" /\ pc'[c] = "apply"
    BY <1>4 DEF sync_succeeds
  <2> QED  BY <2>1, <1>1
<1>5. CASE append_unsynced(c) \/ append_fails(c)
  <2>1. /\ batch' = batch /\ start' = start /\ saved' = saved /\ visible' = visible
        /\ acked' = acked /\ pc'[c] \in {"idle", "lead", "wait"}
        /\ batch_start' = IF pending = <<>> THEN Len(wal) ELSE batch_start
    BY <1>5 DEF append_unsynced, append_fails, NoteBatchStart
  <2>2. \/ wal' = Append(wal, mine[c]) /\ pending' = Append(pending, mine[c])
        \/ wal' = Append(wal, mine[c]) /\ pending' = pending
        \/ wal' = wal /\ pending' = pending
    BY <1>5 DEF append_unsynced, append_fails
  <2>3. \A d \in Committers : pc[d] \notin {"sync", "apply", "complete"}
    BY <1>5 DEF append_unsynced, append_fails, MutexInv, Busy
  <2>4. \A d \in Committers : pc'[d] \notin {"sync", "apply", "complete"}
    BY <2>1, <2>3
  <2>5. CASE wal' = wal /\ pending' = pending
    BY <2>1, <2>4, <2>5
  <2>6. CASE wal' = Append(wal, mine[c])
    <3>1. /\ wal' \in Seq(Nat) /\ Len(wal') = Len(wal) + 1
          /\ Range(wal') = Range(wal) \cup {mine[c]}
          /\ \A n \in 0 .. Len(wal) : FirstOf(wal', n) = FirstOf(wal, n)
          /\ FirstOf(wal', Len(wal)) = Range(wal)
      BY <2>6, RangeAppend
    <3>2. Range(pending') \subseteq Range(pending) \cup {mine[c]}
      BY <2>2, RangeAppend
    <3>3. batch_start' \in 0 .. Len(wal) \/ pending' = <<>>
      BY <2>1, <2>2
    <3>4. pending' # <<>> => visible' \subseteq saved' \cup FirstOf(wal', batch_start')
      <4>1. CASE pending = <<>>
        BY <4>1, <2>1, <3>1
      <4>2. CASE pending # <<>>
        BY <4>2, <2>1, <3>1
      <4> QED  BY <4>1, <4>2
    <3>5. Range(pending') \subseteq Range(wal')
      BY <3>1, <3>2
    <3>6. visible' \subseteq saved' \cup Range(wal')
      BY <2>1, <3>1
    <3>7. pending' # <<>> => batch_start' \in 0 .. Len(wal')
      BY <3>1, <3>3
    <3> QED  BY <2>1, <2>4, <3>4, <3>5, <3>6, <3>7
  <2> QED  BY <2>2, <2>5, <2>6
<1>6. CASE take_pending(c)
  <2>1. /\ pc[c] = "lead" /\ pc'[c] = "sync" /\ batch' = pending /\ pending' = <<>>
        /\ start' = IF batch_start = NoOne THEN 0 ELSE batch_start
        /\ wal' = wal /\ saved' = saved /\ visible' = visible /\ acked' = acked
    BY <1>6 DEF take_pending
  <2>2. start' = batch_start /\ batch_start \in 0 .. Len(wal)
    BY <2>1, NoOneAssumption DEF LeaderInv
  <2>3. \A d \in Committers \ {c} : pc'[d] \notin {"sync", "apply", "complete"}
    BY <1>6, NoOneAssumption DEF take_pending, MutexInv, Busy
  <2>4. Range(pending') = {}
    BY <2>1 DEF Range
  <2>5. visible \subseteq saved \cup FirstOf(wal, batch_start)
    BY <2>1 DEF LeaderInv
  <2> QED  BY <2>1, <2>2, <2>3, <2>4, <2>5
<1>7. CASE sync_fails(c)
  <2>1. /\ pc[c] = "sync" /\ pc'[c] = "wait" /\ pending' = pending
        /\ saved' = saved /\ visible' = visible /\ acked' = acked
    BY <1>7 DEF sync_fails, Complete
  <2>2. wal' = wal \/ wal' = SubSeq(wal, 1, start)
    BY <1>7 DEF sync_fails
  <2>3. pending' = <<>> /\ Range(pending') = {}
    BY <2>1 DEF LeaderInv, Range
  <2>4. \A d \in Committers : pc'[d] \notin {"sync", "apply", "complete"}
    BY <2>1 DEF LeaderInv, OneLeader, Leads
  <2>5. visible \subseteq saved \cup Range(wal')
    <3>1. start \in 0 .. Len(wal) /\ visible \subseteq saved \cup FirstOf(wal, start)
      BY <2>1
    <3>2. Range(SubSeq(wal, 1, start)) = FirstOf(wal, start)
      BY <3>1, RangeCut
    <3> QED  BY <2>2, <3>1, <3>2
  <2> QED  BY <2>1, <2>3, <2>4, <2>5
<1>8. CASE apply_batch(c)
  <2>1. /\ pc[c] = "apply" /\ pc'[c] = "complete" /\ pending' = pending /\ wal' = wal
        /\ saved' = saved /\ visible' = visible \cup Range(batch) /\ acked' = acked
        /\ batch' = batch
    BY <1>8 DEF apply_batch
  <2>2. pending' = <<>>
    BY <2>1 DEF LeaderInv
  <2>3. \A d \in Committers \ {c} : pc'[d] \notin {"sync", "apply", "complete"}
    BY <2>1 DEF LeaderInv, OneLeader, Leads
  <2> QED  BY <2>1, <2>2, <2>3
<1>9. CASE complete_batch(c)
  <2>1. /\ pc[c] = "complete" /\ pc'[c] = "wait" /\ pending' = pending /\ wal' = wal
        /\ saved' = saved /\ visible' = visible /\ acked' = acked
    BY <1>9 DEF complete_batch, Complete
  <2>2. pending' = <<>>
    BY <2>1 DEF LeaderInv
  <2>3. \A d \in Committers : pc'[d] \notin {"sync", "apply", "complete"}
    BY <2>1 DEF LeaderInv, OneLeader, Leads
  <2> QED  BY <2>1, <2>2, <2>3
<1> QED  BY <1>2, <1>3, <1>4, <1>5, <1>6, <1>7, <1>8, <1>9 DEF step

----------------------------------------------------------------------------
(* The order of versions. *)

\* A step of a committer keeps the versions in order.
LEMMA StepOrder ==
    ASSUME TypeOK, MutexInv, LeaderInv, LoggedInv, OrderInv,
           NEW c \in Committers, enter_commit_gate(c) \/ step(c)
    PROVE  OrderInv'
<1> USE DEF Goto
<1> \A d \in Committers \ {c} : pc'[d] = pc[d]
  BY StepMoves
<1> /\ pc \in [Committers -> {"idle", "gate", "append", "lead", "sync", "apply", "complete", "wait"}]
    /\ pending \in Seq(Nat) /\ batch \in Seq(Nat) /\ wal \in Seq(Nat)
    /\ mine \in [Committers -> Nat] /\ visible \subseteq Nat
    /\ version \in Nat /\ next_commit_version \in Nat
  BY DEF TypeOK
<1>1. ASSUME wal' = wal, pending' = pending, batch' = batch, version' = version,
             visible' = visible, mine' = mine, next_commit_version' = next_commit_version,
             pc'[c] \in {"idle", "gate", "wait"} \/ (pc[c] = "sync" /\ pc'[c] = "apply")
      PROVE  OrderInv'
  BY <1>1 DEF WalAscends, Ascending, OrderInv
<1>9. WalAscends' <=> Ascending(wal')
  BY DEF WalAscends, Ascending
<1>2. CASE enter_commit_gate(c) \/ refuse(c) \/ prepare_fails(c) \/ return(c) \/ sync_succeeds(c)
  <2>1. /\ wal' = wal /\ pending' = pending /\ batch' = batch /\ version' = version
        /\ visible' = visible /\ mine' = mine /\ next_commit_version' = next_commit_version
        /\ pc'[c] \in {"idle", "gate", "wait"} \/ (pc[c] = "sync" /\ pc'[c] = "apply")
    <3>1. CASE enter_commit_gate(c) \/ refuse(c) \/ prepare_fails(c)
      BY <3>1 DEF enter_commit_gate, refuse, prepare_fails
    <3>2. CASE return(c)
      BY <3>2 DEF return
    <3>3. CASE sync_succeeds(c)
      BY <3>3 DEF sync_succeeds
    <3> QED  BY <1>2, <3>1, <3>2, <3>3 DEF OrderInv
  <2> QED  BY <2>1, <1>1 DEF OrderInv
<1>3. CASE assign_version(c)
  <2>1. /\ wal' = wal /\ pending' = pending /\ batch' = batch /\ version' = version
        /\ visible' = visible /\ mine'[c] = next_commit_version + 1
        /\ next_commit_version' = next_commit_version + 1 /\ pc'[c] = "append"
    BY <1>3 DEF assign_version
  <2>2. \A d \in Committers \ {c} : pc'[d] \notin Busy
    BY <1>3, NoOneAssumption DEF assign_version, MutexInv
  <2>3. \A v \in Range(pending) : v \in Nat
    BY RangeType
  <2> QED  BY <2>1, <2>2, <2>3 DEF Busy, OrderInv, WalAscends, Ascending
<1>4. CASE append_unsynced(c) \/ append_fails(c)
  <2>1. /\ batch' = batch /\ version' = version /\ visible' = visible /\ mine' = mine
        /\ next_commit_version' = next_commit_version /\ pc'[c] \in {"idle", "lead", "wait"}
    BY <1>4 DEF append_unsynced, append_fails
  <2>2. /\ wal' = wal \/ wal' = Append(wal, mine[c])
        /\ pending' = pending \/ pending' = Append(pending, mine[c])
    BY <1>4 DEF append_unsynced, append_fails
  <2>3. pc[c] = "append" /\ \A d \in Committers : pc'[d] \notin {"append", "sync", "apply"}
    BY <1>4, <2>1 DEF append_unsynced, append_fails, MutexInv, Busy
  <2>4. WalAscends' /\ \A i \in DOMAIN wal' : wal'[i] <= next_commit_version
    <3>1. Ascending(wal) /\ mine[c] = next_commit_version /\ \A i \in DOMAIN wal : wal[i] < mine[c]
      BY <2>3 DEF WalAscends, Ascending, OrderInv
    <3>2. CASE wal' = Append(wal, mine[c])
      BY <3>1, <3>2, <1>9, AscendingAppend DEF OrderInv
    <3> QED  BY <2>2, <3>1, <3>2, <1>9 DEF OrderInv
  <2>5. \A v \in Range(pending) : v \in Nat /\ v < next_commit_version
    BY <2>3, RangeType DEF OrderInv
  <2>6. \A v \in Range(pending') : version < v /\ v <= next_commit_version
    <3>1. mine[c] = next_commit_version /\ version < mine[c]
      BY <2>3 DEF OrderInv
    <3>2. Range(Append(pending, mine[c])) = Range(pending) \cup {mine[c]}
      BY RangeAppend
    <3>3. \A v \in Range(pending) \cup {mine[c]} : version < v /\ v <= next_commit_version
      BY <3>1 DEF OrderInv
    <3> QED  BY <2>2, <3>2, <3>3
  <2>7. Ascending(pending')
    <3>1. \A i \in DOMAIN pending : pending[i] < mine[c]
      BY <2>3, <2>5 DEF Range, OrderInv
    <3> QED  BY <2>2, <3>1, AscendingAppend DEF OrderInv
  <2> QED  BY <2>1, <2>3, <2>4, <2>6, <2>7 DEF OrderInv
<1>5. CASE take_pending(c)
  <2>1. /\ wal' = wal /\ batch' = pending /\ pending' = <<>> /\ version' = version
        /\ visible' = visible /\ mine' = mine /\ next_commit_version' = next_commit_version
        /\ pc'[c] = "sync"
    BY <1>5 DEF take_pending
  <2>2. \A d \in Committers \ {c} : pc'[d] \notin Busy
    BY <1>5, NoOneAssumption DEF take_pending, MutexInv
  <2>3. Range(pending') = {} /\ Ascending(pending')
    BY <2>1 DEF Range, Ascending, OrderInv
  <2> QED  BY <2>1, <2>2, <2>3 DEF Busy, OrderInv, WalAscends, Ascending
<1>6. CASE sync_fails(c)
  <2>1. /\ pc[c] = "sync" /\ pc'[c] = "wait" /\ pending' = pending /\ version' = version
        /\ visible' = visible /\ mine' = mine /\ next_commit_version' = next_commit_version
    BY <1>6 DEF sync_fails, Complete
  <2>2. wal' = wal \/ wal' = SubSeq(wal, 1, start)
    BY <1>6 DEF sync_fails
  <2>3. start \in 0 .. Len(wal)
    BY <2>1 DEF LoggedInv
  <2>4. WalAscends' /\ \A i \in DOMAIN wal' : wal'[i] <= next_commit_version
    <3>1. Ascending(wal)
      BY DEF WalAscends, Ascending, OrderInv
    <3>2. CASE wal' = SubSeq(wal, 1, start)
      BY <2>3, <3>1, <3>2, <1>9, AscendingCut DEF OrderInv
    <3> QED  BY <2>2, <3>1, <3>2, <1>9 DEF OrderInv
  <2>5. \A d \in Committers : pc'[d] \notin Busy
    BY <2>1 DEF MutexInv, Busy
  <2> QED  BY <2>1, <2>4, <2>5 DEF Busy, OrderInv
<1>7. CASE apply_batch(c)
  <2>1. /\ pc[c] = "apply" /\ pc'[c] = "complete" /\ pending' = pending /\ wal' = wal
        /\ visible' = visible \cup Range(batch) /\ mine' = mine
        /\ version' = IF batch = <<>> THEN version ELSE batch[Len(batch)]
        /\ next_commit_version' = next_commit_version
    BY <1>7 DEF apply_batch
  <2>2. pending' = <<>> /\ Range(pending') = {}
    BY <2>1 DEF LeaderInv, Range
  <2>3. version <= version' /\ version' <= next_commit_version
    <3>1. CASE batch # <<>>
      BY <2>1, <3>1, LastIsGreatest DEF OrderInv
    <3> QED  BY <2>1, <3>1 DEF OrderInv
  <2>4. \A v \in Range(batch) : v <= version'
    <3>1. CASE batch # <<>>
      BY <2>1, <3>1, LastIsGreatest DEF OrderInv
    <3>2. CASE batch = <<>>
      BY <3>2 DEF Range, OrderInv
    <3> QED  BY <3>1, <3>2 DEF OrderInv
  <2>5. \A v \in visible' : v <= version'
    BY <2>1, <2>3, <2>4 DEF OrderInv
  <2>6. \A d \in Committers : pc'[d] \notin {"append", "sync", "apply"}
    BY <2>1 DEF MutexInv, Busy
  <2> QED  BY <2>1, <2>2, <2>3, <2>5, <2>6 DEF OrderInv, WalAscends, Ascending
<1>8. CASE complete_batch(c)
  <2>1. /\ pc[c] = "complete" /\ pc'[c] = "wait" /\ pending' = pending /\ wal' = wal
        /\ version' = version /\ visible' = visible /\ mine' = mine
        /\ next_commit_version' = next_commit_version
    BY <1>8 DEF complete_batch, Complete
  <2>2. \A d \in Committers : pc'[d] \notin Busy
    BY <2>1 DEF MutexInv, Busy
  <2> QED  BY <2>1, <2>2 DEF Busy, OrderInv, WalAscends, Ascending
<1> QED  BY <1>2, <1>3, <1>4, <1>5, <1>6, <1>7, <1>8 DEF step

----------------------------------------------------------------------------
(* What failed. *)

\* A committer that is about to append has a version that nobody has seen, and
\* is alone inside the mutex.
LEMMA AppendedIsNew ==
    ASSUME TypeOK, MutexInv, OrderInv, NEW c \in Committers, pc[c] = "append"
    PROVE  /\ mine[c] = next_commit_version
           /\ mine[c] \notin visible /\ mine[c] \notin Range(pending) /\ mine[c] \notin Range(wal)
           /\ \A d \in Committers \ {c} : pc[d] \notin Busy
           /\ \A d \in Committers : pc[d] \notin {"sync", "apply"}
<1>1. /\ mine[c] = next_commit_version /\ version < next_commit_version
      /\ \A i \in DOMAIN wal : wal[i] < next_commit_version
      /\ \A v \in Range(pending) : v < next_commit_version
  BY DEF OrderInv
<1>2. next_commit_version \in Nat /\ version \in Nat
  BY DEF TypeOK
<1>3. mine[c] \notin visible /\ mine[c] \notin Range(pending)
  BY <1>1, <1>2 DEF OrderInv
<1>4. mine[c] \notin Range(wal)
  BY <1>1, <1>2 DEF Range
<1>5. \A d \in Committers \ {c} : pc[d] \notin Busy
  BY DEF MutexInv, Busy
<1> QED  BY <1>1, <1>3, <1>4, <1>5 DEF Busy

\* A step of a committer keeps failed versions out of the maps and, unless the
\* queue is poisoned, out of the WAL.
LEMMA StepFailed ==
    ASSUME TypeOK, MutexInv, LeaderInv, OutcomeInv, LoggedInv, OrderInv, FailedInv,
           NEW c \in Committers, enter_commit_gate(c) \/ step(c)
    PROVE  FailedInv'
<1> USE DEF Goto
<1> \A d \in Committers \ {c} : pc'[d] = pc[d]
  BY StepMoves
<1> /\ pc \in [Committers -> {"idle", "gate", "append", "lead", "sync", "apply", "complete", "wait"}]
    /\ pending \in Seq(Nat) /\ batch \in Seq(Nat) /\ wal \in Seq(Nat)
    /\ mine \in [Committers -> Nat] /\ visible \subseteq Nat /\ failed \subseteq Nat
    /\ version \in Nat /\ next_commit_version \in Nat
  BY DEF TypeOK
<1> DEFINE
      Keep == /\ wal' = wal /\ pending' = pending /\ batch' = batch /\ start' = start
              /\ batch_start' = batch_start /\ visible' = visible /\ mine' = mine
              /\ completed' = completed /\ next_commit_version' = next_commit_version
              /\ poisoned' = poisoned
<1>1. ASSUME Keep, failed' = failed,
             pc'[c] \in {"idle", "gate"} \/ (pc[c] = "sync" /\ pc'[c] = "apply")
      PROVE  FailedInv'
  BY <1>1 DEF FailedInv, FailedIsGone
<1>2. CASE enter_commit_gate(c) \/ refuse(c)
  <2>1. Keep /\ failed' = failed /\ pc'[c] \in {"idle", "gate"}
    BY <1>2 DEF enter_commit_gate, refuse
  <2> QED  BY <1>1, <2>1
<1>3. CASE sync_succeeds(c)
  <2>1. Keep /\ failed' = failed /\ pc[c] = "sync" /\ pc'[c] = "apply"
    BY <1>3 DEF sync_succeeds
  <2> QED  BY <1>1, <2>1
<1>4. ASSUME Keep, pc'[c] = "idle", pc[c] \in {"append", "wait"}, failed' = failed \cup {mine[c]},
             mine[c] \notin visible, mine[c] \notin Range(pending),
             poisoned \/ mine[c] \notin Range(wal),
             \A d \in Committers : pc[d] \in {"sync", "apply"} => mine[c] \notin Range(batch)
      PROVE  FailedInv'
  <2>1. \A d \in Committers : pc'[d] = "append" => pc[d] = "append" /\ d # c
    BY <1>4
  <2>2. \A d \in Committers : pc'[d] = "append" => next_commit_version \notin failed'
    BY <1>4, <2>1 DEF FailedInv, MutexInv, Busy
  <2>3. FailedIsGone'
    BY <1>4 DEF FailedInv, FailedIsGone
  <2> QED  BY <1>4, <2>1, <2>2, <2>3 DEF FailedInv
<1>5. CASE return(c)
  <2>1. Keep /\ pc[c] = "wait" /\ pc'[c] = "idle" /\ completed[c] # NoOne
    BY <1>5 DEF return
  <2>2. CASE completed[c] = "failed"
    <3>1. failed' = failed \cup {mine[c]}
      BY <1>5, <2>2 DEF return
    <3> QED  BY <1>4, <2>1, <2>2, <3>1 DEF FailedInv
  <2>3. CASE completed[c] # "failed"
    <3>1. failed' = failed
      BY <1>5, <2>3 DEF return
    <3> QED  BY <1>1, <2>1, <3>1
  <2> QED  BY <2>2, <2>3
<1>6. CASE prepare_fails(c)
  <2>1. Keep /\ pc[c] = "append" /\ pc'[c] = "idle" /\ failed' = failed \cup {mine[c]}
    BY <1>6 DEF prepare_fails
  <2>2. /\ mine[c] \notin visible /\ mine[c] \notin Range(pending) /\ mine[c] \notin Range(wal)
        /\ \A d \in Committers : pc[d] \notin {"sync", "apply"}
    BY <2>1, AppendedIsNew
  <2> QED  BY <1>4, <2>1, <2>2
<1>7. CASE assign_version(c)
  <2>1. /\ wal' = wal /\ pending' = pending /\ batch' = batch /\ start' = start
        /\ batch_start' = batch_start /\ visible' = visible /\ failed' = failed
        /\ mine' = [mine EXCEPT ![c] = next_commit_version + 1]
        /\ completed' = [completed EXCEPT ![c] = NoOne] /\ poisoned' = poisoned
        /\ next_commit_version' = next_commit_version + 1 /\ pc'[c] = "append"
    BY <1>7 DEF assign_version
  <2>2. completed \in [Committers -> Outcomes \cup {NoOne}]
    BY DEF TypeOK
  <2>3. \A d \in Committers \ {c} : pc'[d] \notin Busy
    BY <1>7, NoOneAssumption DEF assign_version, MutexInv
  <2>4. \A d \in Committers \ {c} : mine'[d] = mine[d] /\ completed'[d] = completed[d]
    BY <2>1, <2>2
  <2>5. \A d \in Committers : mine'[d] <= next_commit_version'
    BY <2>1, <2>4 DEF FailedInv
  <2>6. FailedIsGone'
    BY <2>1 DEF FailedInv, FailedIsGone
  <2>7. \A v \in failed' : v <= next_commit_version' /\ v # next_commit_version'
    BY <2>1 DEF FailedInv
  <2>8. \A d \in Committers : pc'[d] = "wait" => mine'[d] < next_commit_version'
    BY <2>1, <2>4 DEF FailedInv
  <2> QED  BY <2>1, <2>3, <2>4, <2>5, <2>6, <2>7, <2>8 DEF FailedInv, Busy
<1>8. CASE append_unsynced(c)
  <2>1. /\ wal' = Append(wal, mine[c]) /\ pending' = Append(pending, mine[c])
        /\ batch_start' = IF pending = <<>> THEN Len(wal) ELSE batch_start
        /\ visible' = visible /\ failed' = failed /\ mine' = mine /\ completed' = completed
        /\ next_commit_version' = next_commit_version /\ poisoned' = poisoned
        /\ pc[c] = "append" /\ pc'[c] \in {"wait", "lead"}
    BY <1>8 DEF append_unsynced, NoteBatchStart
  <2>2. /\ mine[c] \notin visible /\ mine[c] \notin Range(pending) /\ mine[c] \notin Range(wal)
        /\ mine[c] = next_commit_version
        /\ \A d \in Committers \ {c} : pc[d] \notin Busy
    BY <2>1, AppendedIsNew
  <2>3. Range(wal') = Range(wal) \cup {mine[c]} /\ Range(pending') = Range(pending) \cup {mine[c]}
    BY <2>1, RangeAppend
  <2>4. completed[c] = NoOne
    BY <2>1 DEF OutcomeInv, Busy
  <2>5. mine[c] \notin failed /\ \A d \in Committers : pc[d] = "wait" => mine[d] # mine[c]
    BY <2>1, <2>2 DEF FailedInv
  <2>6. FailedIsGone'
    BY <2>1, <2>3, <2>5 DEF FailedInv, FailedIsGone
  <2>7. Range(pending') \cap FirstOf(wal', batch_start') = {}
    <3>1. CASE pending = <<>>
      <4>1. FirstOf(wal', Len(wal)) = Range(wal) /\ Range(pending) = {}
        BY <2>1, <3>1, RangeAppend DEF Range
      <4> QED  BY <2>1, <2>2, <2>3, <3>1, <4>1
    <3>2. CASE pending # <<>>
      <4>1. batch_start \in 0 .. Len(wal)
        BY <3>2 DEF LoggedInv
      <4>2. FirstOf(wal', batch_start) = FirstOf(wal, batch_start)
        BY <2>1, <4>1, RangeAppend
      <4>3. FirstOf(wal, batch_start) \subseteq Range(wal)
        BY <4>1, RangeCut
      <4> QED  BY <2>1, <2>2, <2>3, <3>2, <4>2, <4>3 DEF FailedInv
    <3> QED  BY <3>1, <3>2
  <2>8. \A d \in Committers : pc'[d] \notin Busy
    BY <2>1, <2>2 DEF Busy
  <2>9. ASSUME NEW d \in Committers, pc'[d] = "wait", completed'[d] = "failed"
        PROVE  /\ mine'[d] \notin visible' /\ mine'[d] \notin Range(pending')
               /\ poisoned' \/ mine'[d] \notin Range(wal')
    <3>1. d # c /\ pc[d] = "wait" /\ completed[d] = "failed"
      BY <2>1, <2>4, <2>9, NoOneAssumption
    <3> QED  BY <2>1, <2>3, <2>5, <3>1 DEF FailedInv
  <2> QED  BY <2>1, <2>3, <2>5, <2>6, <2>7, <2>8, <2>9 DEF FailedInv, Busy
<1>9. CASE append_fails(c)
  <2>1. /\ pending' = pending /\ batch' = batch /\ visible' = visible /\ mine' = mine
        /\ completed' = completed /\ next_commit_version' = next_commit_version
        /\ failed' = failed \cup {mine[c]} /\ pc[c] = "append" /\ pc'[c] = "idle"
        /\ batch_start' = IF pending = <<>> THEN Len(wal) ELSE batch_start
    BY <1>9 DEF append_fails, NoteBatchStart
  <2>2. \/ wal' = wal /\ poisoned' = poisoned
        \/ poisoned' /\ wal' \in {wal, Append(wal, mine[c])}
    BY <1>9 DEF append_fails
  <2>3. /\ mine[c] \notin visible /\ mine[c] \notin Range(pending) /\ mine[c] \notin Range(wal)
        /\ \A d \in Committers \ {c} : pc[d] \notin Busy
    BY <2>1, AppendedIsNew
  <2>4. \A d \in Committers : pc'[d] \notin Busy
    BY <2>1, <2>3 DEF Busy
  <2>5. pending' # <<>> => Range(pending') \cap FirstOf(wal', batch_start') = {}
    <3>1. SUFFICES ASSUME pending # <<>>
                   PROVE  Range(pending) \cap FirstOf(wal', batch_start) = {}
      BY <2>1
    <3>2. batch_start \in 0 .. Len(wal)
      BY <3>1 DEF LoggedInv
    <3>3. FirstOf(wal', batch_start) = FirstOf(wal, batch_start)
      <4>1. CASE wal' = Append(wal, mine[c])
        BY <3>2, <4>1, RangeAppend
      <4>2. CASE wal' = wal
        BY <4>2
      <4> QED  BY <2>2, <4>1, <4>2
    <3> QED  BY <3>1, <3>3 DEF FailedInv
  <2>6. FailedIsGone'
    BY <2>1, <2>2, <2>3 DEF FailedInv, FailedIsGone
  <2>7. ASSUME NEW d \in Committers, pc'[d] = "wait", completed'[d] = "failed"
        PROVE  /\ mine'[d] \notin visible' /\ mine'[d] \notin Range(pending')
               /\ poisoned' \/ mine'[d] \notin Range(wal')
    <3>1. pc[d] = "wait" /\ completed[d] = "failed"
      BY <2>1, <2>7
    <3> QED  BY <2>1, <2>2, <3>1 DEF FailedInv
  <2> QED  BY <2>1, <2>3, <2>4, <2>5, <2>6, <2>7 DEF FailedInv, Busy
<1>10. CASE take_pending(c)
  <2>1. /\ pc[c] = "lead" /\ pc'[c] = "sync" /\ batch' = pending /\ pending' = <<>>
        /\ start' = IF batch_start = NoOne THEN 0 ELSE batch_start
        /\ wal' = wal /\ visible' = visible /\ failed' = failed /\ mine' = mine
        /\ completed' = completed /\ next_commit_version' = next_commit_version
        /\ poisoned' = poisoned
    BY <1>10 DEF take_pending
  <2>2. pending # <<>> /\ start' = batch_start
    BY <2>1, NoOneAssumption DEF LeaderInv, LoggedInv
  <2>3. \A d \in Committers \ {c} : pc'[d] \notin Busy
    BY <1>10, NoOneAssumption DEF take_pending, MutexInv
  <2>4. Range(pending') = {}
    BY <2>1 DEF Range
  <2>5. FailedIsGone'
    BY <2>1 DEF FailedInv, FailedIsGone
  <2> QED  BY <2>1, <2>2, <2>3, <2>4, <2>5 DEF FailedInv, Busy
<1>11. CASE sync_fails(c)
  <2>1. /\ pc[c] = "sync" /\ pc'[c] = "wait" /\ pending' = pending /\ visible' = visible
        /\ failed' = failed /\ mine' = mine /\ next_commit_version' = next_commit_version
        /\ completed' = [d \in Committers |-> IF d \in Members THEN "failed" ELSE completed[d]]
    BY <1>11 DEF sync_fails, Complete
  <2>2. \/ wal' = SubSeq(wal, 1, start) /\ poisoned' = poisoned
        \/ poisoned' /\ wal' \in {wal, SubSeq(wal, 1, start)}
    BY <1>11 DEF sync_fails
  <2>3. pending = <<>> /\ Range(pending) = {}
    BY <2>1 DEF LeaderInv, Range
  <2>4. Range(SubSeq(wal, 1, start)) = FirstOf(wal, start) /\ FirstOf(wal, start) \subseteq Range(wal)
    BY <2>1, RangeCut DEF LoggedInv
  <2>5. \A d \in Committers : pc'[d] \notin Busy
    BY <2>1 DEF MutexInv, Busy
  <2>6. FailedIsGone'
    BY <2>1, <2>2, <2>4 DEF FailedInv, FailedIsGone
  <2>7. ASSUME NEW d \in Committers, pc'[d] = "wait", completed'[d] = "failed"
        PROVE  /\ mine[d] \notin visible
               /\ poisoned' \/ mine[d] \notin Range(wal')
    <3>1. CASE d \in Members
      <4>1. mine[d] \in Range(batch)
        BY <3>1 DEF Members
      <4>2. mine[d] \notin visible
        BY <2>1, <4>1 DEF OrderInv
      <4>3. mine[d] \notin FirstOf(wal, start)
        BY <2>1, <4>1 DEF FailedInv
      <4> QED  BY <2>2, <2>4, <4>2, <4>3
    <3>2. CASE d \notin Members
      <4>1. completed[d] = "failed"
        BY <2>1, <2>7, <3>2
      <4>2. d # c
        BY <2>1, <4>1, NoOneAssumption DEF OutcomeInv, Busy
      <4>3. pc[d] = "wait"
        BY <2>7, <4>2
      <4>4. mine[d] \notin visible /\ (poisoned \/ mine[d] \notin Range(wal))
        BY <4>1, <4>3 DEF FailedInv
      <4>5. Range(wal') \subseteq Range(wal)
        BY <2>2, <2>4
      <4>6. poisoned => poisoned'
        BY <2>2, Zenon
      <4> QED  BY <4>4, <4>5, <4>6
    <3> QED  BY <3>1, <3>2
  <2> QED  BY <2>1, <2>3, <2>5, <2>6, <2>7 DEF FailedInv, Busy
<1>12. CASE apply_batch(c)
  <2>1. /\ pc[c] = "apply" /\ pc'[c] = "complete" /\ pending' = pending /\ wal' = wal
        /\ visible' = visible \cup Range(batch) /\ failed' = failed /\ mine' = mine
        /\ completed' = completed /\ next_commit_version' = next_commit_version
        /\ poisoned' = poisoned
    BY <1>12 DEF apply_batch
  <2>2. pending = <<>>
    BY <2>1 DEF LeaderInv
  <2>3. \A d \in Committers : pc'[d] \notin {"append", "sync", "apply"}
    BY <2>1 DEF MutexInv, Busy
  <2>4. FailedIsGone'
    BY <2>1 DEF FailedInv, FailedIsGone
  <2> QED  BY <2>1, <2>2, <2>3, <2>4 DEF FailedInv
<1>13. CASE complete_batch(c)
  <2>1. /\ pc[c] = "complete" /\ pc'[c] = "wait" /\ pending' = pending /\ wal' = wal
        /\ visible' = visible /\ failed' = failed /\ mine' = mine
        /\ next_commit_version' = next_commit_version /\ poisoned' = poisoned
    BY <1>13 DEF complete_batch, Complete
  <2>2. \A d \in Committers : completed'[d] \in {"ok", "durable_error"} \/ completed'[d] = completed[d]
    BY <1>13 DEF complete_batch, Complete
  <2>3. pending = <<>>
    BY <2>1 DEF LeaderInv
  <2>4. \A d \in Committers : pc'[d] \notin Busy
    BY <2>1 DEF MutexInv, Busy
  <2>5. \A d \in Committers : pc'[d] = "wait" /\ completed'[d] = "failed"
                              => pc[d] = "wait" /\ completed[d] = "failed"
    BY <2>1, <2>2, NoOneAssumption DEF OutcomeInv, Busy
  <2>6. FailedIsGone'
    BY <2>1 DEF FailedInv, FailedIsGone
  <2> QED  BY <2>1, <2>3, <2>4, <2>5, <2>6 DEF FailedInv, Busy
<1> QED  BY <1>2, <1>3, <1>5, <1>6, <1>7, <1>8, <1>9, <1>10, <1>11, <1>12, <1>13 DEF step

----------------------------------------------------------------------------
(* Checkpoints and the whole specification. *)

\* A checkpoint, which excludes all committers, keeps the invariant: nothing is
\* pending, so the WAL may go once everything visible is saved.
LEMMA CheckpointInv ==
    ASSUME CommitInv, checkpoint
    PROVE  CommitInv'
<1> USE DEF CommitInv
<1>1. TypeOK'
  BY CheckpointType
<1>2. /\ \A c \in Committers : pc[c] = "idle" /\ pc'[c] = "idle"
      /\ pc' = pc /\ queue' = queue /\ pending' = pending /\ leader' = leader
      /\ completed' = completed /\ mine' = mine /\ visible' = visible /\ acked' = acked
      /\ saved' = visible /\ version' = version + 1
  BY DEF checkpoint
<1>3. wal' = <<>> \/ wal' = wal
  BY DEF checkpoint
<1>4. /\ next_commit_version \in Nat /\ next_commit_version' \in Nat /\ version \in Nat
      /\ version' <= next_commit_version' /\ next_commit_version <= next_commit_version'
  BY <1>2 DEF checkpoint, TypeOK, OrderInv
<1>5. pending = <<>>
  BY <1>2 DEF LeaderInv, PendingHasLeader
<1>6. MutexInv'
  BY <1>2 DEF MutexInv
<1>7. LeaderInv'
  BY <1>2 DEF LeaderInv, OneLeader, PendingHasLeader
<1>8. OutcomeInv'
  BY <1>2 DEF OutcomeInv
<1>9. LoggedInv'
  BY <1>2, <1>5 DEF LoggedInv, VisibleIsLogged, Range
<1>10. OrderInv'
  <2>1. wal \in Seq(Nat) /\ visible \subseteq Nat
    BY DEF TypeOK
  <2>2. WalAscends' /\ \A i \in DOMAIN wal' : wal'[i] <= next_commit_version'
    <3>1. CASE wal' = <<>>
      BY <3>1 DEF WalAscends
    <3>2. CASE wal' = wal
      BY <1>4, <2>1, <3>2 DEF OrderInv, WalAscends
    <3> QED  BY <1>3, <3>1, <3>2
  <2>3. \A v \in visible' : v <= version'
    BY <1>2, <1>4, <2>1 DEF OrderInv
  <2>4. Ascending(pending') /\ Range(pending') = {}
    BY <1>2, <1>5 DEF Ascending, Range
  <2> QED  BY <1>2, <1>4, <2>2, <2>3, <2>4 DEF OrderInv
<1>11. FailedInv'
  <2>1. failed' = failed /\ poisoned' = poisoned
    BY DEF checkpoint
  <2>2. FailedIsGone'
    BY <1>2, <1>3, <2>1 DEF FailedInv, FailedIsGone, Range
  <2>3. failed \subseteq Nat /\ mine \in [Committers -> Nat]
    BY DEF TypeOK
  <2>4. \A v \in failed : v <= next_commit_version'
    BY <1>4, <2>3 DEF FailedInv
  <2>5. \A c \in Committers : mine[c] <= next_commit_version'
    BY <1>4, <2>3 DEF FailedInv
  <2>6. Range(pending) = {}
    BY <1>5 DEF Range
  <2> QED  BY <1>2, <1>5, <2>1, <2>2, <2>4, <2>5, <2>6 DEF FailedInv
<1> QED  BY <1>1, <1>6, <1>7, <1>8, <1>9, <1>10, <1>11

\* The invariant holds when the store is opened.
LEMMA InitInv == Init => CommitInv
<1> SUFFICES ASSUME Init PROVE CommitInv
  OBVIOUS
<1> USE NoOneAssumption DEF Init
<1>1. TypeOK
  <2>1. leader \in BOOLEAN /\ poisoned \in BOOLEAN
    BY Zenon
  <2>2. pending \in Seq(Nat) /\ batch \in Seq(Nat) /\ wal \in Seq(Nat)
    OBVIOUS
  <2> QED  BY <2>1, <2>2 DEF TypeOK
<1>2. MutexInv /\ OutcomeInv
  BY DEF MutexInv, OutcomeInv, Busy, Leads
<1>3. LeaderInv
  BY DEF LeaderInv, OneLeader, PendingHasLeader, Leads
<1>4. LoggedInv
  BY DEF LoggedInv, VisibleIsLogged, Range
<1>5. OrderInv
  BY DEF OrderInv, WalAscends, Ascending, Range
<1>6. FailedInv
  BY DEF FailedInv, FailedIsGone, Range
<1> QED  BY <1>1, <1>2, <1>3, <1>4, <1>5, <1>6 DEF CommitInv

\* A step that changes nothing keeps the invariant.
LEMMA StutterInv ==
    ASSUME CommitInv, UNCHANGED vars
    PROVE  CommitInv'
<1> USE DEF CommitInv, vars
<1>1. TypeOK'
  BY DEF TypeOK
<1>2. MutexInv' /\ OutcomeInv'
  BY DEF MutexInv, OutcomeInv
<1>3. LeaderInv'
  BY DEF LeaderInv, OneLeader, PendingHasLeader
<1>4. LoggedInv'
  BY DEF LoggedInv, VisibleIsLogged
<1>5. OrderInv'
  BY DEF OrderInv, WalAscends, Ascending
<1>6. FailedInv'
  BY DEF FailedInv, FailedIsGone
<1> QED  BY <1>1, <1>2, <1>3, <1>4, <1>5, <1>6

\* The invariant of group commit holds in every reachable state.
THEOREM CommitInvariant == Spec => []CommitInv
<1>1. CommitInv /\ [Next]_vars => CommitInv'
  <2> SUFFICES ASSUME CommitInv, [Next]_vars PROVE CommitInv'
    OBVIOUS
  <2>1. CASE checkpoint
    BY <2>1, CheckpointInv
  <2>2. ASSUME NEW c \in Committers, enter_commit_gate(c) \/ step(c)
        PROVE  CommitInv'
    BY <2>2, StepTypeOf, StepMutex, StepLeader, StepOutcome, StepLogged, StepOrder, StepFailed
       DEF CommitInv
  <2>3. CASE UNCHANGED vars
    BY <2>3, StutterInv
  <2> QED  BY <2>1, <2>2, <2>3 DEF Next
<1> QED  BY <1>1, InitInv, PTL DEF Spec

\* Durability: for any number of committers, whichever appends, syncs and
\* truncations of commit_with fail, every acknowledged commit is in the WAL or
\* in the last checkpoint.
THEOREM AcknowledgedDurable == Spec => []AcknowledgedIsLogged
<1>1. CommitInv => AcknowledgedIsLogged
  BY DEF CommitInv, LoggedInv, VisibleIsLogged, AcknowledgedIsLogged
<1> QED  BY <1>1, CommitInvariant, PTL

\* A commit reported failed by commit_with never becomes visible, and unless the
\* queue is poisoned no record of it is left for recovery to replay.
THEOREM FailedLeavesNothing == Spec => []FailedIsGone
<1>1. CommitInv => FailedIsGone
  BY DEF CommitInv, FailedInv
<1> QED  BY <1>1, CommitInvariant, PTL

\* Nothing that commit_with makes visible is missing from stable storage.
THEOREM VisibleDurable == Spec => []VisibleIsLogged
<1>1. CommitInv => VisibleIsLogged
  BY DEF CommitInv, LoggedInv
<1> QED  BY <1>1, CommitInvariant, PTL

\* One committer leads at a time, and pending records always have a leader on
\* its way: nobody waits in commit_with for a batch that nobody takes.
THEOREM LeaderForEveryBatch == Spec => [](OneLeader /\ PendingHasLeader)
<1>1. CommitInv => OneLeader /\ PendingHasLeader
  BY DEF CommitInv, LeaderInv
<1> QED  BY <1>1, CommitInvariant, PTL

\* A transaction that begins after a commit was acknowledged sees it: the
\* published version has reached it.
THEOREM AcknowledgedSeen == Spec => []AcknowledgedIsPublished
<1>1. CommitInv => AcknowledgedIsPublished
  BY DEF CommitInv, LoggedInv, OrderInv, AcknowledgedIsPublished
<1> QED  BY <1>1, CommitInvariant, PTL

\* The WAL is replayed in the order of versions.
THEOREM WalInOrder == Spec => []WalAscends
<1>1. CommitInv => WalAscends
  BY DEF CommitInv, OrderInv
<1> QED  BY <1>1, CommitInvariant, PTL

\* The published version never goes back: a batch is newer than what was
\* published before it, checkpoints included.
THEOREM PublishedVersionAdvances == Spec => VersionAdvances
<1>1. CommitInv /\ [Next]_vars => [version' >= version]_vars
  <2> SUFFICES ASSUME CommitInv, [Next]_vars PROVE version' >= version
    OBVIOUS
  <2>0. version \in Nat /\ batch \in Seq(Nat)
    BY DEF CommitInv, TypeOK
  <2>1. CASE checkpoint
    BY <2>0, <2>1 DEF checkpoint
  <2>2. ASSUME NEW c \in Committers, apply_batch(c)
        PROVE  version' >= version
    <3>1. /\ version' = IF batch = <<>> THEN version ELSE batch[Len(batch)]
          /\ Ascending(batch) /\ \A v \in Range(batch) : version < v
      BY <2>2 DEF apply_batch, CommitInv, OrderInv
    <3>2. CASE batch # <<>>
      BY <2>0, <3>1, <3>2, LastIsGreatest
    <3> QED  BY <2>0, <3>1, <3>2
  <2>3. CASE version' = version
    BY <2>0, <2>3
  <2>4. checkpoint \/ (\E c \in Committers : apply_batch(c)) \/ version' = version
    BY DEF Next, vars, step, enter_commit_gate, refuse, assign_version, prepare_fails,
           append_unsynced, append_fails, return, take_pending, sync_succeeds, sync_fails,
           complete_batch
  <2> QED  BY <2>1, <2>2, <2>3, <2>4
<1> QED  BY <1>1, CommitInvariant, PTL DEF Spec, VersionAdvances

============================================================================
