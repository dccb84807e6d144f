------------------------- MODULE StorageFleetProofs -------------------------
(***************************************************************************)
(* Proofs about the storage fleet, for any number of storage nodes, any    *)
(* write quorum that is a majority, any compute nodes and any bounds.      *)
(*                                                                         *)
(* Neither property is inductive: both speak of calls that have returned,  *)
(* while the threads of a call outlive it and the answers are only         *)
(* counted. AckInv and FenceInv say which nodes the counted answers came   *)
(* from: nodes that no thread of the call is asking any more.              *)
(***************************************************************************)
EXTENDS StorageFleet, FiniteSetTheorems, SequenceTheorems, TLAPS

IsSeq(s) == s \in Seq(ToSet(s))

IsCall(c) ==
    /\ c = [kind |-> c.kind, by |-> c.by, token |-> c.token, fences |-> c.fences,
            records |-> c.records, acks |-> c.acks, errors |-> c.errors,
            open |-> c.open, result |-> c.result]
    /\ c.kind \in {"append", "lease"}
    /\ c.token \in Nat
    /\ c.fences \subseteq Nat
    /\ IsSeq(c.records)
    /\ IsSeq(c.acks)
    /\ c.kind = "append" => c.records # <<>>

IsThread(t) ==
    /\ t = [call |-> t.call, node |-> t.node, pc |-> t.pc, max |-> t.max]
    /\ t.call \in DOMAIN calls
    /\ t.node \in Nodes
    /\ t.pc \in {"start", "checked"}

\* A thread of call i has not answered for node n.
Asking(i, n) == \E t \in threads : t.call = i /\ t.node = n

\* The logs and the calls are sequences, tokens are numbers, and a call has at
\* most one thread for each node.
ShapeInv ==
    /\ IsSeq(calls) /\ \A i \in DOMAIN calls : IsCall(calls[i])
    /\ \A t \in threads : IsThread(t)
    /\ \A t, u \in threads : t.call = u.call /\ t.node = u.node => t = u
    /\ DOMAIN wal_buffer = Nodes /\ \A n \in Nodes : IsSeq(wal_buffer[n])
    /\ DOMAIN sink = Computes /\ \A c \in Computes : IsSeq(sink[c])
    /\ node_token \in [Nodes -> Nat]
    /\ fleet_token \in Nat
    /\ token \in [Computes -> Nat]

\* Every acknowledgement of an append came from a node of its own that holds the
\* records for good and is not asked any more.
AckInv ==
    \A i \in DOMAIN calls :
        /\ calls[i].result = "ok" => Len(calls[i].acks) >= W
        /\ calls[i].kind = "append" =>
              Len(calls[i].acks) <= Cardinality({n \in Nodes : Holds(n, i) /\ ~Asking(i, n)})

\* Tokens of leases: the only open one asks for the next token.
LeaseInv ==
    /\ \A i \in DOMAIN calls : calls[i].kind = "lease" =>
          /\ calls[i].token <= fleet_token + 1
          /\ calls[i].open => calls[i].token = fleet_token + 1
    /\ \A i, j \in DOMAIN calls :
          calls[i].kind = "lease" /\ calls[i].open /\ calls[j].kind = "lease" /\ calls[j].open => i = j

\* Nodes that stay out of reach of an append: a write quorum that has the token
\* f and at which no thread of the append has passed the check.
Guarded(i, f, Q) ==
    /\ Cardinality(Q) >= W
    /\ \A n \in Q : node_token[n] >= f
    /\ \A t \in threads : t.call = i /\ t.node \in Q => t.pc = "start"
    /\ Len(calls[i].acks) <= Cardinality({n \in Nodes \ Q : ~Asking(i, n)})

\* Once a lease fences with token f, nobody stores an older token any more.
FenceInv ==
    \A i \in DOMAIN calls : \A f \in calls[i].fences :
        /\ f <= fleet_token + 1
        /\ \A t \in threads : calls[t.call].kind = "lease" => calls[t.call].token >= f
        /\ calls[i].kind = "lease" =>
              /\ f = calls[i].token
              /\ Len(calls[i].acks) <= Cardinality({n \in Nodes : node_token[n] >= f /\ ~Asking(i, n)})
        /\ calls[i].kind = "append" /\ calls[i].token < f => \E Q \in SUBSET Nodes : Guarded(i, f, Q)

FleetInv == ShapeInv /\ AckInv /\ LeaseInv /\ FenceInv

\* What no step changes of a call.
SameCall(i) ==
    /\ calls'[i].kind = calls[i].kind /\ calls'[i].token = calls[i].token
    /\ calls'[i].fences = calls[i].fences /\ calls'[i].records = calls[i].records
SameResult(i) == calls'[i].open = calls[i].open /\ calls'[i].result = calls[i].result

----------------------------------------------------------------------------
(* Sequences. *)

\* A sequence over any set is one over its own members.
LEMMA SeqOverAnything ==
    ASSUME NEW S, NEW s \in Seq(S)
    PROVE  IsSeq(s)
  BY DEF IsSeq, ToSet

\* The empty sequence is one.
LEMMA EmptyIsSeq == IsSeq(<<>>)
<1>1. <<>> \in Seq({})
  OBVIOUS
<1> QED  BY <1>1, SeqOverAnything

\* Concatenation joins the members: a log that grows keeps its records.
LEMMA ConcatMembers ==
    ASSUME NEW a, NEW b, IsSeq(a), IsSeq(b)
    PROVE  IsSeq(a \o b) /\ ToSet(a \o b) = ToSet(a) \cup ToSet(b)
<1> DEFINE S == ToSet(a) \cup ToSet(b)
<1>1. a \in Seq(S) /\ b \in Seq(S)
  BY DEF IsSeq
<1>2. a \o b \in Seq(S)
  BY <1>1
<1>3. /\ Len(a \o b) = Len(a) + Len(b)
      /\ \A i \in 1 .. Len(a) : (a \o b)[i] = a[i]
      /\ \A i \in 1 .. Len(b) : (a \o b)[Len(a) + i] = b[i]
  BY <1>1
<1>4. ToSet(a) \subseteq ToSet(a \o b) /\ ToSet(b) \subseteq ToSet(a \o b)
  <2>1. ASSUME NEW i \in DOMAIN a PROVE i \in DOMAIN (a \o b) /\ (a \o b)[i] = a[i]
    BY <1>1, <1>2, <1>3
  <2>2. ASSUME NEW i \in DOMAIN b PROVE Len(a) + i \in DOMAIN (a \o b) /\ (a \o b)[Len(a) + i] = b[i]
    BY <1>1, <1>2, <1>3
  <2> QED  BY <2>1, <2>2 DEF ToSet
<1>5. ToSet(a \o b) \subseteq S
  BY <1>2 DEF ToSet
<1> QED  BY <1>2, <1>4, <1>5 DEF IsSeq

\* A function on 1 .. n is a sequence of length n.
LEMMA FunctionIsSeq ==
    ASSUME NEW s, NEW n \in Nat, s = [i \in 1 .. n |-> s[i]]
    PROVE  IsSeq(s) /\ Len(s) = n
<1>1. s \in [1 .. n -> ToSet(s)]
  BY DEF ToSet
<1>2. s \in Seq(ToSet(s))
  BY <1>1
<1> QED  BY <1>1, <1>2 DEF IsSeq

\* What Between and ChangesOf keep of a sequence is a sequence.
LEMMA FilterIsSeq ==
    ASSUME NEW s, IsSeq(s), NEW S
    PROVE  IsSeq(Filter(s, S))
<1> DEFINE I == {i \in DOMAIN s : s[i] \in S}
<1>1. DOMAIN s = 1 .. Len(s) /\ Len(s) \in Nat
  BY DEF IsSeq
<1>2. Cardinality(I) \in Nat
  <2>1. IsFiniteSet(1 .. Len(s)) /\ I \in SUBSET (1 .. Len(s))
    BY <1>1, FS_Interval
  <2> QED  BY <2>1, FS_Subset, FS_CardinalityType
<1>3. Filter(s, S) = [n \in 1 .. Cardinality(I) |-> Filter(s, S)[n]]
  BY DEF Filter
<1> QED  BY <1>2, <1>3, FunctionIsSeq

\* The records of a commit are a sequence with at least the marker.
LEMMA RecordsIsSeq ==
    ASSUME NEW changes, IsSeq(changes), NEW base
    PROVE  IsSeq(Records(changes, base)) /\ Records(changes, base) # <<>>
<1>1. Len(changes) + 1 \in Nat /\ Len(changes) + 1 > 0
  BY DEF IsSeq
<1>2. Records(changes, base) = [i \in 1 .. Len(changes) + 1 |-> Records(changes, base)[i]]
  BY DEF Records
<1>3. IsSeq(Records(changes, base)) /\ Len(Records(changes, base)) = Len(changes) + 1
  BY <1>1, <1>2, FunctionIsSeq
<1> QED  BY <1>1, <1>3

----------------------------------------------------------------------------
(* What threads and callers do to the calls. *)

\* A call that is replaced by one of the same shape leaves a sequence of calls.
LEMMA ReplacedCall ==
    ASSUME ShapeInv, NEW i \in DOMAIN calls, NEW c, IsCall(c),
           calls' = [calls EXCEPT ![i] = c]
    PROVE  /\ IsSeq(calls') /\ DOMAIN calls' = DOMAIN calls
           /\ calls'[i] = c
           /\ \A j \in DOMAIN calls : j # i => calls'[j] = calls[j]
           /\ \A j \in DOMAIN calls : IsCall(calls'[j])
<1>1. calls' \in Seq(ToSet(calls) \cup {c})
  <2>1. calls \in Seq(ToSet(calls) \cup {c})
    BY DEF ShapeInv, IsSeq
  <2> QED  BY <2>1
<1>2. IsSeq(calls') /\ DOMAIN calls' = DOMAIN calls
  BY <1>1, SeqOverAnything
<1>3. calls'[i] = c /\ \A j \in DOMAIN calls : j # i => calls'[j] = calls[j]
  OBVIOUS
<1> QED  BY <1>2, <1>3 DEF ShapeInv

\* An answer adds one acknowledgement to its call and nothing else.
LEMMA AnswerEffect ==
    ASSUME ShapeInv, NEW t \in threads, NEW lsn, Answer(t, lsn)
    PROVE  /\ IsSeq(calls') /\ DOMAIN calls' = DOMAIN calls
           /\ \A j \in DOMAIN calls : IsCall(calls'[j]) /\ SameCall(j) /\ SameResult(j)
           /\ \A j \in DOMAIN calls :
                 Len(calls'[j].acks) = Len(calls[j].acks) + (IF j = t.call THEN 1 ELSE 0)
<1> DEFINE c == calls[t.call]
           d == [c EXCEPT !.acks = Append(@, lsn)]
<1>1. t.call \in DOMAIN calls /\ IsCall(c)
  BY DEF ShapeInv, IsThread
<1>2. calls' = [calls EXCEPT ![t.call] = d]
  BY DEF Answer
<1>3. c.acks \in Seq(ToSet(c.acks) \cup {lsn})
  BY <1>1 DEF IsCall, IsSeq
<1>4. IsSeq(Append(c.acks, lsn)) /\ Len(Append(c.acks, lsn)) = Len(c.acks) + 1
  <2>1. /\ Append(c.acks, lsn) \in Seq(ToSet(c.acks) \cup {lsn})
        /\ Len(Append(c.acks, lsn)) = Len(c.acks) + 1
    BY <1>3, AppendProperties
  <2> QED  BY <2>1, SeqOverAnything
<1>5. d = [kind |-> c.kind, by |-> c.by, token |-> c.token, fences |-> c.fences,
           records |-> c.records, acks |-> Append(c.acks, lsn), errors |-> c.errors,
           open |-> c.open, result |-> c.result]
  BY <1>1 DEF IsCall
<1> HIDE DEF d
<1>6. IsCall(d)
  BY <1>1, <1>4, <1>5 DEF IsCall
<1>7. /\ IsSeq(calls') /\ DOMAIN calls' = DOMAIN calls /\ calls'[t.call] = d
      /\ \A j \in DOMAIN calls : j # t.call => calls'[j] = calls[j]
      /\ \A j \in DOMAIN calls : IsCall(calls'[j])
  BY <1>1, <1>2, <1>6, ReplacedCall
<1>8. ASSUME NEW j \in DOMAIN calls
      PROVE  /\ SameCall(j) /\ SameResult(j)
             /\ Len(calls'[j].acks) = Len(calls[j].acks) + (IF j = t.call THEN 1 ELSE 0)
  <2>1. CASE j = t.call
    BY <2>1, <1>4, <1>5, <1>7 DEF SameCall, SameResult
  <2>2. CASE j # t.call
    <3>1. Len(calls[j].acks) \in Nat
      BY DEF ShapeInv, IsCall, IsSeq
    <3> QED  BY <2>2, <3>1, <1>7 DEF SameCall, SameResult
  <2> QED  BY <2>1, <2>2
<1> QED  BY <1>7, <1>8

\* An error changes neither the acknowledgements nor the result.
LEMMA ErrorEffect ==
    ASSUME ShapeInv, NEW t \in threads, AnswerError(t)
    PROVE  /\ IsSeq(calls') /\ DOMAIN calls' = DOMAIN calls
           /\ \A j \in DOMAIN calls : IsCall(calls'[j]) /\ SameCall(j) /\ SameResult(j)
           /\ \A j \in DOMAIN calls : calls'[j].acks = calls[j].acks
<1> DEFINE c == calls[t.call]
           d == [c EXCEPT !.errors = @ + 1]
<1>1. t.call \in DOMAIN calls /\ IsCall(c)
  BY DEF ShapeInv, IsThread
<1>2. calls' = [calls EXCEPT ![t.call] = d]
  BY DEF AnswerError
<1>3. d = [kind |-> c.kind, by |-> c.by, token |-> c.token, fences |-> c.fences,
           records |-> c.records, acks |-> c.acks, errors |-> c.errors + 1,
           open |-> c.open, result |-> c.result]
  BY <1>1 DEF IsCall
<1> HIDE DEF d
<1>4. IsCall(d)
  BY <1>1, <1>3 DEF IsCall
<1>5. /\ IsSeq(calls') /\ DOMAIN calls' = DOMAIN calls /\ calls'[t.call] = d
      /\ \A j \in DOMAIN calls : j # t.call => calls'[j] = calls[j]
      /\ \A j \in DOMAIN calls : IsCall(calls'[j])
  BY <1>1, <1>2, <1>4, ReplacedCall
<1> QED  BY <1>3, <1>5 DEF SameCall, SameResult

\* The fields of a call after Close.
LEMMA ClosedRecord ==
    ASSUME NEW c, IsCall(c), NEW open, NEW result
    PROVE  [c EXCEPT !.open = open, !.result = result] =
              [kind |-> c.kind, by |-> c.by, token |-> c.token, fences |-> c.fences,
               records |-> c.records, acks |-> c.acks, errors |-> c.errors,
               open |-> open, result |-> result]
<1> DEFINE e == [c EXCEPT !.open = open]
<1>1. e = [kind |-> c.kind, by |-> c.by, token |-> c.token, fences |-> c.fences,
           records |-> c.records, acks |-> c.acks, errors |-> c.errors,
           open |-> open, result |-> c.result]
  BY DEF IsCall
<1>2. [c EXCEPT !.open = open, !.result = result] = [e EXCEPT !.result = result]
  OBVIOUS
<1> HIDE DEF e
<1> QED  BY <1>1, <1>2

\* The end of a call changes only whether it is open and its result.
LEMMA CloseEffect ==
    ASSUME ShapeInv, NEW i \in DOMAIN calls, NEW result, Close(i, result)
    PROVE  /\ IsSeq(calls') /\ DOMAIN calls' = DOMAIN calls
           /\ \A j \in DOMAIN calls : IsCall(calls'[j]) /\ SameCall(j) /\ calls'[j].acks = calls[j].acks
           /\ \A j \in DOMAIN calls : j # i => SameResult(j)
           /\ calls'[i].open = FALSE /\ calls'[i].result = result
<1> DEFINE c == calls[i]
           d == [c EXCEPT !.open = FALSE, !.result = result]
<1>1. IsCall(c)
  BY DEF ShapeInv
<1>2. calls' = [calls EXCEPT ![i] = d]
  BY DEF Close
<1>3. d = [kind |-> c.kind, by |-> c.by, token |-> c.token, fences |-> c.fences,
           records |-> c.records, acks |-> c.acks, errors |-> c.errors,
           open |-> FALSE, result |-> result]
  BY <1>1, ClosedRecord
<1> HIDE DEF d
<1>4. IsCall(d)
  BY <1>1, <1>3 DEF IsCall
<1>5. /\ IsSeq(calls') /\ DOMAIN calls' = DOMAIN calls /\ calls'[i] = d
      /\ \A j \in DOMAIN calls : j # i => calls'[j] = calls[j]
      /\ \A j \in DOMAIN calls : IsCall(calls'[j])
  BY <1>2, <1>4, ReplacedCall
<1> QED  BY <1>3, <1>5 DEF SameCall, SameResult

\* A thread that has answered is gone; nobody else asks its node for its call.
LEMMA EndEffect ==
    ASSUME ShapeInv, NEW t \in threads, threads' = threads \ {t}, DOMAIN calls' = DOMAIN calls
    PROVE  /\ \A u \in threads' : IsThread(u)'
           /\ \A u, v \in threads' : u.call = v.call /\ u.node = v.node => u = v
           /\ Asking(t.call, t.node)
           /\ ~Asking(t.call, t.node)'
           /\ \A i, n : i # t.call \/ n # t.node => (Asking(i, n)' <=> Asking(i, n))
<1>1. /\ \A u \in threads' : IsThread(u)'
      /\ \A u, v \in threads' : u.call = v.call /\ u.node = v.node => u = v
  BY DEF ShapeInv, IsThread
<1>2. Asking(t.call, t.node) /\ ~Asking(t.call, t.node)'
  BY DEF ShapeInv, Asking
<1>3. \A i, n : i # t.call \/ n # t.node => (Asking(i, n)' <=> Asking(i, n))
  BY DEF Asking
<1> QED  BY <1>1, <1>2, <1>3

\* A thread that goes on asks the same node for the same call.
LEMMA MoveEffect ==
    ASSUME ShapeInv, NEW t \in threads, NEW u, Move(t, u), UNCHANGED calls,
           u = [call |-> t.call, node |-> t.node, pc |-> "checked", max |-> u.max]
    PROVE  /\ \A v \in threads' : IsThread(v)'
           /\ \A v, w \in threads' : v.call = w.call /\ v.node = w.node => v = w
           /\ \A i, n : Asking(i, n)' <=> Asking(i, n)
<1>1. IsThread(u)' /\ u.call = t.call /\ u.node = t.node
  BY DEF ShapeInv, IsThread
<1>2. threads' = (threads \ {t}) \cup {u}
  BY DEF Move
<1>3. \A v \in threads : IsThread(v)'
  BY DEF ShapeInv, IsThread
<1>4. \A v, w \in threads' : v.call = w.call /\ v.node = w.node => v = w
  BY <1>1, <1>2 DEF ShapeInv
<1>5. \A i, n : Asking(i, n)' <=> Asking(i, n)
  BY <1>1, <1>2 DEF Asking
<1> QED  BY <1>1, <1>2, <1>3, <1>4, <1>5

\* A new call asks every node once.
LEMMA SpawnEffect ==
    ASSUME ShapeInv, NEW call, IsCall(call), Spawn(call), NEW new, new = Len(calls) + 1
    PROVE  /\ IsSeq(calls') /\ new \notin DOMAIN calls /\ DOMAIN calls' = DOMAIN calls \cup {new}
           /\ calls'[new] = call
           /\ \A i \in DOMAIN calls : calls'[i] = calls[i]
           /\ \A i \in DOMAIN calls' : IsCall(calls'[i])
           /\ \A t \in threads' : IsThread(t)'
           /\ \A t, u \in threads' : t.call = u.call /\ t.node = u.node => t = u
           /\ \A t \in threads' : t \in threads \/ (t.call = new /\ t.pc = "start")
           /\ \A n \in Nodes : Asking(new, n)'
           /\ \A i \in DOMAIN calls : \A n : Asking(i, n)' <=> Asking(i, n)
<1> DEFINE fresh == {[call |-> new, node |-> n, pc |-> "start", max |-> 0] : n \in Nodes}
<1>1. calls \in Seq(ToSet(calls) \cup {call}) /\ calls' = Append(calls, call)
  BY DEF ShapeInv, IsSeq, Spawn
<1>2. /\ calls' \in Seq(ToSet(calls) \cup {call})
      /\ Len(calls') = new
      /\ calls'[new] = call
      /\ \A i \in 1 .. Len(calls) : calls'[i] = calls[i]
  BY <1>1, AppendProperties
<1>3. /\ DOMAIN calls = 1 .. Len(calls) /\ Len(calls) \in Nat /\ DOMAIN calls' = 1 .. new
  BY <1>1, <1>2
<1>4. IsSeq(calls') /\ new \notin DOMAIN calls /\ DOMAIN calls' = DOMAIN calls \cup {new}
  BY <1>2, <1>3, SeqOverAnything
<1>5. \A i \in DOMAIN calls' : IsCall(calls'[i])
  BY <1>2, <1>3, <1>4 DEF ShapeInv
<1>6. threads' = threads \cup fresh
  BY DEF Spawn
<1>7. \A t \in fresh : IsThread(t)' /\ t.call = new /\ t.pc = "start"
  BY <1>4 DEF IsThread
<1>8. \A t \in threads : IsThread(t)' /\ t.call # new
  BY <1>4 DEF ShapeInv, IsThread
<1>9. \A t, u \in threads' : t.call = u.call /\ t.node = u.node => t = u
  <2>1. \A t, u \in fresh : t.node = u.node => t = u
    OBVIOUS
  <2> QED  BY <1>6, <1>7, <1>8, <2>1 DEF ShapeInv
<1>10. \A n \in Nodes : Asking(new, n)'
  <2> SUFFICES ASSUME NEW n \in Nodes PROVE Asking(new, n)'
    OBVIOUS
  <2>1. [call |-> new, node |-> n, pc |-> "start", max |-> 0] \in threads'
    BY <1>6
  <2> QED  BY <2>1, <1>2 DEF Asking
<1>11. \A i \in DOMAIN calls : \A n : Asking(i, n)' <=> Asking(i, n)
  BY <1>4, <1>6, <1>7 DEF Asking
<1> QED  BY <1>2, <1>3, <1>4, <1>5, <1>6, <1>7, <1>8, <1>9, <1>10, <1>11

----------------------------------------------------------------------------
(* Shape. *)

\* Logs only grow: append_logs and gossip_sync_from add records, nothing takes
\* one away.
LEMMA StepLogs ==
    ASSUME ShapeInv, [Next]_vars
    PROVE  /\ DOMAIN wal_buffer' = Nodes
           /\ \A n \in Nodes : IsSeq(wal_buffer'[n]) /\ ToSet(wal_buffer[n]) \subseteq ToSet(wal_buffer'[n])
<1>1. ASSUME NEW m \in Nodes, NEW new, IsSeq(new), wal_buffer' = [wal_buffer EXCEPT ![m] = @ \o new]
      PROVE  /\ DOMAIN wal_buffer' = Nodes
             /\ \A n \in Nodes : IsSeq(wal_buffer'[n]) /\ ToSet(wal_buffer[n]) \subseteq ToSet(wal_buffer'[n])
  <2>1. IsSeq(wal_buffer[m] \o new) /\ ToSet(wal_buffer[m]) \subseteq ToSet(wal_buffer[m] \o new)
    BY <1>1, ConcatMembers DEF ShapeInv
  <2>2. wal_buffer'[m] = wal_buffer[m] \o new /\ DOMAIN wal_buffer' = Nodes
    BY <1>1 DEF ShapeInv
  <2>3. \A n \in Nodes : n # m => wal_buffer'[n] = wal_buffer[n]
    BY <1>1 DEF ShapeInv
  <2> QED  BY <2>1, <2>2, <2>3 DEF ShapeInv
<1>2. ASSUME NEW t \in threads, append_push(t)
      PROVE  \E m \in Nodes : \E new : IsSeq(new) /\ wal_buffer' = [wal_buffer EXCEPT ![m] = @ \o new]
  <2>1. t.node \in Nodes /\ IsSeq(calls[t.call].records)
    BY DEF ShapeInv, IsThread, IsCall
  <2>2. wal_buffer' = [wal_buffer EXCEPT ![t.node] = @ \o calls[t.call].records]
    BY <1>2 DEF append_push
  <2> QED  BY <2>1, <2>2
<1>3. ASSUME NEW n \in Nodes, NEW m \in Nodes, gossip_sync_from(n, m)
      PROVE  \E k \in Nodes : \E new : IsSeq(new) /\ wal_buffer' = [wal_buffer EXCEPT ![k] = @ \o new]
  <2> DEFINE missing == Between(wal_buffer[m], flushed_lsn[n], flushed_lsn[m])
  <2>1. IsSeq(missing)
    BY FilterIsSeq DEF Between, ShapeInv
  <2>2. wal_buffer' = [wal_buffer EXCEPT ![n] = @ \o missing]
    BY <1>3 DEF gossip_sync_from, ShapeInv
  <2> QED  BY <2>1, <2>2
<1>4. \/ \E t \in threads : append_push(t)
      \/ \E n, m \in Nodes : gossip_sync_from(n, m)
      \/ UNCHANGED wal_buffer
  BY DEF vars, nodes, fleet, computes, Next, ThreadStep, CallStep,
         append_check, lease_load, lease_store, append_acked,
         append_failed, promoted, promotion_failed, write,
         get_base, get_overlay, failover_to_replica, set_state,
         materialize_pending
<1>5. CASE UNCHANGED wal_buffer
  BY <1>5 DEF ShapeInv
<1> QED  BY <1>1, <1>2, <1>3, <1>4, <1>5

\* The changes a compute node has collected stay a sequence, whatever remote
\* commits and reads add to them.
LEMMA StepSinks ==
    ASSUME ShapeInv, [Next]_vars
    PROVE  DOMAIN sink' = Computes /\ \A c \in Computes : IsSeq(sink'[c])
<1>1. ASSUME NEW c \in Computes, NEW k, NEW v, write(c, k, v)
      PROVE  DOMAIN sink' = Computes /\ \A d \in Computes : IsSeq(sink'[d])
  <2> QED  BY <1>1, EmptyIsSeq DEF write, ShapeInv
<1>2. ASSUME NEW i \in DOMAIN calls, append_acked(i)
      PROVE  DOMAIN sink' = Computes /\ \A d \in Computes : IsSeq(sink'[d])
  <2> DEFINE new == ChangesOf(calls[i].records)
  <2>1. IsSeq(calls[i].records)
    BY DEF ShapeInv, IsCall
  <2>2. IsSeq(new)
    <3> DEFINE puts == Filter(calls[i].records, {r \in ToSet(calls[i].records) : r.key \in Keys})
    <3>1. IsSeq(puts)
      BY <2>1, FilterIsSeq
    <3>2. DOMAIN puts = 1 .. Len(puts) /\ Len(puts) \in Nat
      BY <3>1 DEF IsSeq
    <3>3. new = [j \in DOMAIN puts |-> new[j]]
      BY DEF ChangesOf
    <3> HIDE DEF puts, new
    <3> QED  BY <3>2, <3>3, FunctionIsSeq
  <2>3. \A d \in Computes : IsSeq(sink[d] \o new)
    BY <2>2, ConcatMembers DEF ShapeInv
  <2>4. /\ DOMAIN sink' = Computes
        /\ \A d \in Computes : sink'[d] = sink[d] \/ sink'[d] = sink[d] \o new
    BY <1>2 DEF append_acked
  <2> QED  BY <2>3, <2>4 DEF ShapeInv
<1>3. ASSUME NEW c \in Computes, get_overlay(c)
      PROVE  DOMAIN sink' = Computes /\ \A d \in Computes : IsSeq(sink'[d])
  <2>1. PICK change : sink' = sink \/ sink' = [sink EXCEPT ![c] = Append(@, change)]
    BY <1>3 DEF get_overlay
  <2>2. IsSeq(Append(sink[c], change))
    <3>1. sink[c] \in Seq(ToSet(sink[c]) \cup {change})
      BY DEF ShapeInv, IsSeq
    <3> QED  BY <3>1, AppendProperties, SeqOverAnything
  <2> QED  BY <2>1, <2>2 DEF ShapeInv
<1>4. \/ \E c \in Computes, k \in Keys, v \in {0, Len(calls) + 1} : write(c, k, v)
      \/ \E i \in DOMAIN calls : append_acked(i)
      \/ \E c \in Computes : get_overlay(c)
      \/ UNCHANGED sink
  BY DEF vars, nodes, fleet, computes, Next, ThreadStep, CallStep,
         append_check, append_push, lease_load, lease_store,
         append_failed, promoted, promotion_failed, get_base,
         failover_to_replica, set_state, materialize_pending,
         gossip_sync_from
<1>5. CASE UNCHANGED sink
  BY <1>5 DEF ShapeInv
<1> QED  BY <1>1, <1>2, <1>3, <1>4, <1>5

\* Tokens are numbers.
LEMMA StepTokens ==
    ASSUME ShapeInv, [Next]_vars
    PROVE  node_token' \in [Nodes -> Nat] /\ fleet_token' \in Nat /\ token' \in [Computes -> Nat]
<1>1. ASSUME NEW t \in threads, lease_store(t)
      PROVE  node_token' \in [Nodes -> Nat] /\ UNCHANGED <<fleet_token, token>>
  <2>1. calls[t.call].token \in Nat
    BY DEF ShapeInv, IsThread, IsCall
  <2> QED  BY <1>1, <2>1 DEF lease_store, ShapeInv, fleet, computes
<1>2. ASSUME NEW i \in DOMAIN calls, promoted(i)
      PROVE  UNCHANGED node_token /\ fleet_token' \in Nat /\ token' \in [Computes -> Nat]
  <2>1. calls[i].token \in Nat
    BY DEF ShapeInv, IsCall
  <2> QED  BY <1>2, <2>1 DEF promoted, ShapeInv, nodes
<1>3. \/ \E t \in threads : lease_store(t)
      \/ \E i \in DOMAIN calls : promoted(i)
      \/ UNCHANGED <<node_token, fleet_token, token>>
  BY DEF vars, nodes, fleet, computes, Next, ThreadStep, CallStep,
         append_check, append_push, lease_load, append_acked,
         append_failed, promotion_failed, write, get_base,
         get_overlay, failover_to_replica, set_state,
         materialize_pending, gossip_sync_from
<1> QED  BY <1>1, <1>2, <1>3 DEF ShapeInv

\* The steps that concern calls, threads and tokens.
LEMMA StepKinds ==
    ASSUME [Next]_vars
    PROVE  \/ \E t \in threads : append_check(t) \/ lease_load(t)
           \/ \E t \in threads : append_push(t)
           \/ \E t \in threads : lease_store(t)
           \/ \E i \in DOMAIN calls : append_acked(i)
           \/ \E i \in DOMAIN calls : append_failed(i) \/ promotion_failed(i)
           \/ \E i \in DOMAIN calls : promoted(i)
           \/ \E c \in Computes, k \in Keys, v \in {0, Len(calls) + 1} : write(c, k, v)
           \/ \E c \in Computes : failover_to_replica(c)
           \/ UNCHANGED <<calls, threads, node_token, fleet_token>>
  BY DEF vars, nodes, fleet, computes, Next, ThreadStep, CallStep, get_base, get_overlay,
         set_state, materialize_pending, gossip_sync_from

\* A thread that checks its node goes on or gives up with an error; of an append
\* only one whose token is not older than the node's goes on.
LEMMA CheckKinds ==
    ASSUME ShapeInv, NEW t \in threads, append_check(t) \/ lease_load(t)
    PROVE  /\ \/ AnswerError(t)
              \/ /\ UNCHANGED calls
                 /\ t.pc = "start"
                 /\ calls[t.call].token >= node_token[t.node]
                 /\ \E u : Move(t, u) /\ u = [call |-> t.call, node |-> t.node, pc |-> "checked", max |-> u.max]
           /\ UNCHANGED <<node_token, fleet_token, wal_buffer>>
<1>1. t = [call |-> t.call, node |-> t.node, pc |-> t.pc, max |-> t.max]
  BY DEF ShapeInv, IsThread
<1>2. CASE append_check(t)
  <2> DEFINE w == [t EXCEPT !.pc = "checked"]
             u == [t EXCEPT !.pc = "checked", !.max = flushed_lsn[t.node]]
  <2>1. u = [call |-> t.call, node |-> t.node, pc |-> "checked", max |-> u.max]
    <3>1. w = [call |-> t.call, node |-> t.node, pc |-> "checked", max |-> t.max]
      BY <1>1
    <3>2. u = [w EXCEPT !.max = flushed_lsn[t.node]]
      OBVIOUS
    <3> HIDE DEF w, u
    <3> QED  BY <3>1, <3>2
  <2> HIDE DEF u
  <2>2. \/ AnswerError(t)
        \/ UNCHANGED calls /\ t.pc = "start" /\ calls[t.call].token >= node_token[t.node] /\ Move(t, u)
    BY <1>2 DEF append_check, u
  <2>3. UNCHANGED <<node_token, fleet_token, wal_buffer>>
    BY <1>2 DEF append_check, nodes, fleet
  <2> QED  BY <2>1, <2>2, <2>3
<1>3. CASE lease_load(t)
  <2> DEFINE u == [t EXCEPT !.pc = "checked"]
  <2>1. u = [call |-> t.call, node |-> t.node, pc |-> "checked", max |-> u.max]
    BY <1>1
  <2> HIDE DEF u
  <2>2. \/ AnswerError(t)
        \/ UNCHANGED calls /\ t.pc = "start" /\ calls[t.call].token >= node_token[t.node] /\ Move(t, u)
    BY <1>3 DEF lease_load, u
  <2>3. UNCHANGED <<node_token, fleet_token, wal_buffer>>
    BY <1>3 DEF lease_load, nodes, fleet
  <2> QED  BY <2>1, <2>2, <2>3
<1> QED  BY <1>2, <1>3

\* The call that put and delete start.
LEMMA WriteEffect ==
    ASSUME ShapeInv, NEW c \in Computes, NEW k, NEW v, write(c, k, v)
    PROVE  /\ \E call : /\ IsCall(call) /\ Spawn(call)
                        /\ call.kind = "append" /\ call.acks = <<>> /\ call.result = "none"
                        /\ call.fences = Granted
           /\ UNCHANGED <<node_token, fleet_token, wal_buffer>>
<1> DEFINE changes == Append(sink[c], [key |-> k, value |-> v])
           call == [kind |-> "append", by |-> c, token |-> token[c], fences |-> Granted,
                    records |-> Records(changes, current_lsn[c]), acks |-> <<>>, errors |-> 0,
                    open |-> TRUE, result |-> "none"]
<1>1. Spawn(call) /\ UNCHANGED <<node_token, fleet_token, wal_buffer>>
  BY DEF write, nodes, fleet
<1>2. IsSeq(changes)
  <2>1. sink[c] \in Seq(ToSet(sink[c]) \cup {[key |-> k, value |-> v]})
    BY DEF ShapeInv, IsSeq
  <2> QED  BY <2>1, AppendProperties, SeqOverAnything
<1>3. Granted \subseteq Nat
  BY DEF Granted, ShapeInv, IsCall
<1>4. token[c] \in Nat
  BY DEF ShapeInv
<1> HIDE DEF changes
<1>5. IsCall(call)
  BY <1>2, <1>3, <1>4, RecordsIsSeq, EmptyIsSeq DEF IsCall
<1>6. call.kind = "append" /\ call.acks = <<>> /\ call.result = "none" /\ call.fences = Granted
  OBVIOUS
<1> HIDE DEF call
<1> QED  BY <1>1, <1>5, <1>6

\* The call that failover_to_replica starts.
LEMMA FailoverEffect ==
    ASSUME ShapeInv, NEW c \in Computes, failover_to_replica(c)
    PROVE  /\ \E call : /\ IsCall(call) /\ Spawn(call)
                        /\ call.kind = "lease" /\ call.acks = <<>> /\ call.result = "none"
                        /\ call.token = fleet_token + 1 /\ call.fences = Fences(fleet_token + 1)
           /\ ~\E i \in DOMAIN calls : calls[i].kind = "lease" /\ calls[i].open
           /\ UNCHANGED <<node_token, fleet_token, wal_buffer>>
<1> DEFINE call == [kind |-> "lease", by |-> c, token |-> fleet_token + 1,
                    fences |-> Fences(fleet_token + 1), records |-> <<>>, acks |-> <<>>,
                    errors |-> 0, open |-> TRUE, result |-> "none"]
<1>1. /\ Spawn(call) /\ UNCHANGED <<node_token, fleet_token, wal_buffer>>
      /\ ~\E i \in DOMAIN calls : calls[i].kind = "lease" /\ calls[i].open
  BY DEF failover_to_replica, nodes, fleet
<1>2. fleet_token + 1 \in Nat /\ Fences(fleet_token + 1) \subseteq Nat
  BY DEF ShapeInv, Fences
<1>3. IsCall(call)
  BY <1>2, EmptyIsSeq DEF IsCall
<1>4. /\ call.kind = "lease" /\ call.acks = <<>> /\ call.result = "none"
      /\ call.token = fleet_token + 1 /\ call.fences = Fences(fleet_token + 1)
  OBVIOUS
<1> HIDE DEF call
<1> QED  BY <1>1, <1>3, <1>4

\* Every step keeps the shape of the state.
LEMMA StepShape ==
    ASSUME ShapeInv, [Next]_vars
    PROVE  ShapeInv'
<1> DEFINE CallsOK == /\ IsSeq(calls') /\ \A i \in DOMAIN calls' : IsCall(calls'[i])
                      /\ \A t \in threads' : IsThread(t)'
                      /\ \A t, u \in threads' : t.call = u.call /\ t.node = u.node => t = u
<1>1. ASSUME NEW t \in threads, AnswerError(t) PROVE CallsOK
  <2>1. threads' = threads \ {t}
    BY <1>1 DEF AnswerError
  <2> QED  BY <1>1, <2>1, ErrorEffect, EndEffect
<1>2. ASSUME NEW t \in threads, NEW lsn, Answer(t, lsn) PROVE CallsOK
  <2>1. threads' = threads \ {t}
    BY <1>2 DEF Answer
  <2> QED  BY <1>2, <2>1, AnswerEffect, EndEffect
<1>3. ASSUME NEW t \in threads, append_check(t) \/ lease_load(t) PROVE CallsOK
  <2>1. CASE AnswerError(t)
    BY <1>1, <2>1
  <2>2. ASSUME UNCHANGED calls,
               NEW u, Move(t, u), u = [call |-> t.call, node |-> t.node, pc |-> "checked", max |-> u.max]
        PROVE  CallsOK
    BY <2>2, MoveEffect DEF ShapeInv
  <2> QED  BY <1>3, <2>1, <2>2, CheckKinds
<1>4. ASSUME NEW t \in threads, append_push(t) \/ lease_store(t) PROVE CallsOK
  BY <1>2, <1>4 DEF append_push, lease_store
<1>5. ASSUME NEW i \in DOMAIN calls,
             append_acked(i) \/ append_failed(i) \/ promoted(i) \/ promotion_failed(i)
      PROVE  CallsOK
  <2>1. UNCHANGED threads /\ \E result : Close(i, result)
    BY <1>5 DEF append_acked, append_failed, promoted, promotion_failed
  <2>2. IsSeq(calls') /\ DOMAIN calls' = DOMAIN calls /\ \A j \in DOMAIN calls : IsCall(calls'[j])
    BY <2>1, CloseEffect
  <2> QED  BY <2>1, <2>2 DEF ShapeInv, IsThread
<1>6. ASSUME NEW call, IsCall(call), Spawn(call) PROVE CallsOK
  BY <1>6, SpawnEffect
<1>7. ASSUME UNCHANGED <<calls, threads, node_token, fleet_token>> PROVE CallsOK
  <2>1. calls' = calls /\ threads' = threads
    BY <1>7
  <2>2. \A t \in threads : IsThread(t)'
    BY <2>1 DEF ShapeInv, IsThread
  <2>3. IsSeq(calls') /\ \A i \in DOMAIN calls' : IsCall(calls'[i])
    BY <2>1 DEF ShapeInv, IsSeq
  <2>4. \A t, u \in threads' : t.call = u.call /\ t.node = u.node => t = u
    BY <2>1 DEF ShapeInv
  <2> QED  BY <2>1, <2>2, <2>3, <2>4
<1> HIDE DEF CallsOK
<1>8. CallsOK
  <2>1. ASSUME NEW c \in Computes, NEW k, NEW v, write(c, k, v) PROVE CallsOK
    BY <1>6, <2>1, WriteEffect
  <2>2. ASSUME NEW c \in Computes, failover_to_replica(c) PROVE CallsOK
    BY <1>6, <2>2, FailoverEffect
  <2> QED  BY <1>3, <1>4, <1>5, <1>7, <2>1, <2>2, StepKinds
<1> USE DEF CallsOK
<1> QED  BY <1>8, StepLogs, StepSinks, StepTokens DEF ShapeInv

----------------------------------------------------------------------------
(* Acknowledged appends. *)

\* Cardinalities of sets of nodes are those of finite sets.
LEMMA NodeSets ==
    /\ IsFiniteSet(Nodes) /\ Cardinality(Nodes) = N
    /\ \A S \in SUBSET Nodes : IsFiniteSet(S) /\ Cardinality(S) \in Nat
    /\ \A S, T \in SUBSET Nodes : S \subseteq T => Cardinality(S) <= Cardinality(T)
    /\ \A S, T \in SUBSET Nodes : \A n \in T \ S : S \subseteq T => Cardinality(S) + 1 <= Cardinality(T)
<1>1. IsFiniteSet(Nodes) /\ Cardinality(Nodes) = N
  BY FS_Interval, QuorumAssumption DEF Nodes
<1>2. \A S \in SUBSET Nodes : IsFiniteSet(S) /\ Cardinality(S) \in Nat
  BY <1>1, FS_Subset, FS_CardinalityType
<1>3. \A S, T \in SUBSET Nodes : S \subseteq T => Cardinality(S) <= Cardinality(T)
  BY <1>2, FS_Subset
<1>4. ASSUME NEW S \in SUBSET Nodes, NEW T \in SUBSET Nodes, NEW n \in T \ S, S \subseteq T
      PROVE  Cardinality(S) + 1 <= Cardinality(T)
  <2>1. Cardinality(S \cup {n}) = Cardinality(S) + 1
    BY <1>2, FS_AddElement
  <2>2. S \cup {n} \subseteq T /\ S \cup {n} \in SUBSET Nodes
    BY <1>4
  <2> QED  BY <1>3, <2>1, <2>2
<1> QED  BY <1>1, <1>2, <1>3, <1>4

\* A node that holds the records of a call holds them for good.
LEMMA HoldsKept ==
    ASSUME ShapeInv, [Next]_vars, NEW i \in DOMAIN calls, SameCall(i), NEW n \in Nodes, Holds(n, i)
    PROVE  Holds(n, i)'
  BY StepLogs DEF Holds, SameCall

\* Every acknowledgement of an append adds a node that holds it: append_logs
\* pushes the records before its thread answers.
LEMMA StepAck ==
    ASSUME ShapeInv, AckInv, [Next]_vars
    PROVE  AckInv'
<1> DEFINE Done(i) == {n \in Nodes : Holds(n, i) /\ ~Asking(i, n)}
           Kept(i) == /\ calls'[i].result = "ok" => Len(calls'[i].acks) >= W
                      /\ calls'[i].kind = "append" => Len(calls'[i].acks) <= Cardinality(Done(i)')
<1> SUFFICES ASSUME NEW i \in DOMAIN calls' PROVE Kept(i)
  BY DEF AckInv
<1>0. W \in Nat /\ \A j \in DOMAIN calls : Len(calls[j].acks) \in Nat
  BY QuorumAssumption DEF ShapeInv, IsCall, IsSeq
<1>1. ASSUME i \in DOMAIN calls, SameCall(i), Len(calls'[i].acks) = Len(calls[i].acks),
             calls'[i].result = "ok" => calls[i].result = "ok" \/ Len(calls[i].acks) >= W,
             \A n : Asking(i, n)' => Asking(i, n)
      PROVE  Kept(i)
  <2>1. Done(i) \subseteq Done(i)' /\ Done(i) \in SUBSET Nodes /\ Done(i)' \in SUBSET Nodes
    BY <1>1, HoldsKept
  <2>2. Cardinality(Done(i)) <= Cardinality(Done(i)') /\ Cardinality(Done(i)) \in Nat /\ Cardinality(Done(i)') \in Nat
    BY <2>1, NodeSets
  <2> HIDE DEF Done
  <2>3. calls[i].kind = "append" => Len(calls[i].acks) <= Cardinality(Done(i))
    BY <1>1 DEF AckInv, Done
  <2>4. calls[i].result = "ok" => Len(calls[i].acks) >= W
    BY <1>1 DEF AckInv
  <2>5. calls'[i].kind = calls[i].kind
    BY <1>1 DEF SameCall
  <2> QED  BY <1>0, <1>1, <2>2, <2>3, <2>4, <2>5
<1>2. ASSUME NEW t \in threads, append_check(t) \/ lease_load(t) PROVE Kept(i)
  <2>1. CASE AnswerError(t)
    <3>1. threads' = threads \ {t}
      BY <2>1 DEF AnswerError
    <3>2. \A n : Asking(i, n)' => Asking(i, n)
      BY <3>1 DEF Asking
    <3> QED  BY <1>1, <2>1, <3>2, ErrorEffect DEF SameResult
  <2>2. ASSUME UNCHANGED calls,
               NEW u, Move(t, u), u = [call |-> t.call, node |-> t.node, pc |-> "checked", max |-> u.max]
        PROVE  Kept(i)
    <3>1. \A n : Asking(i, n)' => Asking(i, n)
      BY <2>2, MoveEffect
    <3> QED  BY <1>1, <2>2, <3>1 DEF SameCall
  <2> QED  BY <1>2, <2>1, <2>2, CheckKinds
<1>3. ASSUME NEW t \in threads, append_push(t) PROVE Kept(i)
  <2>1. PICK lsn : Answer(t, lsn)
    BY <1>3 DEF append_push
  <2>2. threads' = threads \ {t}
    BY <2>1 DEF Answer
  <2>3. /\ DOMAIN calls' = DOMAIN calls /\ SameCall(i) /\ SameResult(i)
        /\ Len(calls'[i].acks) = Len(calls[i].acks) + (IF i = t.call THEN 1 ELSE 0)
    BY <2>1, AnswerEffect
  <2>4. /\ Asking(t.call, t.node) /\ ~Asking(t.call, t.node)'
        /\ \A j, n : j # t.call \/ n # t.node => (Asking(j, n)' <=> Asking(j, n))
    BY <2>2, <2>3, EndEffect
  <2>5. CASE i # t.call
    BY <1>1, <2>3, <2>4, <2>5 DEF SameResult
  <2>6. CASE i = t.call
    <3>1. t.node \in Nodes /\ t.call \in DOMAIN calls
      BY DEF ShapeInv, IsThread
    <3>2. Holds(t.node, i)'
      <4>1. IsSeq(wal_buffer[t.node]) /\ IsSeq(calls[i].records) /\ calls[i].records # <<>>
        BY <1>3, <2>6, <3>1 DEF ShapeInv, IsCall, append_push
      <4>2. wal_buffer'[t.node] = wal_buffer[t.node] \o calls[i].records
        BY <1>3, <2>6, <3>1 DEF append_push, ShapeInv
      <4> QED  BY <4>1, <4>2, <2>3, ConcatMembers DEF Holds, SameCall
    <3>3. Done(i) \subseteq Done(i)' /\ t.node \in Done(i)' \ Done(i)
      BY <2>3, <2>4, <2>6, <3>1, <3>2, HoldsKept
    <3>4. /\ Cardinality(Done(i)) + 1 <= Cardinality(Done(i)')
          /\ Cardinality(Done(i)) \in Nat /\ Cardinality(Done(i)') \in Nat
      <4>1. Done(i) \in SUBSET Nodes /\ Done(i)' \in SUBSET Nodes
        OBVIOUS
      <4> QED  BY <3>3, <4>1, NodeSets
    <3> HIDE DEF Done
    <3>5. /\ calls[i].kind = "append" => Len(calls[i].acks) <= Cardinality(Done(i))
          /\ calls[i].result = "ok" => Len(calls[i].acks) >= W
      BY <2>3 DEF AckInv, Done
    <3>6. calls'[i].kind = calls[i].kind /\ calls'[i].result = calls[i].result
      BY <2>3 DEF SameCall, SameResult
    <3> QED  BY <1>0, <2>3, <2>6, <3>4, <3>5, <3>6
  <2> QED  BY <2>5, <2>6
<1>4. ASSUME NEW t \in threads, lease_store(t) PROVE Kept(i)
  <2>1. PICK lsn : Answer(t, lsn)
    BY <1>4 DEF lease_store
  <2>2. threads' = threads \ {t}
    BY <2>1 DEF Answer
  <2>3. /\ DOMAIN calls' = DOMAIN calls /\ SameCall(i) /\ SameResult(i)
        /\ Len(calls'[i].acks) = Len(calls[i].acks) + (IF i = t.call THEN 1 ELSE 0)
    BY <2>1, AnswerEffect
  <2>4. \A n : Asking(i, n)' => Asking(i, n)
    BY <2>2 DEF Asking
  <2>5. CASE i # t.call
    BY <1>1, <2>3, <2>4, <2>5 DEF SameResult
  <2>6. CASE i = t.call
    <3>1. calls'[i].kind = "lease" /\ calls'[i].result = calls[i].result
      BY <1>4, <2>3, <2>6 DEF lease_store, SameCall, SameResult
    <3>2. calls[i].result = "ok" => Len(calls[i].acks) >= W
      BY <2>3 DEF AckInv
    <3> HIDE DEF Done
    <3> QED  BY <1>0, <2>3, <2>6, <3>1, <3>2
  <2> QED  BY <2>5, <2>6
<1>5. ASSUME NEW j \in DOMAIN calls,
             append_acked(j) \/ append_failed(j) \/ promoted(j) \/ promotion_failed(j)
      PROVE  Kept(i)
  <2>1. PICK result : Close(j, result) /\ (result = "ok" => QuorumReached(calls[j]))
    <3>1. CASE append_acked(j) \/ promoted(j)
      BY <3>1 DEF append_acked, promoted
    <3>2. CASE append_failed(j) \/ promotion_failed(j)
      <4>1. Close(j, "failed")
        BY <3>2 DEF append_failed, promotion_failed
      <4> QED  BY <4>1
    <3> QED  BY <1>5, <3>1, <3>2
  <2>2. UNCHANGED threads
    BY <1>5 DEF append_acked, append_failed, promoted, promotion_failed
  <2>3. /\ DOMAIN calls' = DOMAIN calls /\ SameCall(i) /\ calls'[i].acks = calls[i].acks
        /\ i # j => SameResult(i)
        /\ i = j => calls'[i].result = result
    BY <2>1, CloseEffect
  <2>4. \A n : Asking(i, n)' => Asking(i, n)
    BY <2>2 DEF Asking
  <2> QED  BY <1>1, <2>1, <2>3, <2>4 DEF SameResult, QuorumReached
<1>6. ASSUME NEW call, IsCall(call), Spawn(call), call.acks = <<>>, call.result = "none" PROVE Kept(i)
  <2>1. PICK new : new = Len(calls) + 1
    OBVIOUS
  <2>2. /\ DOMAIN calls' = DOMAIN calls \cup {new} /\ calls'[new] = call
        /\ \A j \in DOMAIN calls : calls'[j] = calls[j]
        /\ \A j \in DOMAIN calls : \A n : Asking(j, n)' <=> Asking(j, n)
    BY <1>6, <2>1, SpawnEffect
  <2>3. CASE i = new
    <3>1. Cardinality(Done(i)') \in Nat
      <4>1. Done(i)' \in SUBSET Nodes
        OBVIOUS
      <4> QED  BY <4>1, NodeSets
    <3>2. Len(calls'[i].acks) = 0 /\ calls'[i].result = "none"
      BY <1>6, <2>2, <2>3
    <3> HIDE DEF Done
    <3> QED  BY <3>1, <3>2
  <2>4. CASE i \in DOMAIN calls
    BY <1>1, <2>2, <2>4 DEF SameCall
  <2> QED  BY <2>2, <2>3, <2>4
<1>7. CASE UNCHANGED <<calls, threads, node_token, fleet_token>>
  BY <1>1, <1>7 DEF SameCall, Asking
<1> HIDE DEF Kept
<1> QED  BY <1>2, <1>3, <1>4, <1>5, <1>6, <1>7, StepKinds, WriteEffect, FailoverEffect

----------------------------------------------------------------------------
(* Leases. *)

\* At most one lease is open, promote_to_primary asks for the fleet's token plus
\* one and the token of the fleet never falls.
LEMMA StepLease ==
    ASSUME ShapeInv, LeaseInv, [Next]_vars
    PROVE  LeaseInv' /\ fleet_token' >= fleet_token
<1>0. /\ fleet_token \in Nat
      /\ \A i \in DOMAIN calls : calls[i].token \in Nat
  BY DEF ShapeInv, IsCall
<1>1. ASSUME DOMAIN calls' = DOMAIN calls, UNCHANGED fleet_token,
             \A i \in DOMAIN calls : SameCall(i) /\ (calls'[i].open => calls[i].open)
      PROVE  LeaseInv' /\ fleet_token' >= fleet_token
  BY <1>0, <1>1 DEF LeaseInv, SameCall
<1>2. ASSUME NEW t \in threads, append_check(t) \/ lease_load(t)
      PROVE  LeaseInv' /\ fleet_token' >= fleet_token
  <2>1. UNCHANGED fleet_token /\ (AnswerError(t) \/ UNCHANGED calls)
    BY <1>2, CheckKinds
  <2>2. CASE AnswerError(t)
    BY <1>1, <2>1, <2>2, ErrorEffect DEF SameResult
  <2>3. CASE UNCHANGED calls
    BY <1>1, <2>1, <2>3 DEF SameCall
  <2> QED  BY <2>1, <2>2, <2>3
<1>3. ASSUME NEW t \in threads, append_push(t) \/ lease_store(t)
      PROVE  LeaseInv' /\ fleet_token' >= fleet_token
  <2>1. UNCHANGED fleet_token /\ \E lsn : Answer(t, lsn)
    BY <1>3 DEF append_push, lease_store, fleet
  <2> QED  BY <1>1, <2>1, AnswerEffect DEF SameResult
<1>4. ASSUME NEW i \in DOMAIN calls, append_acked(i) \/ append_failed(i) \/ promotion_failed(i)
      PROVE  LeaseInv' /\ fleet_token' >= fleet_token
  <2>1. UNCHANGED fleet_token /\ \E result : Close(i, result)
    BY <1>4 DEF append_acked, append_failed, promotion_failed, fleet
  <2> QED  BY <1>1, <2>1, CloseEffect DEF SameResult
<1>5. ASSUME NEW i \in DOMAIN calls, promoted(i)
      PROVE  LeaseInv' /\ fleet_token' >= fleet_token
  <2>1. Close(i, "ok") /\ calls[i].open /\ calls[i].kind = "lease" /\ fleet_token' = calls[i].token
    BY <1>5 DEF promoted
  <2>2. fleet_token' = fleet_token + 1
    BY <2>1 DEF LeaseInv
  <2>3. /\ DOMAIN calls' = DOMAIN calls /\ ~calls'[i].open
        /\ \A j \in DOMAIN calls : SameCall(j) /\ (j # i => SameResult(j))
    BY <2>1, CloseEffect
  <2>4. \A j \in DOMAIN calls : calls[j].kind = "lease" => ~calls'[j].open
    BY <2>1, <2>3 DEF LeaseInv, SameResult
  <2> QED  BY <1>0, <2>2, <2>3, <2>4 DEF LeaseInv, SameCall
<1>6. ASSUME NEW c \in Computes, NEW k, NEW v, write(c, k, v)
      PROVE  LeaseInv' /\ fleet_token' >= fleet_token
  <2>1. PICK call : IsCall(call) /\ Spawn(call) /\ call.kind = "append"
    BY <1>6, WriteEffect
  <2>2. PICK new : new = Len(calls) + 1
    OBVIOUS
  <2>3. /\ DOMAIN calls' = DOMAIN calls \cup {new} /\ calls'[new] = call
        /\ \A j \in DOMAIN calls : calls'[j] = calls[j]
    BY <2>1, <2>2, SpawnEffect
  <2>4. UNCHANGED fleet_token
    BY <1>6, WriteEffect
  <2> QED  BY <1>0, <2>1, <2>3, <2>4 DEF LeaseInv
<1>7. ASSUME NEW c \in Computes, failover_to_replica(c)
      PROVE  LeaseInv' /\ fleet_token' >= fleet_token
  <2>1. PICK call : IsCall(call) /\ Spawn(call) /\ call.kind = "lease" /\ call.token = fleet_token + 1
    BY <1>7, FailoverEffect
  <2>2. PICK new : new = Len(calls) + 1
    OBVIOUS
  <2>3. /\ DOMAIN calls' = DOMAIN calls \cup {new} /\ calls'[new] = call
        /\ \A j \in DOMAIN calls : calls'[j] = calls[j]
    BY <2>1, <2>2, SpawnEffect
  <2>4. UNCHANGED fleet_token /\ \A j \in DOMAIN calls : calls[j].kind = "lease" => ~calls[j].open
    BY <1>7, FailoverEffect
  <2> QED  BY <1>0, <2>1, <2>3, <2>4 DEF LeaseInv
<1>8. ASSUME UNCHANGED <<calls, threads, node_token, fleet_token>>
      PROVE  LeaseInv' /\ fleet_token' >= fleet_token
  BY <1>1, <1>8 DEF SameCall
<1> QED  BY <1>2, <1>3, <1>4, <1>5, <1>6, <1>7, <1>8, StepKinds

----------------------------------------------------------------------------
(* Fencing. *)

\* An answer that counts: a thread of call i that had passed its check ends, and
\* if it is one of a lease its node has the token of the lease.
Counted(i, n) ==
    /\ n \in Nodes /\ ~Asking(i, n)'
    /\ \E t \in threads : t.call = i /\ t.node = n /\ t.pc = "checked"
    /\ calls[i].kind = "lease" => node_token'[n] = calls[i].token

\* A thread after a step and the one it was before: only a check moves it, and
\* not past a newer token.
Before(t, u) ==
    /\ u \in threads /\ u.call = t.call /\ u.node = t.node
    /\ u.pc # t.pc => u.pc = "start" /\ calls[t.call].token >= node_token[t.node]

\* What a step does to the calls that were there and to their threads.
LEMMA StepCalls ==
    ASSUME ShapeInv, [Next]_vars
    PROVE  /\ \A i \in DOMAIN calls :
                 /\ i \in DOMAIN calls' /\ SameCall(i)
                 /\ \A n : Asking(i, n)' => Asking(i, n)
                 /\ \/ Len(calls'[i].acks) = Len(calls[i].acks)
                    \/ Len(calls'[i].acks) = Len(calls[i].acks) + 1 /\ \E n : Counted(i, n)
           /\ \A t \in threads' : \/ \E u : Before(t, u)
                                  \/ /\ t.call \notin DOMAIN calls /\ t.call \in DOMAIN calls'
                                     /\ t.pc = "start"
<1> DEFINE Same(i) == /\ i \in DOMAIN calls' /\ SameCall(i)
                      /\ \A n : Asking(i, n)' => Asking(i, n)
                      /\ \/ Len(calls'[i].acks) = Len(calls[i].acks)
                         \/ Len(calls'[i].acks) = Len(calls[i].acks) + 1 /\ \E n : Counted(i, n)
           From(t) == \/ \E u : Before(t, u)
                      \/ /\ t.call \notin DOMAIN calls /\ t.call \in DOMAIN calls'
                         /\ t.pc = "start"
           Goal == (\A i \in DOMAIN calls : Same(i)) /\ (\A t \in threads' : From(t))
<1>0. \A i \in DOMAIN calls : Len(calls[i].acks) \in Nat
  BY DEF ShapeInv, IsCall, IsSeq
<1>1. ASSUME threads' \subseteq threads PROVE /\ \A t \in threads' : From(t)
                                              /\ \A i, n : Asking(i, n)' => Asking(i, n)
  <2>1. \A t \in threads' : Before(t, t)
    BY <1>1 DEF Before
  <2> QED  BY <1>1, <2>1 DEF Asking
<1>2. ASSUME NEW t \in threads, append_check(t) \/ lease_load(t) PROVE Goal
  <2>1. CASE AnswerError(t)
    <3>1. threads' \subseteq threads
      BY <2>1 DEF AnswerError
    <3> QED  BY <1>1, <2>1, <3>1, ErrorEffect
  <2>2. ASSUME UNCHANGED calls, t.pc = "start", calls[t.call].token >= node_token[t.node],
               NEW u, Move(t, u), u = [call |-> t.call, node |-> t.node, pc |-> "checked", max |-> u.max]
        PROVE  Goal
    <3>1. \A i, n : Asking(i, n)' => Asking(i, n)
      BY <2>2, MoveEffect
    <3>2. \A i \in DOMAIN calls : Same(i)
      BY <2>2, <3>1 DEF SameCall
    <3>3. u.call = t.call /\ u.node = t.node /\ threads' = (threads \ {t}) \cup {u}
      BY <2>2 DEF Move
    <3>4. Before(u, t) /\ \A v \in threads : Before(v, v)
      BY <2>2, <3>3 DEF Before
    <3> QED  BY <3>2, <3>3, <3>4
  <2> HIDE DEF Goal
  <2> QED  BY <1>2, <2>1, <2>2, CheckKinds
<1>3. ASSUME NEW t \in threads, append_push(t) \/ lease_store(t) PROVE Goal
  <2>1. PICK lsn : Answer(t, lsn)
    BY <1>3 DEF append_push, lease_store
  <2>2. threads' = threads \ {t}
    BY <2>1 DEF Answer
  <2>3. /\ DOMAIN calls' = DOMAIN calls
        /\ \A i \in DOMAIN calls : /\ SameCall(i)
                                   /\ Len(calls'[i].acks) = Len(calls[i].acks) + (IF i = t.call THEN 1 ELSE 0)
    BY <2>1, AnswerEffect
  <2>4. Counted(t.call, t.node)
    <3>1. t.node \in Nodes /\ t.pc = "checked"
      BY <1>3 DEF ShapeInv, IsThread, append_push, lease_store
    <3>2. ~Asking(t.call, t.node)'
      BY <2>2, <2>3, EndEffect
    <3>3. calls[t.call].kind = "lease" => node_token'[t.node] = calls[t.call].token
      BY <1>3, <3>1 DEF append_push, lease_store, ShapeInv
    <3> QED  BY <3>1, <3>2, <3>3 DEF Counted
  <2>5. (\A u \in threads' : From(u)) /\ \A i, n : Asking(i, n)' => Asking(i, n)
    <3> HIDE DEF From
    <3> QED  BY <1>1, <2>2
  <2>6. ASSUME NEW i \in DOMAIN calls PROVE Same(i)
    <3>1. CASE i = t.call
      BY <2>3, <2>4, <2>5, <3>1
    <3>2. CASE i # t.call
      <4>1. Len(calls'[i].acks) = Len(calls[i].acks)
        <5>1. Len(calls'[i].acks) = Len(calls[i].acks) + 0
          BY <2>3, <3>2
        <5>2. Len(calls[i].acks) \in Nat
          BY <1>0
        <5> QED  BY <5>1, <5>2
      <4> QED  BY <2>3, <2>5, <4>1
    <3> QED  BY <3>1, <3>2
  <2> QED  BY <2>5, <2>6
<1>4. ASSUME NEW i \in DOMAIN calls,
             append_acked(i) \/ append_failed(i) \/ promoted(i) \/ promotion_failed(i)
      PROVE  Goal
  <2>1. UNCHANGED threads /\ \E result : Close(i, result)
    BY <1>4 DEF append_acked, append_failed, promoted, promotion_failed
  <2> QED  BY <1>1, <2>1, CloseEffect
<1>5. ASSUME NEW call, IsCall(call), Spawn(call) PROVE Goal
  <2>1. PICK new : new = Len(calls) + 1
    OBVIOUS
  <2>2. /\ new \notin DOMAIN calls /\ DOMAIN calls' = DOMAIN calls \cup {new}
        /\ \A j \in DOMAIN calls : calls'[j] = calls[j]
        /\ \A j \in DOMAIN calls : \A n : Asking(j, n)' <=> Asking(j, n)
        /\ \A t \in threads' : t \in threads \/ (t.call = new /\ t.pc = "start")
    BY <1>5, <2>1, SpawnEffect
  <2>3. \A v \in threads : Before(v, v)
    BY DEF Before
  <2> QED  BY <2>2, <2>3 DEF SameCall
<1>6. ASSUME UNCHANGED <<calls, threads, node_token, fleet_token>> PROVE Goal
  BY <1>1, <1>6 DEF SameCall
<1> HIDE DEF Goal
<1>7. ASSUME NEW c \in Computes, NEW k, NEW v, write(c, k, v) PROVE Goal
  BY <1>5, <1>7, WriteEffect
<1>8. ASSUME NEW c \in Computes, failover_to_replica(c) PROVE Goal
  BY <1>5, <1>8, FailoverEffect
<1>9. Goal
  BY <1>2, <1>3, <1>4, <1>6, <1>7, <1>8, StepKinds
<1> QED  BY <1>9 DEF Goal

\* A node that has a fencing token or a newer one keeps it: no thread of a lease
\* with an older token is left.
LEMMA TokenKept ==
    ASSUME ShapeInv, FenceInv, [Next]_vars,
           NEW i \in DOMAIN calls, NEW f \in calls[i].fences, NEW n \in Nodes, node_token[n] >= f
    PROVE  node_token'[n] >= f
<1>1. ASSUME NEW t \in threads, lease_store(t) PROVE node_token'[n] >= f
  <2>1. calls[t.call].token >= f
    BY <1>1 DEF lease_store, FenceInv
  <2> QED  BY <1>1, <2>1 DEF lease_store, ShapeInv
<1>2. (\E t \in threads : lease_store(t)) \/ UNCHANGED node_token
  BY DEF vars, nodes, fleet, computes, Next, ThreadStep, CallStep,
         append_check, append_push, lease_load, append_acked,
         append_failed, promoted, promotion_failed, write, get_base,
         get_overlay, failover_to_replica, set_state,
         materialize_pending, gossip_sync_from
<1> QED  BY <1>1, <1>2

\* A new lease asks for a token no older than any fence, and a fence of its own
\* starts when no thread of another lease is left.
LEMMA NewLease ==
    ASSUME ShapeInv, [Next]_vars, NEW i \in DOMAIN calls', i \notin DOMAIN calls
    PROVE  /\ calls'[i].acks = <<>> /\ UNCHANGED <<node_token, fleet_token>>
           /\ \A t \in threads' : t \in threads \/ (t.call = i /\ t.pc = "start")
           /\ calls'[i].kind = "append" => calls'[i].fences = Granted
           /\ calls'[i].kind = "lease" => /\ calls'[i].token = fleet_token + 1
                                          /\ calls'[i].fences = Fences(fleet_token + 1)
           /\ calls'[i].kind \in {"append", "lease"}
<1> DEFINE New(call) ==
           /\ IsCall(call) /\ Spawn(call) /\ call.acks = <<>>
           /\ call.kind = "append" => call.fences = Granted
           /\ call.kind = "lease" => call.token = fleet_token + 1 /\ call.fences = Fences(fleet_token + 1)
<1>1. (\E call : New(call)) /\ UNCHANGED <<node_token, fleet_token>>
  <2>1. ASSUME NEW c \in Computes, NEW k, NEW v, write(c, k, v)
        PROVE  (\E call : New(call)) /\ UNCHANGED <<node_token, fleet_token>>
    BY <2>1, WriteEffect
  <2>2. ASSUME NEW c \in Computes, failover_to_replica(c)
        PROVE  (\E call : New(call)) /\ UNCHANGED <<node_token, fleet_token>>
    BY <2>2, FailoverEffect
  <2>3. ASSUME NEW t \in threads, append_check(t) \/ lease_load(t) PROVE DOMAIN calls' = DOMAIN calls
    BY <2>3, CheckKinds, ErrorEffect
  <2>4. ASSUME NEW t \in threads, append_push(t) \/ lease_store(t) PROVE DOMAIN calls' = DOMAIN calls
    <3>1. \E lsn : Answer(t, lsn)
      BY <2>4 DEF append_push, lease_store
    <3> QED  BY <3>1, AnswerEffect
  <2>5. ASSUME NEW j \in DOMAIN calls,
               append_acked(j) \/ append_failed(j) \/ promoted(j) \/ promotion_failed(j)
        PROVE  DOMAIN calls' = DOMAIN calls
    <3>1. \E result : Close(j, result)
      BY <2>5 DEF append_acked, append_failed, promoted, promotion_failed
    <3> QED  BY <3>1, CloseEffect
  <2> HIDE DEF New
  <2> QED  BY <2>1, <2>2, <2>3, <2>4, <2>5, StepKinds
<1>2. PICK call : New(call)
  BY <1>1
<1>3. PICK new : new = Len(calls) + 1
  OBVIOUS
<1>4. /\ DOMAIN calls' = DOMAIN calls \cup {new} /\ calls'[new] = call
      /\ \A t \in threads' : t \in threads \/ (t.call = new /\ t.pc = "start")
  BY <1>2, <1>3, SpawnEffect
<1>5. i = new
  BY <1>4
<1> QED  BY <1>1, <1>2, <1>4, <1>5 DEF IsCall

\* A lease counts only answers of nodes that have its token.
LEMMA StepFenceLease ==
    ASSUME ShapeInv, FenceInv, [Next]_vars,
           NEW i \in DOMAIN calls, calls[i].kind = "lease", NEW f \in calls[i].fences
    PROVE  Len(calls'[i].acks) <= Cardinality({n \in Nodes : node_token'[n] >= f /\ ~Asking(i, n)'})
<1> DEFINE Has == {n \in Nodes : node_token[n] >= f /\ ~Asking(i, n)}
           Has1 == {n \in Nodes : node_token'[n] >= f /\ ~Asking(i, n)'}
<1>1. Len(calls[i].acks) \in Nat /\ Len(calls[i].acks) <= Cardinality(Has) /\ f = calls[i].token /\ f \in Nat
  <2>1. Len(calls[i].acks) \in Nat /\ f \in Nat
    BY DEF ShapeInv, IsCall, IsSeq
  <2>2. Len(calls[i].acks) <= Cardinality(Has) /\ f = calls[i].token
    BY DEF FenceInv
  <2> QED  BY <2>1, <2>2
<1>2. Has \subseteq Has1 /\ Has \in SUBSET Nodes /\ Has1 \in SUBSET Nodes
  BY StepCalls, TokenKept
<1>3. Cardinality(Has) <= Cardinality(Has1) /\ Cardinality(Has) \in Nat /\ Cardinality(Has1) \in Nat
  BY <1>2, NodeSets
<1>4. ASSUME NEW n, Counted(i, n) PROVE Cardinality(Has) + 1 <= Cardinality(Has1)
  <2>1. n \in Has1 \ Has
    BY <1>1, <1>4 DEF Counted, Asking
  <2> HIDE DEF Has, Has1
  <2> QED  BY <1>2, <2>1, NodeSets
<1>5. \/ Len(calls'[i].acks) = Len(calls[i].acks)
      \/ Len(calls'[i].acks) = Len(calls[i].acks) + 1 /\ \E n : Counted(i, n)
  BY StepCalls
<1> HIDE DEF Has, Has1
<1>6. Len(calls'[i].acks) <= Cardinality(Has1)
  BY <1>1, <1>3, <1>4, <1>5
<1> QED  BY <1>6 DEF Has1

\* The quorum that is out of reach of a fenced append stays out of reach: the
\* check of append_logs fails there, and an answer comes from another node.
LEMMA StepGuarded ==
    ASSUME ShapeInv, FenceInv, [Next]_vars,
           NEW i \in DOMAIN calls, NEW f \in calls[i].fences, calls[i].token < f,
           NEW Q \in SUBSET Nodes, Guarded(i, f, Q)
    PROVE  Guarded(i, f, Q)'
<1> DEFINE Free == {n \in Nodes \ Q : ~Asking(i, n)}
           Free1 == {n \in Nodes \ Q : ~Asking(i, n)'}
<1>1. /\ Cardinality(Q) >= W
      /\ \A n \in Q : node_token[n] >= f /\ node_token[n] \in Nat
      /\ \A t \in threads : t.call = i /\ t.node \in Q => t.pc = "start"
      /\ Len(calls[i].acks) <= Cardinality(Free)
      /\ Len(calls[i].acks) \in Nat /\ calls[i].token \in Nat /\ f \in Nat
  BY DEF Guarded, ShapeInv, IsCall, IsSeq
<1>2. \A n \in Q : node_token'[n] >= f
  BY <1>1, TokenKept
<1>3. ASSUME NEW t \in threads', t.call = i, t.node \in Q PROVE t.pc = "start"
  <2>1. PICK u : Before(t, u)
    BY <1>3, StepCalls
  <2>2. ~(calls[i].token >= node_token[t.node])
    BY <1>1, <1>3
  <2> QED  BY <1>1, <1>3, <2>1, <2>2 DEF Before
<1>4. Free \subseteq Free1 /\ Free \in SUBSET Nodes /\ Free1 \in SUBSET Nodes
  BY StepCalls
<1>5. Cardinality(Free) <= Cardinality(Free1) /\ Cardinality(Free) \in Nat /\ Cardinality(Free1) \in Nat
  BY <1>4, NodeSets
<1>6. ASSUME NEW n, Counted(i, n) PROVE Cardinality(Free) + 1 <= Cardinality(Free1)
  <2>1. n \in Free1 \ Free
    BY <1>1, <1>6 DEF Counted, Asking
  <2> HIDE DEF Free, Free1
  <2> QED  BY <1>4, <2>1, NodeSets
<1>7. \/ Len(calls'[i].acks) = Len(calls[i].acks)
      \/ Len(calls'[i].acks) = Len(calls[i].acks) + 1 /\ \E n : Counted(i, n)
  BY StepCalls
<1> HIDE DEF Free, Free1
<1>8. Len(calls'[i].acks) <= Cardinality(Free1)
  BY <1>1, <1>5, <1>6, <1>7
<1> QED  BY <1>1, <1>2, <1>3, <1>8 DEF Guarded, Free1

\* Every step keeps the fences.
LEMMA StepFence ==
    ASSUME ShapeInv, AckInv, LeaseInv, FenceInv, [Next]_vars
    PROVE  FenceInv'
<1> SUFFICES ASSUME NEW i \in DOMAIN calls', NEW f \in calls'[i].fences
             PROVE  /\ f <= fleet_token' + 1
                    /\ \A t \in threads' : calls'[t.call].kind = "lease" => calls'[t.call].token >= f
                    /\ calls'[i].kind = "lease" =>
                          /\ f = calls'[i].token
                          /\ Len(calls'[i].acks) <= Cardinality({n \in Nodes : node_token'[n] >= f /\ ~Asking(i, n)'})
                    /\ calls'[i].kind = "append" /\ calls'[i].token < f =>
                          \E Q \in SUBSET Nodes : Guarded(i, f, Q)'
  BY DEF FenceInv
<1>0. /\ fleet_token \in Nat /\ fleet_token' \in Nat /\ fleet_token' >= fleet_token
      /\ \A j \in DOMAIN calls : calls[j].fences \subseteq Nat /\ calls[j].token \in Nat
      /\ \A t \in threads : t.call \in DOMAIN calls
  BY StepLease, StepTokens DEF ShapeInv, IsCall, IsThread
\* A fence that was there binds the threads of the leases that come.
<1>1. ASSUME NEW j \in DOMAIN calls, f \in calls[j].fences
      PROVE  /\ f <= fleet_token' + 1
             /\ \A t \in threads' : calls'[t.call].kind = "lease" => calls'[t.call].token >= f
  <2>1. f <= fleet_token + 1 /\ \A t \in threads : calls[t.call].kind = "lease" => calls[t.call].token >= f
    BY <1>1 DEF FenceInv
  <2>2. f \in Nat /\ f <= fleet_token' + 1
    BY <1>0, <1>1, <2>1
  <2>3. ASSUME NEW t \in threads', calls'[t.call].kind = "lease" PROVE calls'[t.call].token >= f
    <3>1. CASE \E u : Before(t, u)
      BY <1>0, <2>1, <2>3, <3>1, StepCalls DEF Before, SameCall
    <3>2. CASE t.call \notin DOMAIN calls /\ t.call \in DOMAIN calls'
      <4>1. calls'[t.call].token = fleet_token + 1
        BY <2>3, <3>2, NewLease
      <4> QED  BY <1>0, <2>1, <2>2, <4>1
    <3> QED  BY <3>1, <3>2, StepCalls
  <2> QED  BY <2>2, <2>3
<1>2. CASE i \in DOMAIN calls
  <2>1. SameCall(i)
    BY <1>2, StepCalls
  <2>2. f \in calls[i].fences
    BY <2>1 DEF SameCall
  <2>3. ASSUME calls'[i].kind = "lease"
        PROVE  /\ f = calls'[i].token
               /\ Len(calls'[i].acks) <= Cardinality({n \in Nodes : node_token'[n] >= f /\ ~Asking(i, n)'})
    <3>1. calls[i].kind = "lease"
      BY <2>1, <2>3 DEF SameCall
    <3>2. f = calls'[i].token
      BY <1>2, <2>1, <2>2, <3>1 DEF SameCall, FenceInv
    <3> QED  BY <1>2, <2>2, <3>1, <3>2, StepFenceLease
  <2>4. ASSUME calls'[i].kind = "append", calls'[i].token < f
        PROVE  \E Q \in SUBSET Nodes : Guarded(i, f, Q)'
    <3>1. calls[i].kind = "append" /\ calls[i].token < f
      BY <2>1, <2>4 DEF SameCall
    <3>2. PICK Q \in SUBSET Nodes : Guarded(i, f, Q)
      BY <1>2, <2>2, <3>1 DEF FenceInv
    <3>3. Guarded(i, f, Q)'
      BY <1>2, <2>2, <3>1, <3>2, StepGuarded
    <3> QED  BY <3>2, <3>3
  <2> QED  BY <1>1, <1>2, <2>2, <2>3, <2>4
<1>3. CASE i \notin DOMAIN calls /\ calls'[i].kind = "append"
  <2>1. /\ calls'[i].fences = Granted /\ calls'[i].acks = <<>> /\ UNCHANGED node_token
        /\ \A t \in threads' : t \in threads \/ (t.call = i /\ t.pc = "start")
    BY <1>3, NewLease
  <2>2. PICK j \in DOMAIN calls : /\ calls[j].kind = "lease" /\ calls[j].result = "ok"
                                  /\ f \in calls[j].fences
    BY <2>1 DEF Granted
  <2>3. PICK Q : Q = {n \in Nodes : node_token[n] >= f}
    OBVIOUS
  <2>4. Q \in SUBSET Nodes /\ Guarded(i, f, Q)'
    <3> DEFINE Has == {n \in Nodes : node_token[n] >= f /\ ~Asking(j, n)}
               Free1 == {n \in Nodes \ Q : ~Asking(i, n)'}
    <3>1. Len(calls[j].acks) >= W /\ Len(calls[j].acks) <= Cardinality(Has) /\ Len(calls[j].acks) \in Nat
      <4>1. Len(calls[j].acks) \in Nat
        BY DEF ShapeInv, IsCall, IsSeq
      <4>2. Len(calls[j].acks) >= W
        BY <2>2 DEF AckInv
      <4>3. Len(calls[j].acks) <= Cardinality(Has)
        BY <2>2 DEF FenceInv
      <4> QED  BY <4>1, <4>2, <4>3
    <3>2. /\ Cardinality(Has) <= Cardinality(Q) /\ Cardinality(Has) \in Nat /\ Cardinality(Q) \in Nat
          /\ Cardinality(Free1) \in Nat
      <4>1. Has \subseteq Q /\ Has \in SUBSET Nodes /\ Q \in SUBSET Nodes /\ Free1 \in SUBSET Nodes
        BY <2>3
      <4> HIDE DEF Has, Free1
      <4> QED  BY <4>1, NodeSets
    <3>3. Cardinality(Q) >= W
      <4> HIDE DEF Has
      <4> QED  BY <3>1, <3>2, QuorumAssumption
    <3>4. \A t \in threads' : t.call = i => t.pc = "start"
      BY <1>0, <1>3, <2>1
    <3>5. Len(calls'[i].acks) <= Cardinality(Free1)
      <4>1. Len(calls'[i].acks) = 0
        BY <2>1
      <4> HIDE DEF Free1
      <4> QED  BY <3>2, <4>1
    <3>6. \A n \in Q : node_token'[n] >= f
      BY <2>1, <2>3
    <3> QED  BY <2>3, <3>3, <3>4, <3>5, <3>6 DEF Guarded
  <2> QED  BY <1>1, <1>3, <2>2, <2>4
<1>4. CASE i \notin DOMAIN calls /\ calls'[i].kind = "lease"
  <2>1. /\ calls'[i].acks = <<>> /\ UNCHANGED fleet_token
        /\ \A t \in threads' : t \in threads \/ t.call = i
        /\ calls'[i].token = fleet_token + 1 /\ calls'[i].fences = Fences(fleet_token + 1)
    BY <1>4, NewLease
  <2>2. f = fleet_token + 1 /\ \A t \in threads : calls[t.call].kind # "lease"
    BY <2>1 DEF Fences
  <2>3. \A t \in threads : SameCall(t.call)
    BY <1>0, StepCalls
  <2>4. \A t \in threads' : calls'[t.call].kind = "lease" => calls'[t.call].token >= f
    BY <1>0, <2>1, <2>2, <2>3 DEF SameCall
  <2>5. Len(calls'[i].acks) <= Cardinality({n \in Nodes : node_token'[n] >= f /\ ~Asking(i, n)'})
    <3> DEFINE Has1 == {n \in Nodes : node_token'[n] >= f /\ ~Asking(i, n)'}
    <3>1. Has1 \in SUBSET Nodes
      OBVIOUS
    <3> HIDE DEF Has1
    <3>2. Len(calls'[i].acks) <= Cardinality(Has1)
      BY <2>1, <3>1, NodeSets
    <3> QED  BY <3>2 DEF Has1
  <2> QED  BY <1>0, <1>4, <2>1, <2>2, <2>4, <2>5
<1>5. i \notin DOMAIN calls => calls'[i].kind \in {"append", "lease"}
  BY NewLease
<1> QED  BY <1>2, <1>3, <1>4, <1>5

----------------------------------------------------------------------------
(* The theorems. *)

\* The inductive invariant.
THEOREM FleetInvariant == Spec => []FleetInv
<1>1. Init => FleetInv
  <2> SUFFICES ASSUME Init PROVE FleetInv
    OBVIOUS
  <2>1. calls = <<>> /\ DOMAIN calls = {} /\ threads = {}
    BY DEF Init
  <2>2. AckInv /\ LeaseInv /\ FenceInv
    BY <2>1 DEF AckInv, LeaseInv, FenceInv
  <2>3. node_token \in [Nodes -> Nat] /\ fleet_token \in Nat /\ token \in [Computes -> Nat]
    BY DEF Init, NodesInit, FleetInit, ComputesInit
  <2>4. /\ DOMAIN wal_buffer = Nodes /\ \A n \in Nodes : IsSeq(wal_buffer[n])
        /\ DOMAIN sink = Computes /\ \A c \in Computes : IsSeq(sink[c])
    BY EmptyIsSeq DEF Init, NodesInit, ComputesInit
  <2> QED  BY <2>1, <2>2, <2>3, <2>4, EmptyIsSeq DEF FleetInv, ShapeInv
<1>2. FleetInv /\ [Next]_vars => FleetInv'
  BY StepShape, StepAck, StepLease, StepFence DEF FleetInv
<1> QED  BY <1>1, <1>2, PTL DEF Spec

\* append_logs_quorum acknowledges nothing that is not in the logs of a write
\* quorum, and no crash, gossip or late thread takes it away again.
THEOREM AcknowledgedOnQuorum == Spec => []AckedOnQuorum
<1>1. FleetInv => AckedOnQuorum
  <2> SUFFICES ASSUME FleetInv, NEW i \in DOMAIN calls, calls[i].kind = "append", calls[i].result = "ok"
               PROVE  Cardinality({n \in Nodes : Holds(n, i)}) >= W
    BY DEF AckedOnQuorum
  <2> DEFINE Done == {n \in Nodes : Holds(n, i) /\ ~Asking(i, n)}
             All == {n \in Nodes : Holds(n, i)}
  <2>1. Len(calls[i].acks) >= W /\ Len(calls[i].acks) <= Cardinality(Done) /\ Len(calls[i].acks) \in Nat
    <3>1. Len(calls[i].acks) \in Nat
      BY DEF FleetInv, ShapeInv, IsCall, IsSeq
    <3>2. Len(calls[i].acks) >= W /\ Len(calls[i].acks) <= Cardinality(Done)
      BY DEF FleetInv, AckInv
    <3> QED  BY <3>1, <3>2
  <2>2. Cardinality(Done) <= Cardinality(All) /\ Cardinality(Done) \in Nat /\ Cardinality(All) \in Nat
    <3>1. Done \subseteq All /\ Done \in SUBSET Nodes /\ All \in SUBSET Nodes
      OBVIOUS
    <3> HIDE DEF Done, All
    <3> QED  BY <3>1, NodeSets
  <2> HIDE DEF Done, All
  <2>3. Cardinality(All) >= W
    BY <2>1, <2>2, QuorumAssumption
  <2> QED  BY <2>3 DEF All
<1> QED  BY <1>1, FleetInvariant, PTL

\* A primary that a granted lease has fenced is never acknowledged again: the
\* write quorum that has the new token and one that acknowledges have a node in
\* common, and that node refuses the old token.
THEOREM FencedWriterIsStopped == Spec => []FencedWriterStops
<1>1. FleetInv => FencedWriterStops
  <2> SUFFICES ASSUME FleetInv, NEW i \in DOMAIN calls, calls[i].kind = "append", calls[i].result = "ok",
                      NEW f \in calls[i].fences, ~(calls[i].token >= f)
               PROVE  FALSE
    BY DEF FencedWriterStops
  <2>1. calls[i].token \in Nat /\ f \in Nat /\ Len(calls[i].acks) \in Nat
    BY DEF FleetInv, ShapeInv, IsCall, IsSeq
  <2>2. PICK Q \in SUBSET Nodes : Guarded(i, f, Q)
    <3>1. calls[i].token < f
      BY <2>1
    <3> QED  BY <3>1 DEF FleetInv, FenceInv
  <2> DEFINE Free == {n \in Nodes \ Q : ~Asking(i, n)}
             Rest == Nodes \ Q
  <2>3. Cardinality(Q) >= W /\ Len(calls[i].acks) <= Cardinality(Free)
    BY <2>2 DEF Guarded
  <2>4. Len(calls[i].acks) >= W
    BY DEF FleetInv, AckInv
  <2>5. /\ Cardinality(Free) <= Cardinality(Rest) /\ Cardinality(Rest) \in Nat
        /\ Cardinality(Free) \in Nat /\ Cardinality(Q) \in Nat
    <3>1. Free \subseteq Rest /\ Free \in SUBSET Nodes /\ Rest \in SUBSET Nodes
      OBVIOUS
    <3> HIDE DEF Free, Rest
    <3> QED  BY <3>1, NodeSets
  <2>6. Cardinality(Rest) = N - Cardinality(Q)
    <3>1. IsFiniteSet(Nodes) /\ Cardinality(Nodes) = N /\ Nodes \cap Q = Q
      BY NodeSets
    <3> QED  BY <3>1, <2>2, NodeSets, FS_Difference
  <2> HIDE DEF Free, Rest
  <2> QED  BY <2>1, <2>3, <2>4, <2>5, <2>6, QuorumAssumption
<1> QED  BY <1>1, FleetInvariant, PTL

=============================================================================
