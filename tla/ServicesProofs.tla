-------------------------- MODULE ServicesProofs --------------------------
(***************************************************************************)
(* Proofs about the services around the engine: the transactional queue,   *)
(* for any producers, bounds and retention, the cache table with its       *)
(* write-behind worker, for any keys, values and time to live, SQL         *)
(* sequences, for any range and steps, the catalog, for any names, and a   *)
(* table's definition against its rows, for any columns.                   *)
(***************************************************************************)
EXTENDS MessageQueue, CacheTable, SqlSequences, Catalog, TableColumns,
        FiniteSetTheorems, SequenceTheorems, TLAPS

----------------------------------------------------------------------------
(* The queue.                                                              *)
(*                                                                         *)
(* Offset and timestamp are taken together, so timestamps ascend with the  *)
(* offsets over everything committed or still in a producer's transaction  *)
(* (StampsAscend), and retention takes away from the head.  What is kept   *)
(* is therefore the tail of what was ever committed (KeptIsTail), and the  *)
(* snapshot of an open receive has no holes (SnapHasNoHoles), as long as   *)
(* messages come and go in the order of their offsets.  The exactly-once   *)
(* consumer then finds everything below its position processed or passed   *)
(* (OnceInv).                                                              *)

Messages == UNION {[D -> Nat] : D \in SUBSET Nat}
ProducerTx == [open : BOOLEAN, snap : Messages, writes : Messages, removed : SUBSET Nat]
ConsumerTx == [open : BOOLEAN, snap : Messages, ack : Nat, work : Nat]

QueueTypeOK ==
    /\ clock \in Nat /\ next_row_id \in Nat \ {0} /\ kept \in Messages
    /\ ptx \in [Producers -> ProducerTx]
    /\ consumer \in [mode : Modes, alive : BOOLEAN, offset : Nat, tx : ConsumerTx]
    /\ committed \in Nat /\ disordered \in BOOLEAN
    /\ processed \in [Offsets -> Nat]

\* Offsets are handed out below the next row id; only what was committed is kept or read.
Numbered ==
    /\ next_row_id <= MaxOffset + 1
    /\ ever \subseteq 1..(next_row_id - 1)
    /\ DOMAIN kept \subseteq ever /\ DOMAIN consumer.tx.snap \subseteq ever
    /\ \A p \in Producers : DOMAIN ptx[p].writes \subseteq 1..(next_row_id - 1)

\* A message with a larger offset is not older.
Ascend(f, h) == \A x \in DOMAIN f, y \in DOMAIN h : x <= y => f[x] <= h[y]
Past(f) == \A x \in DOMAIN f : f[x] <= clock
StampsAscend ==
    /\ Past(kept) /\ Ascend(kept, kept)
    /\ \A p \in Producers : /\ Past(ptx[p].writes)
                            /\ Ascend(kept, ptx[p].writes) /\ Ascend(ptx[p].writes, kept)
    /\ \A p, q \in Producers : Ascend(ptx[p].writes, ptx[q].writes)

KeptIsTail == \A x \in ever, y \in DOMAIN kept : y <= x => x \in DOMAIN kept
SnapHasNoHoles ==
    \A x \in ever, y, z \in DOMAIN consumer.tx.snap : y <= x /\ x <= z => x \in DOMAIN consumer.tx.snap

\* Everything committed below `at` was processed, or passed by the application.
DoneBelow(at) == \A o \in ever : o < at /\ o \notin passed => processed[o] = 1

\* The message the consumer works on, or the next one it asks for.
Position == IF consumer.tx.open THEN consumer.tx.work ELSE consumer.offset

OnceInv ==
    /\ committed # 0 => committed - 1 \in ever
    /\ consumer.tx.open => /\ consumer.alive
                           /\ consumer.tx.work \in ever
                           /\ consumer.tx.ack = consumer.tx.work + 1
                           /\ consumer.offset = consumer.tx.work + 1
    /\ consumer.alive => /\ committed <= Position
                         /\ Position = 1 \/ Position \in ever \/ Position - 1 \in ever
                         /\ DoneBelow(Position)
    /\ \A o \in Offsets : processed[o] <= 1 /\ (committed <= o => processed[o] = 0)
    /\ DoneBelow(committed)

Ordered == KeptIsTail /\ SnapHasNoHoles /\ skipped = {} /\ (consumer.mode = "exactly_once" => OnceInv)

QueueInv == QueueTypeOK /\ Numbered /\ StampsAscend /\ (~disordered => Ordered)

----------------------------------------------------------------------------
(* Messages, smallest and largest offsets.                                 *)

LEMMA MessagesAre ==
    ASSUME NEW f
    PROVE  f \in Messages <=> f \in [DOMAIN f -> Nat] /\ DOMAIN f \subseteq Nat
BY DEF Messages

LEMMA NoMessages ==
    /\ <<>> \in Messages /\ DOMAIN <<>> = {}
    /\ \A f \in Messages : f # <<>> => DOMAIN f # {}
<1>1. DOMAIN <<>> = {} /\ <<>> \in [{} -> Nat]
  OBVIOUS
<1>2. ASSUME NEW f \in Messages, DOMAIN f = {} PROVE f = <<>>
  <2>1. f = [x \in {} |-> f[x]]
    BY <1>2, MessagesAre
  <2>2. <<>> = [x \in {} |-> f[x]]
    BY <1>1
  <2> QED  BY <2>1, <2>2
<1> QED  BY <1>1, <1>2, MessagesAre

LEMMA MergedMessages ==
    ASSUME NEW f \in Messages, NEW h \in Messages
    PROVE  /\ Merge(f, h) \in Messages
           /\ DOMAIN Merge(f, h) = DOMAIN f \union DOMAIN h
           /\ \A x \in DOMAIN h : Merge(f, h)[x] = h[x]
           /\ \A x \in DOMAIN f : x \notin DOMAIN h => Merge(f, h)[x] = f[x]
<1>1. /\ DOMAIN Merge(f, h) = DOMAIN f \union DOMAIN h
      /\ \A x \in DOMAIN f \union DOMAIN h : Merge(f, h)[x] = IF x \in DOMAIN h THEN h[x] ELSE f[x]
      /\ Merge(f, h) = [x \in DOMAIN f \union DOMAIN h |-> Merge(f, h)[x]]
  BY DEF Merge
<1>2. /\ f \in [DOMAIN f -> Nat] /\ DOMAIN f \subseteq Nat
      /\ h \in [DOMAIN h -> Nat] /\ DOMAIN h \subseteq Nat
  BY MessagesAre
<1>3. \A x \in DOMAIN f \union DOMAIN h : Merge(f, h)[x] \in Nat
  BY <1>1, <1>2
<1>4. Merge(f, h) \in [DOMAIN f \union DOMAIN h -> Nat]
  BY <1>1, <1>3
<1> HIDE DEF Merge
<1> QED  BY <1>1, <1>2, <1>4, MessagesAre

LEMMA LeftMessages ==
    ASSUME NEW f \in Messages, NEW S
    PROVE  /\ Without(f, S) \in Messages
           /\ DOMAIN Without(f, S) = DOMAIN f \ S
           /\ \A x \in DOMAIN f \ S : Without(f, S)[x] = f[x]
BY MessagesAre DEF Without

LEMMA OneMessage ==
    ASSUME NEW o \in Nat, NEW c \in Nat
    PROVE  /\ [x \in {o} |-> c] \in Messages
           /\ DOMAIN [x \in {o} |-> c] = {o} /\ [x \in {o} |-> c][o] = c
BY MessagesAre

LEMMA MinOfNats ==
    ASSUME NEW S \in SUBSET Nat, S # {}
    PROVE  Min(S) \in S /\ \A y \in S : Min(S) <= y
<1>1. IsWellFoundedOn({ss \in Nat \X Nat : ss[1] < ss[2]}, Nat)
  BY NatLessThanWellFounded DEF OpToRel
<1>2. PICK x \in S : \A y \in S : ~(<<y, x>> \in {ss \in Nat \X Nat : ss[1] < ss[2]})
  BY <1>1, WFMin
<1>3. ASSUME NEW y \in S PROVE x <= y
  <2>1. x \in Nat /\ y \in Nat /\ <<y, x>>[1] = y /\ <<y, x>>[2] = x
    OBVIOUS
  <2>2. ~(y < x)
    BY <1>2, <2>1
  <2> QED  BY <2>1, <2>2
<1> QED  BY <1>3 DEF Min

LEMMA MaxOfNats ==
    ASSUME NEW S \in SUBSET Nat, S # {}, NEW n \in Nat, \A x \in S : x <= n
    PROVE  Max(S) \in S /\ \A x \in S : x <= Max(S)
<1> DEFINE B == {b \in Nat : \A x \in S : x <= b}
<1>1. B \in SUBSET Nat /\ B # {}
  OBVIOUS
<1>2. PICK m \in B : \A b \in B : m <= b
  BY <1>1, MinOfNats
<1>3. m \in S
  <2> SUFFICES ASSUME m \notin S PROVE FALSE
    OBVIOUS
  <2>1. \A x \in S : x <= m - 1
    BY <1>2
  <2>2. m - 1 \in B
    <3>1. PICK x \in S : TRUE
      OBVIOUS
    <3>2. x \in Nat /\ x <= m - 1 /\ m \in Nat
      BY <2>1, <1>2
    <3> QED  BY <2>1, <3>2
  <2> QED  BY <1>2, <2>2
<1>4. \A x \in S : m >= x
  BY <1>2
<1>5. Max(S) \in S /\ \A x \in S : Max(S) >= x
  BY <1>3, <1>4 DEF Max
<1> QED  BY <1>5

----------------------------------------------------------------------------
(* Retention takes from the head.                                          *)

LEMMA RetentionTakesTheHead ==
    ASSUME NEW rows \in Messages, clock \in Nat, Ascend(rows, rows),
           NEW n \in Nat, \A x \in DOMAIN rows : x <= n,
           NEW y \in DOMAIN rows, NEW x \in DOMAIN rows, y <= x,
           x \in purge_queue_retention(rows)
    PROVE  y \in purge_queue_retention(rows)
<1> DEFINE old == {o \in DOMAIN rows : rows[o] < clock - RetentionTime}
           rest == DOMAIN rows \ old
           from(o) == {z \in rest : z >= o}
<1>1. purge_queue_retention(rows) = old \union {o \in rest : Cardinality(from(o)) > MaxKept}
  BY DEF purge_queue_retention
<1>2. rows \in [DOMAIN rows -> Nat] /\ DOMAIN rows \subseteq Nat /\ rows[y] <= rows[x]
  BY MessagesAre DEF Ascend
<1>3. CASE x \in old
  BY <1>1, <1>2, <1>3, QueueBounds
<1>4. CASE x \in rest /\ Cardinality(from(x)) > MaxKept /\ y \in rest
  <2>1. from(x) \subseteq from(y)
    BY <1>2
  <2>2. IsFiniteSet(from(y)) /\ IsFiniteSet(from(x))
    <3>1. from(y) \in SUBSET Nat /\ from(x) \in SUBSET Nat
      BY <1>2
    <3>2. (\A s \in from(y) : s <= n) /\ (\A s \in from(x) : s <= n)
      OBVIOUS
    <3> HIDE DEF from
    <3> QED  BY <3>1, <3>2, FS_BoundedSetOfNaturals
  <2>3. Cardinality(from(x)) <= Cardinality(from(y))
    BY <2>1, <2>2, FS_Subset
  <2>4. Cardinality(from(x)) \in Nat /\ Cardinality(from(y)) \in Nat
    BY <2>2, FS_CardinalityType
  <2>5. Cardinality(from(y)) > MaxKept
    BY <2>3, <2>4, <1>4, QueueBounds
  <2> QED  BY <1>1, <1>4, <2>5
<1> QED  BY <1>1, <1>3, <1>4

----------------------------------------------------------------------------
(* The producers' steps.                                                   *)

LEMMA QueueFields ==
    ASSUME QueueTypeOK
    PROVE  /\ \A p \in Producers : /\ ptx[p] \in ProducerTx
                                   /\ ptx[p].snap \in Messages /\ ptx[p].writes \in Messages
                                   /\ ptx[p].removed \subseteq Nat
           /\ consumer.mode \in Modes /\ consumer.alive \in BOOLEAN /\ consumer.offset \in Nat
           /\ consumer.tx \in ConsumerTx /\ consumer.tx.open \in BOOLEAN
           /\ consumer.tx.snap \in Messages /\ consumer.tx.ack \in Nat /\ consumer.tx.work \in Nat
BY DEF QueueTypeOK, ProducerTx, ConsumerTx

LEMMA Records ==
    /\ Closed \in ProducerTx /\ Closed.writes = <<>> /\ NoTx \in ConsumerTx
    /\ NoTx.open = FALSE /\ NoTx.snap = <<>>
    /\ kept \in Messages => Begun \in ProducerTx /\ Begun.writes = <<>>
BY NoMessages DEF Closed, Begun, NoTx, ProducerTx, ConsumerTx

\* Nothing the order of messages depends on has changed.
LEMMA OrderUntouched ==
    ASSUME ~disordered => Ordered,
           UNCHANGED <<kept, consumer, committed, ever, disordered, skipped, passed, processed>>
    PROVE  (~disordered => Ordered)'
BY DEF Ordered, KeptIsTail, SnapHasNoHoles, OnceInv, DoneBelow, Position

LEMMA PurgedAreSeen ==
    ASSUME NEW rows PROVE purge_queue_retention(rows) \subseteq DOMAIN rows
BY DEF purge_queue_retention

LEMMA QueueInitial == QueueInit => QueueInv
<1> SUFFICES ASSUME QueueInit PROVE QueueInv
  OBVIOUS
<1>1. PICK m \in Modes : consumer = [mode |-> m, alive |-> FALSE, offset |-> 1, tx |-> NoTx]
  BY DEF QueueInit
<1>2. QueueTypeOK
  <2>1. consumer \in [mode : Modes, alive : BOOLEAN, offset : Nat, tx : ConsumerTx]
    BY <1>1, Records
  <2>2. ptx \in [Producers -> ProducerTx] /\ processed \in [Offsets -> Nat]
    BY Records DEF QueueInit
  <2>3. kept \in Messages
    BY NoMessages DEF QueueInit
  <2>4. clock = 0 /\ next_row_id = 1 /\ committed = 0
    BY DEF QueueInit
  <2>5. clock \in Nat /\ next_row_id \in Nat \ {0} /\ committed \in Nat
    BY <2>4
  <2>6. disordered = FALSE
    BY DEF QueueInit
  <2>7. disordered \in BOOLEAN
    BY <2>6
  <2> QED  BY <2>1, <2>2, <2>3, <2>5, <2>7 DEF QueueTypeOK
<1>3. DOMAIN kept = {} /\ DOMAIN consumer.tx.snap = {} /\ \A p \in Producers : DOMAIN ptx[p].writes = {}
  BY <1>1, Records, NoMessages DEF QueueInit
<1>4. Numbered
  BY <1>3, QueueBounds DEF QueueInit, Numbered
<1>5. StampsAscend
  BY <1>3 DEF StampsAscend, Past, Ascend
<1>6. OnceInv
  BY <1>1, Records DEF QueueInit, OnceInv, DoneBelow, Offsets
<1>7. Ordered
  BY <1>3, <1>6 DEF QueueInit, Ordered, KeptIsTail, SnapHasNoHoles
<1> QED  BY <1>2, <1>4, <1>5, <1>7 DEF QueueInv

LEMMA SendStep ==
    ASSUME QueueInv, NEW p \in Producers, send(p)
    PROVE  QueueInv'
<1> DEFINE tx == IF ptx[p].open THEN ptx[p] ELSE Begun
           one == [x \in {next_row_id} |-> clock]
           writes == Merge(tx.writes, one)
           seen == Without(Merge(tx.snap, writes), tx.removed)
           gone == tx.removed \union purge_queue_retention(seen)
<1>1. /\ QueueTypeOK /\ Numbered /\ StampsAscend /\ (~disordered => Ordered)
      /\ clock \in Nat /\ next_row_id \in Nat \ {0} /\ kept \in Messages
  BY DEF QueueInv, QueueTypeOK
<1>2. /\ next_row_id <= MaxOffset
      /\ ptx' = [ptx EXCEPT ![p] = [tx EXCEPT !.writes = writes, !.removed = gone]]
      /\ next_row_id' = next_row_id + 1
      /\ UNCHANGED <<clock, kept, consumer, committed, ever, disordered, skipped, passed, processed>>
  BY DEF send
<1>3. /\ tx \in ProducerTx /\ tx.writes \in Messages /\ tx.snap \in Messages /\ tx.removed \subseteq Nat
      /\ tx.writes = ptx[p].writes \/ DOMAIN tx.writes = {}
  <2>1. tx \in ProducerTx /\ (tx.writes = ptx[p].writes \/ tx.writes = <<>>)
    BY <1>1, QueueFields, Records
  <2> HIDE DEF tx
  <2> QED  BY <2>1, NoMessages DEF ProducerTx
<1> HIDE DEF tx
<1>4. one \in Messages /\ DOMAIN one = {next_row_id} /\ one[next_row_id] = clock
  BY <1>1, OneMessage
<1> HIDE DEF one
<1>5. /\ writes \in Messages /\ DOMAIN writes = DOMAIN tx.writes \union {next_row_id}
      /\ writes[next_row_id] = clock
      /\ \A x \in DOMAIN tx.writes : x # next_row_id => writes[x] = tx.writes[x]
  <2>1. /\ writes \in Messages /\ DOMAIN writes = DOMAIN tx.writes \union DOMAIN one
        /\ \A x \in DOMAIN one : writes[x] = one[x]
        /\ \A x \in DOMAIN tx.writes : x \notin DOMAIN one => writes[x] = tx.writes[x]
    BY <1>3, <1>4, MergedMessages
  <2> HIDE DEF writes
  <2> QED  BY <1>4, <2>1
<1>6. seen \in Messages
  BY <1>3, <1>5, MergedMessages, LeftMessages
<1> HIDE DEF writes, seen
<1>7. gone \subseteq Nat
  BY <1>3, <1>6, PurgedAreSeen, MessagesAre
<1> HIDE DEF gone
<1>8. /\ ptx' \in [Producers -> ProducerTx] /\ ptx'[p].writes = writes
      /\ \A q \in Producers : q # p => ptx'[q] = ptx[q]
  <2>1. [tx EXCEPT !.writes = writes, !.removed = gone] \in ProducerTx
    BY <1>3, <1>5, <1>7 DEF ProducerTx
  <2>2. [tx EXCEPT !.writes = writes, !.removed = gone].writes = writes
    BY <1>3 DEF ProducerTx
  <2> QED  BY <1>1, <1>2, <2>1, <2>2 DEF QueueTypeOK
<1>9. /\ DOMAIN tx.writes \subseteq 1..(next_row_id - 1)
      /\ Past(tx.writes) /\ Ascend(kept, tx.writes) /\ Ascend(tx.writes, kept) /\ Ascend(tx.writes, tx.writes)
      /\ \A q \in Producers : Ascend(tx.writes, ptx[q].writes) /\ Ascend(ptx[q].writes, tx.writes)
  BY <1>1, <1>3 DEF Numbered, StampsAscend, Past, Ascend
<1>10. QueueTypeOK'
  BY <1>1, <1>2, <1>8 DEF QueueTypeOK
<1>11. Numbered'
  <2>1. \A q \in Producers : DOMAIN ptx'[q].writes \subseteq 1..next_row_id
    <3> TAKE q \in Producers
    <3>1. CASE q = p
      BY <3>1, <1>1, <1>5, <1>8, <1>9
    <3>2. CASE q # p
      BY <3>2, <1>1, <1>8 DEF Numbered
    <3> QED  BY <3>1, <3>2
  <2>2. /\ next_row_id' <= MaxOffset + 1 /\ next_row_id' - 1 = next_row_id
        /\ ever' \subseteq 1..next_row_id
    BY <1>1, <1>2, QueueBounds DEF Numbered
  <2> QED  BY <1>1, <1>2, <2>1, <2>2 DEF Numbered
<1>12. StampsAscend'
  <2>1. Past(kept)' /\ Ascend(kept, kept)'
    BY <1>1, <1>2 DEF StampsAscend, Past, Ascend
  <2>2. DOMAIN kept \subseteq 1..(next_row_id - 1) /\ Past(kept)
    BY <1>1 DEF Numbered, StampsAscend
  <2>3. \A q \in Producers : DOMAIN ptx[q].writes \subseteq 1..(next_row_id - 1) /\ Past(ptx[q].writes)
    BY <1>1 DEF Numbered, StampsAscend
  <2>4. ASSUME NEW f, Past(f), DOMAIN f \subseteq 1..(next_row_id - 1), Ascend(f, tx.writes), Ascend(tx.writes, f)
        PROVE  Ascend(f, writes) /\ Ascend(writes, f)
    <3>1. ASSUME NEW x \in DOMAIN f, NEW y \in DOMAIN writes
          PROVE  (x <= y => f[x] <= writes[y]) /\ (y <= x => writes[y] <= f[x])
      <4>1. CASE y = next_row_id
        BY <1>1, <2>4, <4>1, <1>5 DEF Past
      <4>2. CASE y # next_row_id
        BY <2>4, <4>2, <1>5 DEF Ascend
      <4> QED  BY <4>1, <4>2
    <3> QED  BY <3>1 DEF Ascend
  <2>5. Past(writes)
    BY <1>1, <1>5, <1>9 DEF Past
  <2>6. Ascend(writes, writes)
    <3>1. Ascend(tx.writes, writes)
      BY <1>9, <2>4
    <3>2. ASSUME NEW x \in DOMAIN writes, NEW y \in DOMAIN writes, x <= y
          PROVE  writes[x] <= writes[y]
      <4>1. CASE x # next_row_id
        BY <3>1, <3>2, <4>1, <1>5 DEF Ascend
      <4>2. CASE x = next_row_id
        <5>1. y = next_row_id
          BY <1>1, <1>5, <1>9, <3>2, <4>2
        <5> QED  BY <5>1, <4>2, <1>1, <1>5
      <4> QED  BY <4>1, <4>2
    <3> QED  BY <3>2 DEF Ascend
  <2>7. ASSUME NEW q \in Producers
        PROVE  /\ Past(ptx[q].writes)'
               /\ Ascend(kept, ptx[q].writes)' /\ Ascend(ptx[q].writes, kept)'
    <3>1. CASE q = p
      <4>1. Ascend(kept, writes) /\ Ascend(writes, kept)
        BY <1>9, <2>2, <2>4
      <4> QED  BY <3>1, <4>1, <2>5, <1>2, <1>8 DEF Past, Ascend
    <3>2. CASE q # p
      BY <3>2, <1>1, <1>2, <1>8 DEF StampsAscend, Past, Ascend
    <3> QED  BY <3>1, <3>2
  <2>8. ASSUME NEW q \in Producers, NEW r \in Producers
        PROVE  Ascend(ptx[q].writes, ptx[r].writes)'
    <3>1. \A s \in Producers : Ascend(ptx[s].writes, writes) /\ Ascend(writes, ptx[s].writes)
      BY <1>9, <2>3, <2>4
    <3>2. /\ ptx'[q].writes = IF q = p THEN writes ELSE ptx[q].writes
          /\ ptx'[r].writes = IF r = p THEN writes ELSE ptx[r].writes
      BY <1>8
    <3>3. Ascend(ptx'[q].writes, ptx'[r].writes)
      BY <1>1, <2>6, <3>1, <3>2 DEF StampsAscend
    <3> QED  BY <3>3 DEF Ascend
  <2> QED  BY <2>1, <2>7, <2>8 DEF StampsAscend
<1>13. (~disordered => Ordered)'
  BY <1>1, <1>2, OrderUntouched
<1> QED  BY <1>10, <1>11, <1>12, <1>13 DEF QueueInv

LEMMA CommitStep ==
    ASSUME QueueInv, NEW p \in Producers, commit(p)
    PROVE  QueueInv'
<1> DEFINE w == ptx[p].writes
           r == ptx[p].removed
<1>1. /\ QueueTypeOK /\ Numbered /\ StampsAscend /\ (~disordered => Ordered)
      /\ clock \in Nat /\ next_row_id \in Nat \ {0} /\ kept \in Messages /\ disordered \in BOOLEAN
      /\ w \in Messages
  BY QueueFields DEF QueueInv, QueueTypeOK
<1>2. /\ kept' = Without(Merge(kept, w), r)
      /\ ever' = ever \union DOMAIN w
      /\ disordered' = (\/ disordered
                        \/ (\E o \in DOMAIN w, x \in ever : o < x)
                        \/ (\E o \in r, x \in DOMAIN kept' : x < o))
      /\ ptx' = [ptx EXCEPT ![p] = Closed]
      /\ UNCHANGED <<clock, next_row_id, consumer, committed, skipped, passed, processed>>
  BY DEF commit
<1>3. /\ kept' \in Messages /\ DOMAIN kept' = (DOMAIN kept \union DOMAIN w) \ r
      /\ \A x \in DOMAIN kept' : IF x \in DOMAIN w THEN kept'[x] = w[x] ELSE kept'[x] = kept[x]
  <2>1. /\ Merge(kept, w) \in Messages /\ DOMAIN Merge(kept, w) = DOMAIN kept \union DOMAIN w
        /\ \A x \in DOMAIN w : Merge(kept, w)[x] = w[x]
        /\ \A x \in DOMAIN kept : x \notin DOMAIN w => Merge(kept, w)[x] = kept[x]
    BY <1>1, MergedMessages
  <2>2. /\ kept' \in Messages /\ DOMAIN kept' = DOMAIN Merge(kept, w) \ r
        /\ \A x \in DOMAIN Merge(kept, w) \ r : kept'[x] = Merge(kept, w)[x]
    <3>1. PICK m : m = Merge(kept, w)
      OBVIOUS
    <3>2. m \in Messages /\ kept' = Without(m, r)
      BY <1>2, <2>1, <3>1
    <3>3. /\ Without(m, r) \in Messages /\ DOMAIN Without(m, r) = DOMAIN m \ r
          /\ \A x \in DOMAIN m \ r : Without(m, r)[x] = m[x]
      BY <3>2, LeftMessages
    <3> QED  BY <3>1, <3>2, <3>3
  <2> QED  BY <2>1, <2>2
<1>4. /\ ptx' \in [Producers -> ProducerTx] /\ DOMAIN ptx'[p].writes = {}
      /\ \A q \in Producers : q # p => ptx'[q] = ptx[q]
  BY <1>1, <1>2, Records, NoMessages DEF QueueTypeOK
<1>5. QueueTypeOK'
  BY <1>1, <1>2, <1>3, <1>4 DEF QueueTypeOK
<1>6. Numbered'
  <2>1. DOMAIN w \subseteq 1..(next_row_id - 1) /\ DOMAIN kept \subseteq ever
    BY <1>1 DEF Numbered
  <2>2. \A q \in Producers : DOMAIN ptx'[q].writes \subseteq 1..(next_row_id - 1)
    BY <1>1, <1>4 DEF Numbered
  <2>3. ever' \subseteq 1..(next_row_id - 1) /\ DOMAIN kept' \subseteq ever'
    BY <1>1, <1>2, <1>3, <2>1 DEF Numbered
  <2>4. DOMAIN consumer'.tx.snap \subseteq ever'
    BY <1>1, <1>2 DEF Numbered
  <2> QED  BY <1>1, <1>2, <2>2, <2>3, <2>4 DEF Numbered
<1>7. StampsAscend'
  <2>1. Ascend(kept, kept) /\ Ascend(kept, w) /\ Ascend(w, kept) /\ Ascend(w, w) /\ Past(kept) /\ Past(w)
    BY <1>1 DEF StampsAscend
  <2>2. ASSUME NEW f, Ascend(kept, f), Ascend(w, f), Ascend(f, kept), Ascend(f, w)
        PROVE  Ascend(kept', f) /\ Ascend(f, kept')
    BY <1>3, <2>2 DEF Ascend
  <2>3. Past(kept)'
    BY <1>2, <1>3, <2>1 DEF Past
  <2>4. Ascend(kept', kept) /\ Ascend(kept, kept') /\ Ascend(kept', w) /\ Ascend(w, kept')
    BY <2>1, <2>2
  <2>5. Ascend(kept', kept')
    BY <2>2, <2>4
  <2>6. ASSUME NEW q \in Producers
        PROVE  /\ Past(ptx[q].writes)'
               /\ Ascend(kept, ptx[q].writes)' /\ Ascend(ptx[q].writes, kept)'
    <3>1. CASE q = p
      BY <3>1, <1>4 DEF Past, Ascend
    <3>2. CASE q # p
      <4>1. Ascend(kept', ptx[q].writes) /\ Ascend(ptx[q].writes, kept') /\ Past(ptx[q].writes)
        BY <1>1, <2>2 DEF StampsAscend
      <4> QED  BY <3>2, <4>1, <1>2, <1>4 DEF Past, Ascend
    <3> QED  BY <3>1, <3>2
  <2>7. ASSUME NEW q \in Producers, NEW s \in Producers
        PROVE  Ascend(ptx[q].writes, ptx[s].writes)'
    BY <1>1, <1>4 DEF StampsAscend, Ascend
  <2>8. Ascend(kept, kept)'
    BY <2>5 DEF Ascend
  <2> QED  BY <2>3, <2>6, <2>7, <2>8 DEF StampsAscend
<1>8. ASSUME ~disordered' PROVE Ordered'
  <2>1. /\ Ordered /\ ~disordered
        /\ \A o \in DOMAIN w, x \in ever : ~(o < x)
        /\ \A o \in r, x \in DOMAIN kept' : ~(x < o)
    BY <1>1, <1>2, <1>8
  <2>2. /\ ever \subseteq Nat \ {0} /\ DOMAIN w \subseteq Nat \ {0} /\ DOMAIN kept \subseteq ever
        /\ DOMAIN consumer.tx.snap \subseteq ever
    BY <1>1 DEF Numbered
  <2>3. KeptIsTail'
    <3>1. ASSUME NEW x \in ever', NEW y \in DOMAIN kept', y <= x, x \notin DOMAIN kept'
          PROVE  FALSE
      <4>1. x \in Nat /\ y \in Nat /\ y # x
        BY <1>2, <1>3, <2>2, <3>1
      <4>2. x \notin r
        BY <2>1, <3>1, <4>1
      <4>3. x \in ever /\ x \notin DOMAIN kept /\ x \notin DOMAIN w
        BY <1>2, <1>3, <3>1, <4>2
      <4>4. y \notin DOMAIN w
        BY <2>1, <3>1, <4>1, <4>3
      <4> QED  BY <1>3, <2>1, <3>1, <4>3, <4>4 DEF Ordered, KeptIsTail
    <3> QED  BY <3>1 DEF KeptIsTail
  <2>4. SnapHasNoHoles'
    <3>1. ASSUME NEW x \in ever', NEW y \in DOMAIN consumer.tx.snap, NEW z \in DOMAIN consumer.tx.snap,
                 y <= x, x <= z
          PROVE  x \in DOMAIN consumer.tx.snap
      <4>1. CASE x \in ever
        BY <2>1, <3>1, <4>1 DEF Ordered, SnapHasNoHoles
      <4>2. CASE x \in DOMAIN w
        <5>1. x \in Nat /\ z \in Nat /\ z \in ever
          BY <2>2, <4>2
        <5>2. ~(x < z) /\ x <= z
          BY <2>1, <3>1, <4>2, <5>1
        <5>3. x = z
          BY <5>1, <5>2
        <5> QED  BY <5>3
      <4> QED  BY <1>2, <4>1, <4>2
    <3> QED  BY <3>1, <1>2 DEF SnapHasNoHoles
  <2>5. ASSUME OnceInv PROVE OnceInv'
    <3>1. ASSUME NEW at \in Nat, at \in {0, 1} \/ at \in ever \/ at - 1 \in ever, DoneBelow(at)
          PROVE  DoneBelow(at)'
      <4>1. ASSUME NEW o \in ever', o < at PROVE o \in ever
        BY <1>2, <2>1, <2>2, <3>1, <4>1
      <4> QED  BY <1>2, <3>1, <4>1 DEF DoneBelow
    <3>2. committed \in Nat /\ Position \in Nat /\ Position' = Position
      BY <1>1, <1>2, QueueFields DEF Position, QueueTypeOK
    <3>3. DoneBelow(committed)'
      <4>1. DoneBelow(committed) /\ (committed = 0 \/ committed - 1 \in ever)
        BY <2>5 DEF OnceInv
      <4>2. \A o \in ever' : o < committed' /\ o \notin passed' => processed'[o] = 1
        BY <4>1, <3>1, <3>2, <1>2 DEF DoneBelow
      <4> QED  BY <4>2 DEF DoneBelow
    <3>4. consumer'.alive => DoneBelow(Position)'
      <4> SUFFICES ASSUME consumer.alive PROVE DoneBelow(Position)'
        BY <1>2
      <4>1. DoneBelow(Position) /\ (Position = 1 \/ Position \in ever \/ Position - 1 \in ever)
        BY <2>5 DEF OnceInv
      <4>2. \A o \in ever' : o < Position /\ o \notin passed' => processed'[o] = 1
        BY <4>1, <3>1, <3>2 DEF DoneBelow
      <4> QED  BY <4>2, <3>2 DEF DoneBelow
    <3>5. ever \subseteq ever'
      BY <1>2
    <3> QED  BY <2>5, <1>2, <3>2, <3>3, <3>4, <3>5 DEF OnceInv
  <2> QED  BY <1>2, <2>1, <2>3, <2>4, <2>5 DEF Ordered
<1> QED  BY <1>5, <1>6, <1>7, <1>8 DEF QueueInv

\* The producer's transaction is gone, and nothing else has changed.
LEMMA RollbackStep ==
    ASSUME QueueInv, NEW p \in Producers, rollback(p)
    PROVE  QueueInv'
<1>1. /\ QueueTypeOK /\ Numbered /\ StampsAscend /\ (~disordered => Ordered)
      /\ ptx' = [ptx EXCEPT ![p] = Closed]
      /\ UNCHANGED <<clock, next_row_id, kept, consumer, committed, ever, disordered, skipped, passed, processed>>
  BY DEF QueueInv, rollback
<1>2. /\ ptx' \in [Producers -> ProducerTx] /\ DOMAIN ptx'[p].writes = {}
      /\ \A q \in Producers : q # p => ptx'[q] = ptx[q]
  BY <1>1, Records, NoMessages DEF QueueTypeOK
<1>3. QueueTypeOK'
  BY <1>1, <1>2 DEF QueueTypeOK
<1>4. Numbered'
  BY <1>1, <1>2 DEF Numbered
<1>5. StampsAscend'
  BY <1>1, <1>2 DEF StampsAscend, Ascend, Past
<1>6. (~disordered => Ordered)'
  BY <1>1, OrderUntouched
<1> QED  BY <1>3, <1>4, <1>5, <1>6 DEF QueueInv

LEMMA CleanerStep ==
    ASSUME QueueInv, QueueRetentionCleaner
    PROVE  QueueInv'
<1> DEFINE gone == purge_queue_retention(kept)
<1>1. /\ QueueTypeOK /\ Numbered /\ StampsAscend /\ (~disordered => Ordered)
      /\ kept' = Without(kept, gone) /\ kept \in Messages
      /\ UNCHANGED <<clock, next_row_id, ptx, consumer, committed, ever, disordered, skipped, passed, processed>>
  BY DEF QueueInv, QueueTypeOK, QueueRetentionCleaner
<1>2. /\ kept' \in Messages /\ DOMAIN kept' = DOMAIN kept \ gone
      /\ \A x \in DOMAIN kept' : kept'[x] = kept[x]
  BY <1>1, LeftMessages
<1>3. QueueTypeOK'
  BY <1>1, <1>2 DEF QueueTypeOK
<1>4. Numbered'
  BY <1>1, <1>2 DEF Numbered
<1>5. StampsAscend'
  BY <1>1, <1>2 DEF StampsAscend, Ascend, Past
<1>6. ASSUME ~disordered' PROVE Ordered'
  <2>1. KeptIsTail'
    <3>1. ASSUME NEW x \in ever, NEW y \in DOMAIN kept', y <= x
          PROVE  x \in DOMAIN kept'
      <4>1. x \in DOMAIN kept /\ y \in DOMAIN kept /\ y \notin gone
        BY <1>1, <1>2, <1>6, <3>1 DEF Ordered, KeptIsTail
      <4>2. \A z \in DOMAIN kept : z <= next_row_id
        <5>1. DOMAIN kept \subseteq 1..(next_row_id - 1) /\ next_row_id \in Nat
          BY <1>1 DEF Numbered, QueueTypeOK
        <5> QED  BY <5>1
      <4>3. clock \in Nat /\ next_row_id \in Nat /\ Ascend(kept, kept)
        BY <1>1 DEF QueueTypeOK, StampsAscend
      <4>4. x \notin gone
        BY <1>1, <3>1, <4>1, <4>2, <4>3, RetentionTakesTheHead
      <4> QED  BY <1>2, <4>1, <4>4
    <3> QED  BY <1>1, <3>1 DEF KeptIsTail
  <2> QED  BY <1>1, <1>6, <2>1 DEF Ordered, SnapHasNoHoles, OnceInv, DoneBelow, Position
<1> QED  BY <1>3, <1>4, <1>5, <1>6 DEF QueueInv

LEMMA TickStep ==
    ASSUME QueueInv, Tick
    PROVE  QueueInv'
<1>1. /\ QueueTypeOK /\ Numbered /\ StampsAscend /\ (~disordered => Ordered)
      /\ clock' = clock + 1 /\ clock \in Nat
      /\ UNCHANGED <<next_row_id, kept, ptx, consumer, committed, ever, disordered, skipped, passed, processed>>
  BY DEF QueueInv, QueueTypeOK, Tick
<1>2. QueueTypeOK'
  BY <1>1 DEF QueueTypeOK
<1>3. Numbered'
  BY <1>1 DEF Numbered
<1>4. StampsAscend'
  <2>1. ASSUME NEW f \in Messages, Past(f) PROVE \A x \in DOMAIN f : f[x] <= clock + 1
    BY <1>1, <2>1, MessagesAre DEF Past
  <2>2. Past(kept)' /\ \A p \in Producers : Past(ptx[p].writes)'
    BY <1>1, <2>1, QueueFields DEF StampsAscend, Past, QueueTypeOK
  <2> QED  BY <1>1, <2>2 DEF StampsAscend, Ascend
<1>5. (~disordered => Ordered)'
  BY <1>1, OrderUntouched
<1> QED  BY <1>2, <1>3, <1>4, <1>5 DEF QueueInv

----------------------------------------------------------------------------
(* The consumer's steps.                                                   *)

LEMMA ConsumerFrame ==
    ASSUME QueueInv,
           UNCHANGED <<clock, next_row_id, kept, ptx, ever, disordered>>,
           consumer' \in [mode : Modes, alive : BOOLEAN, offset : Nat, tx : ConsumerTx],
           committed' \in Nat, processed' \in [Offsets -> Nat],
           DOMAIN consumer'.tx.snap \subseteq ever,
           ~disordered => Ordered'
    PROVE  QueueInv'
<1>1. QueueTypeOK'
  BY DEF QueueInv, QueueTypeOK
<1>2. Numbered'
  BY DEF QueueInv, Numbered
<1>3. StampsAscend'
  BY DEF QueueInv, StampsAscend, Ascend, Past
<1> QED  BY <1>1, <1>2, <1>3 DEF QueueInv

LEMMA EndsOfTheQueue ==
    ASSUME QueueInv
    PROVE  /\ Start(kept) \in Nat /\ End(kept) \in Nat
           /\ Start(kept) = 1 \/ Start(kept) \in DOMAIN kept
           /\ kept # <<>> => Start(kept) = Min(DOMAIN kept) /\ Start(kept) \in DOMAIN kept
           /\ DOMAIN kept \subseteq ever /\ ever \subseteq Nat \ {0} /\ ever \subseteq Offsets
<1>1. /\ kept \in Messages /\ next_row_id \in Nat \ {0} /\ DOMAIN kept \subseteq ever
      /\ ever \subseteq 1..(next_row_id - 1) /\ next_row_id <= MaxOffset + 1
  BY DEF QueueInv, QueueTypeOK, Numbered
<1>2. ever \subseteq Nat \ {0} /\ ever \subseteq Offsets /\ \A x \in DOMAIN kept : x <= next_row_id
  <2>1. MaxOffset \in Nat
    BY QueueBounds
  <2>2. ASSUME NEW x \in ever PROVE x \in Nat \ {0} /\ x \in 1..MaxOffset /\ x <= next_row_id
    BY <1>1, <2>1
  <2> QED  BY <1>1, <2>2 DEF Offsets
<1>3. CASE kept = <<>>
  BY <1>1, <1>2, <1>3 DEF Start, End
<1>4. CASE kept # <<>>
  <2>1. DOMAIN kept # {} /\ DOMAIN kept \in SUBSET Nat
    BY <1>1, <1>2, <1>4, NoMessages
  <2>2. Min(DOMAIN kept) \in DOMAIN kept
    BY <2>1, MinOfNats
  <2>3. Max(DOMAIN kept) \in DOMAIN kept
    BY <2>1, <1>1, <1>2, MaxOfNats
  <2> QED  BY <1>1, <1>2, <1>4, <2>1, <2>2, <2>3 DEF Start, End
<1> QED  BY <1>3, <1>4

LEMMA SeekStep ==
    ASSUME QueueInv, NEW to \in Nat, Seek(to),
           consumer.mode = "exactly_once" => to \in ever /\ consumer.offset < to
    PROVE  QueueInv'
<1>1. /\ QueueTypeOK /\ (~disordered => Ordered) /\ ~consumer.tx.open /\ consumer.alive
      /\ consumer' = [consumer EXCEPT !.offset = to]
      /\ passed' = passed \union (consumer.offset..(to - 1))
      /\ UNCHANGED <<clock, next_row_id, kept, ptx, committed, ever, disordered, skipped, processed>>
  BY DEF QueueInv, Seek
<1>2. /\ consumer' \in [mode : Modes, alive : BOOLEAN, offset : Nat, tx : ConsumerTx]
      /\ consumer'.offset = to /\ consumer'.tx = consumer.tx
      /\ consumer'.mode = consumer.mode /\ consumer'.alive = consumer.alive
      /\ consumer.offset \in Nat /\ committed \in Nat /\ processed \in [Offsets -> Nat]
  BY <1>1 DEF QueueTypeOK
<1>3. DOMAIN consumer'.tx.snap \subseteq ever
  BY <1>2 DEF QueueInv, Numbered
<1>4. ASSUME Ordered, consumer.mode = "exactly_once" PROVE OnceInv'
  <2>1. OnceInv /\ to \in ever /\ consumer.offset < to
    BY <1>4 DEF Ordered
  <2>2. Position = consumer.offset /\ Position' = to
    BY <1>1, <1>2 DEF Position
  <2>3. committed <= consumer.offset /\ DoneBelow(consumer.offset)
    BY <1>1, <2>1, <2>2 DEF OnceInv
  <2>4. DoneBelow(to)'
    <3>1. ASSUME NEW o \in ever, o < to, o \notin passed' PROVE processed[o] = 1
      <4>1. o \in Nat
        BY EndsOfTheQueue
      <4>2. o < consumer.offset /\ o \notin passed
        BY <1>1, <1>2, <3>1, <4>1
      <4> QED  BY <2>3, <4>2 DEF DoneBelow
    <3> QED  BY <1>1, <3>1 DEF DoneBelow
  <2>5. DoneBelow(committed)'
    BY <1>1, <2>1 DEF OnceInv, DoneBelow
  <2>6. committed <= to
    BY <1>2, <2>1, <2>3
  <2>7. DoneBelow(Position)'
    BY <2>2, <2>4 DEF DoneBelow
  <2> QED  BY <1>1, <1>2, <2>1, <2>2, <2>5, <2>6, <2>7 DEF OnceInv
<1>5. ASSUME Ordered PROVE Ordered'
  BY <1>1, <1>2, <1>4, <1>5 DEF Ordered, KeptIsTail, SnapHasNoHoles
<1> QED  BY <1>1, <1>2, <1>3, <1>5, ConsumerFrame

LEMMA SeeksStep ==
    ASSUME QueueInv,
           \/ seek_to_beginning \/ seek_to_end \/ rewind(1)
           \/ \E ts \in 0..MaxTime : seek_to_timestamp(ts)
    PROVE  QueueInv'
<1>1. CASE seek_to_beginning
  <2>1. Seek(Start(kept)) /\ Start(kept) \in Nat
    BY <1>1, EndsOfTheQueue DEF seek_to_beginning
  <2>2. ASSUME consumer.mode = "exactly_once" PROVE Start(kept) \in ever /\ consumer.offset < Start(kept)
    BY <1>1, <2>2, EndsOfTheQueue DEF seek_to_beginning, OffsetOutOfRange
  <2> QED  BY <2>1, <2>2, SeekStep
<1>2. CASE seek_to_end
  BY <1>2, EndsOfTheQueue, SeekStep DEF seek_to_end
<1>3. CASE rewind(1)
  <2> DEFINE to == IF consumer.offset > 1 THEN consumer.offset - 1 ELSE 1
  <2>1. consumer.offset \in Nat
    BY QueueFields DEF QueueInv
  <2>2. to \in Nat
    BY <2>1
  <2>3. Seek(to) /\ consumer.mode # "exactly_once"
    BY <1>3 DEF rewind
  <2> HIDE DEF to
  <2> QED  BY <2>2, <2>3, SeekStep
<1>4. CASE \E ts \in 0..MaxTime : seek_to_timestamp(ts)
  <2>1. PICK ts \in 0..MaxTime : seek_to_timestamp(ts)
    BY <1>4
  <2> DEFINE since == {o \in DOMAIN kept : kept[o] >= ts}
             to == IF since = {} THEN End(kept) ELSE Min(since)
  <2>2. Seek(to) /\ consumer.mode # "exactly_once"
    BY <2>1 DEF seek_to_timestamp
  <2>3. since \in SUBSET Nat
    BY EndsOfTheQueue
  <2>4. to \in Nat
    <3> HIDE DEF since
    <3> QED  BY <2>3, EndsOfTheQueue, MinOfNats
  <2> HIDE DEF to
  <2> QED  BY <2>2, <2>4, SeekStep
<1> QED  BY <1>1, <1>2, <1>3, <1>4

LEMMA CreateConsumerStep ==
    ASSUME QueueInv, create_consumer
    PROVE  QueueInv'
<1> DEFINE at == IF committed # 0 THEN committed ELSE Start(kept)
<1>1. /\ QueueTypeOK /\ ~consumer.alive
      /\ consumer' = [consumer EXCEPT !.alive = TRUE, !.offset = at]
      /\ passed' = IF committed # 0 THEN passed ELSE passed \union 1..(at - 1)
      /\ UNCHANGED <<clock, next_row_id, kept, ptx, committed, ever, disordered, skipped, processed>>
  BY DEF QueueInv, create_consumer
<1>2. /\ committed \in Nat /\ processed \in [Offsets -> Nat]
      /\ at \in Nat /\ committed <= at
      /\ committed # 0 => at = committed
      /\ committed = 0 => at = 1 \/ at \in ever
  BY <1>1, EndsOfTheQueue DEF QueueTypeOK
<1>3. committed = 0 => passed' = passed \union 1..(at - 1)
  BY <1>1
<1> HIDE DEF at
<1>4. /\ consumer' \in [mode : Modes, alive : BOOLEAN, offset : Nat, tx : ConsumerTx]
      /\ consumer'.offset = at /\ consumer'.tx = consumer.tx
      /\ consumer'.mode = consumer.mode /\ consumer'.alive
  BY <1>1, <1>2 DEF QueueTypeOK
<1>5. DOMAIN consumer'.tx.snap \subseteq ever
  BY <1>4 DEF QueueInv, Numbered
<1>6. ASSUME Ordered, consumer.mode = "exactly_once" PROVE OnceInv'
  <2>1. OnceInv /\ ~consumer.tx.open
    BY <1>1, <1>6 DEF Ordered, OnceInv
  <2>2. Position' = at
    BY <1>4, <2>1 DEF Position
  <2>3. passed \subseteq passed'
    BY <1>1
  <2>4. DoneBelow(committed)'
    BY <1>1, <2>1, <2>3 DEF OnceInv, DoneBelow
  <2>5. \A o \in ever : o < at /\ o \notin passed' => processed[o] = 1
    <3>1. CASE committed # 0
      BY <1>2, <2>1, <2>3, <3>1 DEF OnceInv, DoneBelow
    <3>2. CASE committed = 0
      <4>1. ASSUME NEW o \in ever, o < at PROVE o \in passed'
        <5>1. o \in Nat \ {0}
          BY EndsOfTheQueue
        <5> QED  BY <1>2, <1>3, <3>2, <4>1, <5>1
      <4> QED  BY <4>1
    <3> QED  BY <3>1, <3>2
  <2>6. DoneBelow(Position)'
    BY <1>1, <2>2, <2>5 DEF DoneBelow
  <2>7. at = 1 \/ at \in ever \/ at - 1 \in ever
    BY <1>2, <2>1 DEF OnceInv
  <2> QED  BY <1>1, <1>2, <1>4, <2>1, <2>2, <2>4, <2>6, <2>7 DEF OnceInv
<1>7. ASSUME Ordered PROVE Ordered'
  BY <1>1, <1>4, <1>6, <1>7 DEF Ordered, KeptIsTail, SnapHasNoHoles
<1>8. ~disordered => Ordered'
  BY <1>7 DEF QueueInv
<1> QED  BY <1>1, <1>2, <1>4, <1>5, <1>8, ConsumerFrame

LEMMA ReceiveStep ==
    ASSUME QueueInv, receive
    PROVE  QueueInv'
<1> DEFINE rows == IF consumer.tx.open THEN consumer.tx.snap ELSE kept
           found == {x \in DOMAIN rows : x >= consumer.offset}
           o == Min(found)
           ack == IF consumer.mode \in {"auto", "exactly_once"} THEN Acknowledged(o) ELSE 0
           tx == [open |-> TRUE, snap |-> rows, ack |-> ack, work |-> o]
<1>1. /\ consumer.alive
      /\ consumer.tx.open => consumer.mode = "transacted"
      /\ ~OffsetOutOfRange(rows, consumer.offset)
      /\ found # {}
      /\ consumer' = [consumer EXCEPT !.offset = o + 1, !.tx = IF consumer.mode # "client" THEN tx ELSE NoTx]
      /\ skipped' = skipped \union {x \in ever : consumer.offset <= x /\ x < o /\ x \notin DOMAIN rows}
      /\ UNCHANGED <<clock, next_row_id, kept, ptx, committed, ever, disordered, passed, processed>>
  BY DEF receive
<1>2. /\ QueueTypeOK /\ Numbered /\ (~disordered => Ordered)
      /\ committed \in Nat /\ processed \in [Offsets -> Nat] /\ consumer.offset \in Nat
  BY QueueFields DEF QueueInv, QueueTypeOK
<1>3. rows \in Messages /\ DOMAIN rows \subseteq ever /\ ever \subseteq Nat
  BY <1>2, EndsOfTheQueue, QueueFields DEF Numbered, QueueTypeOK
<1>4. /\ o \in DOMAIN rows /\ o >= consumer.offset /\ o \in Nat /\ o \in ever
      /\ \A x \in DOMAIN rows : x >= consumer.offset => o <= x
  <2>1. found \in SUBSET Nat
    BY <1>3
  <2>2. o \in found /\ \A x \in found : o <= x
    <3> HIDE DEF found
    <3> QED  BY <1>1, <2>1, MinOfNats
  <2> QED  BY <1>3, <2>2
<1>5. PICK y \in DOMAIN rows : y <= consumer.offset
  <2>1. DOMAIN rows # {} /\ rows # <<>>
    BY <1>4, NoMessages
  <2>2. Min(DOMAIN rows) \in DOMAIN rows /\ Min(DOMAIN rows) \in Nat
    BY <1>3, <2>1, MinOfNats
  <2>3. ~(consumer.offset < Min(DOMAIN rows))
    BY <1>1, <2>1 DEF OffsetOutOfRange
  <2>4. Min(DOMAIN rows) <= consumer.offset
    BY <1>2, <2>2, <2>3
  <2> QED  BY <2>2, <2>4
<1>6. rows = IF consumer.tx.open THEN consumer.tx.snap ELSE kept
  OBVIOUS
<1>7. /\ ack \in Nat
      /\ consumer.mode = "exactly_once" => ack = o + 1
  <2> HIDE DEF o
  <2> QED  BY <1>4 DEF Acknowledged
<1> HIDE DEF rows, found, o, ack
<1>8. tx \in ConsumerTx /\ tx.snap = rows /\ tx.open /\ tx.ack = ack /\ tx.work = o
  BY <1>3, <1>4, <1>7 DEF ConsumerTx
<1> HIDE DEF tx
<1>9. /\ consumer' \in [mode : Modes, alive : BOOLEAN, offset : Nat, tx : ConsumerTx]
      /\ consumer'.mode = consumer.mode /\ consumer'.alive = consumer.alive
      /\ consumer'.offset = o + 1
      /\ consumer'.tx = IF consumer.mode # "client" THEN tx ELSE NoTx
  <2>1. PICK t : t = IF consumer.mode # "client" THEN tx ELSE NoTx
    OBVIOUS
  <2>2. t \in ConsumerTx /\ o + 1 \in Nat
    BY <1>4, <1>8, <2>1, Records
  <2>3. consumer' = [consumer EXCEPT !.offset = o + 1, !.tx = t]
    BY <1>1, <2>1
  <2>4. /\ consumer' \in [mode : Modes, alive : BOOLEAN, offset : Nat, tx : ConsumerTx]
        /\ consumer'.mode = consumer.mode /\ consumer'.alive = consumer.alive
        /\ consumer'.offset = o + 1 /\ consumer'.tx = t
    BY <1>2, <2>2, <2>3 DEF QueueTypeOK
  <2> QED  BY <2>1, <2>4
<1>10. /\ DOMAIN consumer'.tx.snap \subseteq DOMAIN rows
       /\ consumer'.tx.snap = rows \/ DOMAIN consumer'.tx.snap = {}
  BY <1>8, <1>9, Records, NoMessages
<1>11. ASSUME Ordered PROVE Ordered'
  <2>1. ASSUME NEW x \in ever, y <= x, x <= o PROVE x \in DOMAIN rows
    BY <1>3, <1>4, <1>5, <1>6, <1>11, <2>1 DEF Ordered, KeptIsTail, SnapHasNoHoles
  <2>2. ASSUME NEW x \in ever, consumer.offset <= x, x < o PROVE x \in DOMAIN rows
    <3>1. x \in Nat /\ y \in Nat
      BY <1>3
    <3> QED  BY <1>2, <1>4, <1>5, <2>1, <2>2, <3>1
  <2>3. skipped' = {}
    BY <1>1, <1>11, <2>2 DEF Ordered
  <2>4. SnapHasNoHoles'
    <3>1. ASSUME NEW x \in ever, NEW a \in DOMAIN rows, NEW b \in DOMAIN rows, a <= x, x <= b
          PROVE  x \in DOMAIN rows
      BY <1>6, <1>11, <3>1 DEF Ordered, KeptIsTail, SnapHasNoHoles
    <3>2. CASE consumer'.tx.snap = rows
      BY <1>1, <3>1, <3>2 DEF SnapHasNoHoles
    <3>3. CASE DOMAIN consumer'.tx.snap = {}
      BY <3>3 DEF SnapHasNoHoles
    <3> QED  BY <1>10, <3>2, <3>3
  <2>5. KeptIsTail'
    BY <1>1, <1>11 DEF Ordered, KeptIsTail
  <2>6. ASSUME consumer.mode = "exactly_once" PROVE OnceInv'
    <3>1. OnceInv /\ ~consumer.tx.open /\ consumer'.tx = tx
      BY <1>1, <1>9, <1>11, <2>6 DEF Ordered
    <3>2. Position = consumer.offset /\ Position' = o
      BY <1>8, <3>1 DEF Position
    <3>3. committed <= consumer.offset /\ DoneBelow(consumer.offset)
      BY <1>1, <3>1, <3>2 DEF OnceInv
    <3>4. committed <= o
      BY <1>2, <1>4, <3>3
    <3>5. \A x \in ever : x < o /\ x \notin passed => processed[x] = 1
      <4>1. ASSUME NEW x \in ever, x < o PROVE x < consumer.offset
        <5>1. x \in Nat
          BY <1>3
        <5> SUFFICES ASSUME consumer.offset <= x PROVE FALSE
          BY <1>2, <5>1
        <5>2. o <= x
          BY <2>2, <1>4, <4>1
        <5> QED  BY <1>4, <4>1, <5>1, <5>2
      <4> QED  BY <3>3, <4>1 DEF DoneBelow
    <3>6. DoneBelow(Position)'
      BY <1>1, <3>2, <3>5 DEF DoneBelow
    <3>7. DoneBelow(committed)'
      BY <1>1, <3>1 DEF OnceInv, DoneBelow
    <3> QED  BY <1>1, <1>4, <1>7, <1>8, <1>9, <2>6, <3>1, <3>2, <3>4, <3>6, <3>7 DEF OnceInv
  <2> QED  BY <1>9, <2>3, <2>4, <2>5, <2>6 DEF Ordered
<1>12. DOMAIN consumer'.tx.snap \subseteq ever
  BY <1>3, <1>10
<1>13. ~disordered => Ordered'
  BY <1>2, <1>11
<1> QED  BY <1>1, <1>2, <1>9, <1>12, <1>13, ConsumerFrame

LEMMA CommitReceivedStep ==
    ASSUME QueueInv, commit_received
    PROVE  QueueInv'
<1>1. /\ consumer.alive /\ consumer.tx.open
      /\ consumer' = [consumer EXCEPT !.tx = NoTx]
      /\ committed' = IF consumer.tx.ack # 0 THEN consumer.tx.ack ELSE committed
      /\ processed' = IF consumer.mode = "exactly_once" THEN [processed EXCEPT ![consumer.tx.work] = @ + 1]
                      ELSE processed
      /\ UNCHANGED <<clock, next_row_id, kept, ptx, ever, disordered, skipped, passed>>
  BY DEF commit_received
<1>2. /\ QueueTypeOK /\ (~disordered => Ordered)
      /\ committed \in Nat /\ processed \in [Offsets -> Nat]
      /\ consumer.tx.ack \in Nat /\ consumer.tx.work \in Nat /\ consumer.offset \in Nat
  BY QueueFields DEF QueueInv, QueueTypeOK
<1>3. /\ consumer' \in [mode : Modes, alive : BOOLEAN, offset : Nat, tx : ConsumerTx]
      /\ consumer'.mode = consumer.mode /\ consumer'.alive = consumer.alive
      /\ consumer'.offset = consumer.offset /\ consumer'.tx = NoTx
  BY <1>1, <1>2, Records DEF QueueTypeOK
<1>4. committed' \in Nat /\ processed' \in [Offsets -> Nat]
  <2>1. committed' \in Nat
    BY <1>1, <1>2
  <2>2. \A o \in Offsets : processed[o] \in Nat /\ processed[o] + 1 \in Nat
    BY <1>2
  <2>3. [processed EXCEPT ![consumer.tx.work] = @ + 1] \in [Offsets -> Nat]
    BY <1>2, <2>2
  <2> QED  BY <1>1, <1>2, <2>1, <2>3
<1>5. DOMAIN consumer'.tx.snap = {} /\ ~consumer'.tx.open
  BY <1>3, Records, NoMessages
<1>6. ASSUME Ordered, consumer.mode = "exactly_once" PROVE OnceInv'
  <2> DEFINE o == consumer.tx.work
  <2>1. /\ OnceInv /\ o \in ever /\ consumer.tx.ack = o + 1 /\ consumer.offset = o + 1
    BY <1>1, <1>6 DEF Ordered, OnceInv
  <2>2. Position = o /\ Position' = o + 1
    BY <1>1, <1>3, <1>5, <2>1 DEF Position
  <2>3. committed <= o /\ DoneBelow(o)
    BY <1>1, <2>1, <2>2 DEF OnceInv
  <2>4. o \in Offsets /\ o \in Nat /\ ever \subseteq Nat /\ ever \subseteq Offsets /\ Offsets \subseteq Nat
    BY <2>1, EndsOfTheQueue, QueueBounds DEF Offsets
  <2>5. committed' = o + 1
    BY <1>1, <1>2, <2>1
  <2>6. /\ processed[o] = 0 /\ processed'[o] = 1
        /\ \A x \in Offsets : x # o => processed'[x] = processed[x]
    <3>1. processed[o] = 0
      BY <2>1, <2>3, <2>4 DEF OnceInv
    <3>2. processed' = [processed EXCEPT ![o] = @ + 1]
      BY <1>1, <1>6
    <3> QED  BY <1>2, <2>4, <3>1, <3>2
  <2>7. \A x \in ever : x < o + 1 /\ x \notin passed => processed'[x] = 1
    <3>1. ASSUME NEW x \in ever, x < o + 1, x \notin passed PROVE processed'[x] = 1
      <4>1. CASE x = o
        BY <2>6, <4>1
      <4>2. CASE x # o
        <5>1. x < o /\ x \in Offsets
          BY <2>4, <3>1, <4>2
        <5> QED  BY <2>3, <2>6, <3>1, <4>2, <5>1 DEF DoneBelow
      <4> QED  BY <4>1, <4>2
    <3> QED  BY <3>1
  <2>8. DoneBelow(Position)' /\ DoneBelow(committed)'
    BY <1>1, <2>2, <2>5, <2>7 DEF DoneBelow
  <2>9. ASSUME NEW x \in Offsets
        PROVE  processed'[x] <= 1 /\ (committed' <= x => processed'[x] = 0)
    <3>1. CASE x = o
      BY <2>4, <2>5, <2>6, <3>1
    <3>2. CASE x # o
      <4>1. processed'[x] = processed[x] /\ processed[x] <= 1 /\ (committed <= x => processed[x] = 0)
        BY <2>1, <2>6, <3>2 DEF OnceInv
      <4>2. committed' <= x => committed <= x
        BY <1>2, <2>3, <2>4, <2>5
      <4> QED  BY <4>1, <4>2
    <3> QED  BY <3>1, <3>2
  <2>10. committed' - 1 \in ever /\ Position' - 1 \in ever /\ committed' <= Position'
    BY <2>1, <2>2, <2>4, <2>5
  <2> QED  BY <1>1, <1>5, <2>8, <2>9, <2>10 DEF OnceInv
<1>7. ASSUME Ordered PROVE Ordered'
  BY <1>1, <1>3, <1>5, <1>6, <1>7 DEF Ordered, KeptIsTail, SnapHasNoHoles
<1>8. (~disordered => Ordered') /\ DOMAIN consumer'.tx.snap \subseteq ever
  BY <1>2, <1>5, <1>7
<1> QED  BY <1>1, <1>3, <1>4, <1>8, ConsumerFrame

\* The open transaction of the consumer goes away, and with a crash the consumer.
LEMMA AbandonStep ==
    ASSUME QueueInv, rollback_received \/ Crash
    PROVE  QueueInv'
<1>1. /\ QueueTypeOK /\ (~disordered => Ordered)
      /\ committed \in Nat /\ processed \in [Offsets -> Nat]
      /\ UNCHANGED <<clock, next_row_id, kept, ptx, committed, ever, disordered, skipped, passed, processed>>
  BY DEF QueueInv, QueueTypeOK, rollback_received, Crash
<1>2. /\ consumer' \in [mode : Modes, alive : BOOLEAN, offset : Nat, tx : ConsumerTx]
      /\ consumer'.tx = NoTx /\ consumer'.mode = consumer.mode
      /\ consumer.mode = "exactly_once" => ~consumer'.alive
  <2>1. CASE rollback_received
    BY <1>1, <2>1, Records DEF QueueTypeOK, rollback_received
  <2>2. CASE Crash
    BY <1>1, <2>2, Records DEF QueueTypeOK, Crash
  <2> QED  BY <2>1, <2>2
<1>3. DOMAIN consumer'.tx.snap = {} /\ ~consumer'.tx.open
  BY <1>2, Records, NoMessages
<1>4. ASSUME Ordered, consumer.mode = "exactly_once" PROVE OnceInv'
  BY <1>1, <1>2, <1>3, <1>4 DEF Ordered, OnceInv, DoneBelow
<1>5. ASSUME Ordered PROVE Ordered'
  BY <1>1, <1>2, <1>3, <1>4, <1>5 DEF Ordered, KeptIsTail, SnapHasNoHoles
<1>6. (~disordered => Ordered') /\ DOMAIN consumer'.tx.snap \subseteq ever
  BY <1>1, <1>3, <1>5
<1> QED  BY <1>1, <1>2, <1>6, ConsumerFrame

LEMMA CommitOffsetStep ==
    ASSUME QueueInv, commit_offset
    PROVE  QueueInv'
<1>1. /\ QueueTypeOK /\ (~disordered => Ordered) /\ consumer.mode = "client"
      /\ committed' = consumer.offset
      /\ UNCHANGED <<clock, next_row_id, kept, ptx, consumer, ever, disordered, skipped, passed, processed>>
  BY DEF QueueInv, commit_offset
<1>2. /\ consumer' \in [mode : Modes, alive : BOOLEAN, offset : Nat, tx : ConsumerTx]
      /\ committed' \in Nat /\ processed' \in [Offsets -> Nat]
  BY <1>1, QueueFields DEF QueueTypeOK
<1>3. DOMAIN consumer'.tx.snap \subseteq ever
  BY <1>1 DEF QueueInv, Numbered
<1>4. ASSUME Ordered PROVE Ordered'
  BY <1>1, <1>4 DEF Ordered, KeptIsTail, SnapHasNoHoles
<1> QED  BY <1>1, <1>2, <1>3, <1>4, ConsumerFrame

LEMMA QueueSteps == QueueInv /\ [QueueNext]_queueVars => QueueInv'
<1> SUFFICES ASSUME QueueInv, [QueueNext]_queueVars PROVE QueueInv'
  OBVIOUS
<1>1. CASE \E p \in Producers : send(p) \/ commit(p) \/ rollback(p)
  BY <1>1, SendStep, CommitStep, RollbackStep
<1>2. CASE QueueRetentionCleaner \/ Tick
  BY <1>2, CleanerStep, TickStep
<1>3. CASE seek_to_beginning \/ seek_to_end \/ rewind(1) \/ (\E ts \in 0..MaxTime : seek_to_timestamp(ts))
  BY <1>3, SeeksStep
<1>4. CASE create_consumer \/ receive \/ commit_received \/ rollback_received \/ commit_offset \/ Crash
  BY <1>4, CreateConsumerStep, ReceiveStep, CommitReceivedStep, AbandonStep, CommitOffsetStep
<1>5. CASE UNCHANGED queueVars
  <2>1. UNCHANGED <<clock, next_row_id, kept, ptx, consumer, committed, ever, disordered, skipped, passed, processed>>
    BY <1>5 DEF queueVars
  <2>2. (~disordered => Ordered)'
    BY <2>1, OrderUntouched DEF QueueInv
  <2>3. QueueTypeOK' /\ Numbered' /\ StampsAscend'
    BY <2>1 DEF QueueInv, QueueTypeOK, Numbered, StampsAscend, Past, Ascend
  <2> QED  BY <2>2, <2>3 DEF QueueInv
<1> QED  BY <1>1, <1>2, <1>3, <1>4, <1>5 DEF QueueNext

\* For any producers, retention and bounds: a receive never steps over a message that was
\* committed and that retention took away, it reports OffsetOutOfRange, as long as messages
\* come and go in the order of their offsets (try_receive_single, purge_queue_retention).
THEOREM NothingIsSkipped == QueueSpec => []TruncationIsReported
<1>1. QueueInv => TruncationIsReported
  BY DEF QueueInv, Ordered, TruncationIsReported
<1> QED  BY <1>1, QueueInitial, QueueSteps, PTL DEF QueueSpec

\* Under the same condition every message the exactly-once application has put behind it
\* was processed once, whatever crashes, truncations and rolled-back producers come between
\* (receive_with_tx, commit_offset_with_tx).
THEOREM WorkIsDoneOnce == QueueSpec => []ProcessedExactlyOnce
<1>1. QueueInv => ProcessedExactlyOnce
  BY DEF QueueInv, Ordered, OnceInv, DoneBelow, ProcessedExactlyOnce, ExactlyOnceUpTo
<1> QED  BY <1>1, QueueInitial, QueueSteps, PTL DEF QueueSpec

----------------------------------------------------------------------------
(* The cache table.                                                        *)
(*                                                                         *)
(* What a walk has written so far agrees with the rows it began with: a    *)
(* row marked clean has its value in the backing writes, a row taken out   *)
(* was expired when the walk began.  A walk that overwrites nothing newer  *)
(* commits this into the tables.  And a promise keeps the deadline of its  *)
(* row, so that time cannot come between them (PromisesAreHeld).           *)

Rows == [value : CacheValues, expires_at : Nat, dirty : BOOLEAN]
Promises == [value : CacheValues, until : Nat]
Tables(R) == UNION {[D -> R] : D \in SUBSET CacheKeys}
Stored == {<<>>} \union {<<v>> : v \in CacheValues}
Walks == [open : BOOLEAN, at : Nat, todo : SUBSET CacheKeys, rows : Tables(Rows),
          cacheWrites : Tables(Rows \union {Gone}), backingWrites : Tables(Stored)]

CacheTypeOK ==
    /\ now \in Nat /\ mode \in WriteBackModes /\ overwrote \in BOOLEAN
    /\ cache \in Tables(Rows) /\ backing \in Tables(Stored) /\ walk \in Walks
    /\ promised \in Tables(Promises)

\* What the walk may have done to row k, in its own transaction.
TakenOut(w, k) == w.cacheWrites[k] = Gone /\ w.rows[k].expires_at <= w.at
MarkedClean(w, k) ==
    /\ w.cacheWrites[k] = [w.rows[k] EXCEPT !.dirty = FALSE]
    /\ k \in DOMAIN w.backingWrites /\ w.backingWrites[k] = <<w.rows[k].value>>
WritesAreSound(w) ==
    /\ \A k \in DOMAIN w.cacheWrites : k \in DOMAIN w.rows /\ (TakenOut(w, k) \/ MarkedClean(w, k))
    /\ \A k \in DOMAIN w.backingWrites :
         k \in DOMAIN w.rows /\ (w.rows[k].expires_at <= w.at \/ w.rows[k].dirty)
WalkIsSound(w) == WritesAreSound(w) /\ w.todo \subseteq DOMAIN w.rows \ DOMAIN w.cacheWrites

CleanIsBacked ==
    \A k \in DOMAIN cache : cache[k].expires_at > now /\ ~cache[k].dirty =>
        k \in DOMAIN backing /\ backing[k] = <<cache[k].value>>
PromisesAreHeld ==
    \A k \in DOMAIN promised : promised[k].until > now =>
        k \in DOMAIN cache /\ cache[k].expires_at = promised[k].until /\ cache[k].value = promised[k].value

CacheInv ==
    /\ CacheTypeOK /\ walk.at <= now /\ WalkIsSound(walk)
    /\ overwrote \/ (CleanIsBacked /\ PromisesAreHeld)

----------------------------------------------------------------------------
(* Tables and rows.                                                        *)

LEMMA TablesAre ==
    ASSUME NEW R, NEW f
    PROVE  f \in Tables(R) <=> f \in [DOMAIN f -> R] /\ DOMAIN f \subseteq CacheKeys
BY DEF Tables

LEMMA NoRows == ASSUME NEW R PROVE <<>> \in Tables(R) /\ DOMAIN <<>> = {}
<1>1. DOMAIN <<>> = {} /\ <<>> \in [{} -> R]
  OBVIOUS
<1> QED  BY <1>1, TablesAre

LEMMA OverValues ==
    ASSUME NEW f, NEW h
    PROVE  /\ DOMAIN Over(f, h) = DOMAIN f \union DOMAIN h
           /\ \A x \in DOMAIN h : Over(f, h)[x] = h[x]
           /\ \A x \in DOMAIN f : x \notin DOMAIN h => Over(f, h)[x] = f[x]
BY DEF Over

LEMMA OverTables ==
    ASSUME NEW R, NEW f \in Tables(R), NEW h \in Tables(R)
    PROVE  Over(f, h) \in Tables(R)
<1>1. /\ f \in [DOMAIN f -> R] /\ DOMAIN f \subseteq CacheKeys
      /\ h \in [DOMAIN h -> R] /\ DOMAIN h \subseteq CacheKeys
  BY TablesAre
<1>2. Over(f, h) \in [DOMAIN f \union DOMAIN h -> R]
  BY <1>1 DEF Over
<1>3. DOMAIN Over(f, h) = DOMAIN f \union DOMAIN h
  BY OverValues
<1> QED  BY <1>1, <1>2, <1>3, TablesAre

\* One row put into a table.
LEMMA PutRow ==
    ASSUME NEW R, NEW f \in Tables(R), NEW k \in CacheKeys, NEW r \in R
    PROVE  Over(f, [x \in {k} |-> r]) \in Tables(R)
<1>1. PICK h : h = [x \in {k} |-> r]
  OBVIOUS
<1>2. h \in [{k} -> R] /\ DOMAIN h = {k}
  BY <1>1
<1>3. h \in Tables(R)
  BY <1>2, TablesAre
<1> QED  BY <1>1, <1>3, OverTables

LEMMA RowIsNotGone == \A r \in Rows : r # Gone
<1>1. DOMAIN Gone = {"gone"}
  BY DEF Gone
<1>2. \A r \in Rows : "value" \in DOMAIN r
  BY DEF Rows
<1> QED  BY <1>1, <1>2

LEMMA StoredRows ==
    /\ <<>> \in Stored
    /\ \A v \in CacheValues : <<v>> \in Stored
    /\ \A s \in Stored, v \in CacheValues : s # <<>> => [s EXCEPT ![1] = v] = <<v>>
<1>1. \A u, v : [<<u>> EXCEPT ![1] = v] = <<v>>
  OBVIOUS
<1> QED  BY <1>1 DEF Stored

LEMMA CacheFields ==
    ASSUME CacheTypeOK
    PROVE  /\ \A k \in DOMAIN cache : /\ k \in CacheKeys /\ cache[k] \in Rows /\ cache[k].value \in CacheValues
                                      /\ cache[k].expires_at \in Nat /\ cache[k].dirty \in BOOLEAN
           /\ \A k \in DOMAIN promised : promised[k].until \in Nat
           /\ walk.at \in Nat /\ walk.rows \in Tables(Rows) /\ walk.todo \subseteq CacheKeys
           /\ walk.cacheWrites \in Tables(Rows \union {Gone}) /\ walk.backingWrites \in Tables(Stored)
<1>1. cache \in [DOMAIN cache -> Rows] /\ DOMAIN cache \subseteq CacheKeys /\ promised \in [DOMAIN promised -> Promises]
  BY TablesAre DEF CacheTypeOK
<1>2. \A k \in DOMAIN cache : cache[k] \in Rows
  BY <1>1
<1>3. \A r \in Rows : r.value \in CacheValues /\ r.expires_at \in Nat /\ r.dirty \in BOOLEAN
  BY DEF Rows
<1>4. \A k \in DOMAIN promised : promised[k].until \in Nat
  BY <1>1 DEF Promises
<1>5. /\ walk.at \in Nat /\ walk.rows \in Tables(Rows) /\ walk.todo \subseteq CacheKeys
      /\ walk.cacheWrites \in Tables(Rows \union {Gone}) /\ walk.backingWrites \in Tables(Stored)
  BY DEF CacheTypeOK, Walks
<1> QED  BY <1>1, <1>2, <1>3, <1>4, <1>5

----------------------------------------------------------------------------
(* The clients' steps.                                                     *)

LEMMA CacheInitial == CacheInit => CacheInv
<1> SUFFICES ASSUME CacheInit PROVE CacheInv
  OBVIOUS
<1>1. /\ now = 0 /\ mode \in WriteBackModes /\ overwrote = FALSE
      /\ cache = <<>> /\ backing = <<>> /\ promised = <<>> /\ walk = Idle
  BY DEF CacheInit
<1>2. Idle \in Walks /\ Idle.at = 0 /\ Idle.todo = {} /\ Idle.cacheWrites = <<>> /\ Idle.backingWrites = <<>>
  BY NoRows DEF Idle, Walks
<1>3. now \in Nat /\ walk.at <= now /\ overwrote \in BOOLEAN
  <2>1. now \in Nat /\ walk.at <= now
    BY <1>1, <1>2
  <2>2. overwrote \in BOOLEAN
    BY <1>1
  <2> QED  BY <2>1, <2>2
<1>4. CacheTypeOK
  BY <1>1, <1>2, <1>3, NoRows DEF CacheTypeOK
<1>5. WalkIsSound(walk)
  BY <1>1, <1>2, NoRows DEF WalkIsSound, WritesAreSound
<1>6. CleanIsBacked /\ PromisesAreHeld
  BY <1>1, NoRows DEF CleanIsBacked, PromisesAreHeld
<1> QED  BY <1>3, <1>4, <1>5, <1>6 DEF CacheInv

LEMMA WriteStep ==
    ASSUME CacheInv, NEW k \in CacheKeys, NEW row \in Rows, row.dirty, Write(k, row)
    PROVE  CacheInv'
<1>1. /\ CacheTypeOK /\ walk.at <= now /\ WalkIsSound(walk)
      /\ overwrote \/ (CleanIsBacked /\ PromisesAreHeld)
  BY DEF CacheInv
<1>2. UNCHANGED <<now, mode, backing, walk, overwrote>>
  BY DEF Write
<1>3. /\ cache' \in Tables(Rows) /\ DOMAIN cache' = DOMAIN cache \union {k} /\ cache'[k] = row
      /\ \A x \in DOMAIN cache : x # k => cache'[x] = cache[x]
  <2>1. cache' = Over(cache, [x \in {k} |-> row]) /\ cache \in Tables(Rows)
    BY <1>1 DEF Write, CacheTypeOK
  <2>2. cache' \in Tables(Rows)
    BY <2>1, PutRow
  <2> QED  BY <2>1, <2>2 DEF Over
<1>4. PICK pr : pr = [value |-> row.value, until |-> row.expires_at]
  OBVIOUS
<1>5. pr \in Promises /\ pr.value = row.value /\ pr.until = row.expires_at
  BY <1>4 DEF Rows, Promises
<1>6. /\ promised' \in Tables(Promises) /\ DOMAIN promised' = DOMAIN promised \union {k} /\ promised'[k] = pr
      /\ \A x \in DOMAIN promised : x # k => promised'[x] = promised[x]
  <2>1. promised' = Over(promised, [x \in {k} |-> pr]) /\ promised \in Tables(Promises)
    BY <1>1, <1>4 DEF Write, CacheTypeOK
  <2>2. promised' \in Tables(Promises)
    BY <1>5, <2>1, PutRow
  <2> QED  BY <2>1, <2>2 DEF Over
<1>7. CacheTypeOK'
  BY <1>1, <1>2, <1>3, <1>6 DEF CacheTypeOK
<1>8. walk'.at <= now' /\ WalkIsSound(walk)'
  BY <1>1, <1>2 DEF WalkIsSound, WritesAreSound, TakenOut, MarkedClean
<1>9. ASSUME CleanIsBacked PROVE CleanIsBacked'
  BY <1>2, <1>3, <1>9 DEF CleanIsBacked
<1>10. ASSUME PromisesAreHeld PROVE PromisesAreHeld'
  <2>1. ASSUME NEW x \in DOMAIN promised', promised'[x].until > now
        PROVE  x \in DOMAIN cache' /\ cache'[x].expires_at = promised'[x].until /\ cache'[x].value = promised'[x].value
    <3>1. CASE x = k
      BY <1>3, <1>5, <1>6, <3>1
    <3>2. CASE x # k
      BY <1>3, <1>6, <1>10, <2>1, <3>2 DEF PromisesAreHeld
    <3> QED  BY <3>1, <3>2
  <2> QED  BY <1>2, <2>1 DEF PromisesAreHeld
<1> QED  BY <1>1, <1>2, <1>7, <1>8, <1>9, <1>10 DEF CacheInv

LEMMA ClientSteps ==
    ASSUME CacheInv, NEW k \in CacheKeys,
           (\E v \in CacheValues : insert(k, v) \/ update(k, v)) \/ execute_touch(k)
    PROVE  CacheInv'
<1>1. CacheTypeOK /\ now \in Nat /\ Ttl \in Nat
  BY CacheBounds DEF CacheInv, CacheTypeOK
<1>2. ASSUME NEW v \in CacheValues, insert(k, v) PROVE CacheInv'
  <2>1. now + Ttl \in Nat
    BY <1>1
  <2>2. Row(v, now + Ttl, TRUE) \in Rows /\ Row(v, now + Ttl, TRUE).dirty
    BY <2>1 DEF Row, Rows
  <2> QED  BY <1>2, <2>2, WriteStep DEF insert
<1>3. ASSUME NEW v \in CacheValues, update(k, v) PROVE CacheInv'
  <2>1. cache[k] \in Rows
    BY <1>1, <1>3, CacheFields DEF update, Live
  <2>2. PICK row : row = [cache[k] EXCEPT !.value = v, !.dirty = TRUE]
    OBVIOUS
  <2>3. row \in Rows /\ row.dirty
    BY <2>1, <2>2 DEF Rows
  <2> QED  BY <1>3, <2>2, <2>3, WriteStep DEF update
<1>4. ASSUME execute_touch(k) PROVE CacheInv'
  <2>1. cache[k].value \in CacheValues /\ cache[k].expires_at \in Nat
    BY <1>1, <1>4, CacheFields DEF execute_touch, Live
  <2>2. cache[k].expires_at + Ttl \in Nat
    BY <1>1, <2>1
  <2>3. PICK row : row = Row(cache[k].value, cache[k].expires_at + Ttl, TRUE)
    OBVIOUS
  <2>4. row \in Rows /\ row.dirty
    BY <2>1, <2>2, <2>3 DEF Row, Rows
  <2> QED  BY <1>4, <2>3, <2>4, WriteStep DEF execute_touch
<1> QED  BY <1>2, <1>3, <1>4

LEMMA DeleteStep ==
    ASSUME CacheInv, NEW k \in CacheKeys, delete(k)
    PROVE  CacheInv'
<1>1. /\ CacheTypeOK /\ walk.at <= now /\ WalkIsSound(walk)
      /\ overwrote \/ (CleanIsBacked /\ PromisesAreHeld)
      /\ UNCHANGED <<now, mode, backing, walk, overwrote>>
  BY DEF CacheInv, delete
<1>2. ASSUME NEW R, NEW f \in Tables(R)
      PROVE  /\ Minus(f, k) \in Tables(R) /\ DOMAIN Minus(f, k) = DOMAIN f \ {k}
             /\ \A x \in DOMAIN f \ {k} : Minus(f, k)[x] = f[x]
  BY TablesAre DEF Minus
<1>3. /\ cache' \in Tables(Rows) /\ DOMAIN cache' = DOMAIN cache \ {k}
      /\ \A x \in DOMAIN cache \ {k} : cache'[x] = cache[x]
  BY <1>1, <1>2 DEF delete, CacheTypeOK
<1>4. /\ promised' \in Tables(Promises) /\ DOMAIN promised' = DOMAIN promised \ {k}
      /\ \A x \in DOMAIN promised \ {k} : promised'[x] = promised[x]
  BY <1>1, <1>2 DEF delete, CacheTypeOK
<1>5. CacheTypeOK'
  BY <1>1, <1>3, <1>4 DEF CacheTypeOK
<1>6. walk'.at <= now' /\ WalkIsSound(walk)'
  BY <1>1 DEF WalkIsSound, WritesAreSound, TakenOut, MarkedClean
<1>7. CleanIsBacked /\ PromisesAreHeld => CleanIsBacked' /\ PromisesAreHeld'
  BY <1>1, <1>3, <1>4 DEF CleanIsBacked, PromisesAreHeld
<1> QED  BY <1>1, <1>5, <1>6, <1>7 DEF CacheInv

LEMMA PassesStep ==
    ASSUME CacheInv, Passes
    PROVE  CacheInv'
<1>1. /\ CacheTypeOK /\ walk.at <= now /\ WalkIsSound(walk)
      /\ overwrote \/ (CleanIsBacked /\ PromisesAreHeld)
      /\ now' = now + 1 /\ now \in Nat /\ walk.at \in Nat
      /\ UNCHANGED <<mode, cache, backing, walk, promised, overwrote>>
  BY CacheFields DEF CacheInv, CacheTypeOK, Passes
<1>2. CacheTypeOK'
  BY <1>1 DEF CacheTypeOK
<1>3. walk'.at <= now' /\ WalkIsSound(walk)'
  <2>1. walk.at <= now + 1
    BY <1>1
  <2>2. walk' = walk
    BY <1>1
  <2>3. WalkIsSound(walk)'
    BY <1>1, <2>2 DEF WalkIsSound, WritesAreSound, TakenOut, MarkedClean
  <2> QED  BY <1>1, <2>1, <2>2, <2>3
<1>4. \A x \in Nat : x > now' => x > now
  BY <1>1
<1>5. CleanIsBacked => CleanIsBacked'
  BY <1>1, <1>4, CacheFields DEF CleanIsBacked
<1>6. PromisesAreHeld => PromisesAreHeld'
  BY <1>1, <1>4, CacheFields DEF PromisesAreHeld
<1> QED  BY <1>1, <1>2, <1>3, <1>5, <1>6 DEF CacheInv

LEMMA PurgeStep ==
    ASSUME CacheInv, purge_cache_expired
    PROVE  CacheInv'
<1> DEFINE old == {k \in DOMAIN cache : Expired(cache[k], now)}
           emptied == [k \in old |-> <<>>]
<1>1. /\ CacheTypeOK /\ walk.at <= now /\ WalkIsSound(walk)
      /\ overwrote \/ (CleanIsBacked /\ PromisesAreHeld)
      /\ cache' = [k \in DOMAIN cache \ old |-> cache[k]]
      /\ backing' = IF DeletesBacking THEN Over(backing, emptied) ELSE backing
      /\ UNCHANGED <<now, mode, walk, promised, overwrote>>
      /\ now \in Nat /\ backing \in Tables(Stored) /\ cache \in Tables(Rows)
  BY DEF CacheInv, CacheTypeOK, purge_cache_expired
<1>2. \A k \in DOMAIN cache : k \in old <=> cache[k].expires_at <= now
  BY DEF Expired
<1>3. old \subseteq CacheKeys
  BY <1>1, CacheFields
<1> HIDE DEF old
<1>4. emptied \in Tables(Stored) /\ DOMAIN emptied = old
  BY <1>3, StoredRows, TablesAre
<1> HIDE DEF emptied
<1>5. /\ cache' \in Tables(Rows) /\ DOMAIN cache' = DOMAIN cache \ old
      /\ \A k \in DOMAIN cache' : cache'[k] = cache[k]
  BY <1>1, TablesAre
<1>6. /\ backing' \in Tables(Stored)
      /\ \A k \in DOMAIN backing : k \notin old => k \in DOMAIN backing' /\ backing'[k] = backing[k]
  <2>1. backing' \in Tables(Stored)
    BY <1>1, <1>4, OverTables
  <2>2. CASE DeletesBacking
    BY <1>1, <1>4, <2>1, <2>2, OverValues
  <2>3. CASE ~DeletesBacking
    BY <1>1, <2>1, <2>3
  <2> QED  BY <2>2, <2>3
<1>7. CacheTypeOK'
  BY <1>1, <1>5, <1>6 DEF CacheTypeOK
<1>8. walk'.at <= now' /\ WalkIsSound(walk)'
  BY <1>1 DEF WalkIsSound, WritesAreSound, TakenOut, MarkedClean
<1>9. CleanIsBacked => CleanIsBacked'
  BY <1>1, <1>5, <1>6 DEF CleanIsBacked
<1>10. ASSUME PromisesAreHeld PROVE PromisesAreHeld'
  <2>1. ASSUME NEW k \in DOMAIN promised, promised[k].until > now
        PROVE  k \in DOMAIN cache /\ k \notin old
    <3>1. k \in DOMAIN cache /\ cache[k].expires_at = promised[k].until
      BY <1>10, <2>1 DEF PromisesAreHeld
    <3>2. promised[k].until \in Nat
      BY <1>1, CacheFields
    <3> QED  BY <1>1, <1>2, <2>1, <3>1, <3>2
  <2> QED  BY <1>1, <1>5, <1>10, <2>1 DEF PromisesAreHeld
<1> QED  BY <1>1, <1>7, <1>8, <1>9, <1>10 DEF CacheInv

----------------------------------------------------------------------------
(* The worker's walk.                                                      *)

\* A row of the backing table in the transaction of the walk.
BackingWrite(w, k, s) == [w EXCEPT !.backingWrites = Over(@, [x \in {k} |-> s])]

LEMMA BackingWritten ==
    ASSUME NEW w \in Walks, NEW k \in CacheKeys, NEW s \in Stored, NEW w2,
           w2 = BackingWrite(w, k, s)
    PROVE  /\ w2 \in Walks /\ w2.at = w.at /\ w2.todo = w.todo /\ w2.rows = w.rows
           /\ w2.cacheWrites = w.cacheWrites
           /\ DOMAIN w2.backingWrites = DOMAIN w.backingWrites \union {k}
           /\ w2.backingWrites[k] = s
           /\ \A x \in DOMAIN w.backingWrites : x # k => w2.backingWrites[x] = w.backingWrites[x]
<1>1. PICK b : b = Over(w.backingWrites, [x \in {k} |-> s])
  OBVIOUS
<1>2. b \in Tables(Stored)
  BY <1>1, PutRow DEF Walks
<1>3. /\ DOMAIN b = DOMAIN w.backingWrites \union {k} /\ b[k] = s
      /\ \A x \in DOMAIN w.backingWrites : x # k => b[x] = w.backingWrites[x]
  BY <1>1 DEF Over
<1>4. w2 = [w EXCEPT !.backingWrites = b]
  BY <1>1 DEF BackingWrite
<1>5. /\ w2 \in Walks /\ w2.at = w.at /\ w2.todo = w.todo /\ w2.rows = w.rows
      /\ w2.cacheWrites = w.cacheWrites /\ w2.backingWrites = b
  BY <1>2, <1>4 DEF Walks
<1> QED  BY <1>3, <1>5

LEMMA CacheWritten ==
    ASSUME NEW w \in Walks, NEW k \in CacheKeys, NEW r \in Rows \union {Gone}, NEW w2,
           w2 = CacheWrite(w, k, r)
    PROVE  /\ w2 \in Walks /\ w2.at = w.at /\ w2.todo = w.todo /\ w2.rows = w.rows
           /\ w2.backingWrites = w.backingWrites
           /\ DOMAIN w2.cacheWrites = DOMAIN w.cacheWrites \union {k}
           /\ w2.cacheWrites[k] = r
           /\ \A x \in DOMAIN w.cacheWrites : x # k => w2.cacheWrites[x] = w.cacheWrites[x]
<1>1. PICK c : c = Over(w.cacheWrites, [x \in {k} |-> r])
  OBVIOUS
<1>2. c \in Tables(Rows \union {Gone})
  BY <1>1, PutRow DEF Walks
<1>3. /\ DOMAIN c = DOMAIN w.cacheWrites \union {k} /\ c[k] = r
      /\ \A x \in DOMAIN w.cacheWrites : x # k => c[x] = w.cacheWrites[x]
  BY <1>1 DEF Over
<1>4. w2 = [w EXCEPT !.cacheWrites = c]
  BY <1>1 DEF CacheWrite
<1>5. /\ w2 \in Walks /\ w2.at = w.at /\ w2.todo = w.todo /\ w2.rows = w.rows
      /\ w2.cacheWrites = c /\ w2.backingWrites = w.backingWrites
  BY <1>2, <1>4 DEF Walks
<1> QED  BY <1>3, <1>5

\* The value replaces the row there is, so that there is one.
LEMMA Upserted ==
    ASSUME CacheTypeOK, NEW w \in Walks, NEW k \in CacheKeys, NEW v \in CacheValues
    PROVE  upsert_into_target_table(w, k, v) = BackingWrite(w, k, <<v>>)
<1> DEFINE old == IF k \in DOMAIN Backing(w) THEN Backing(w)[k] ELSE <<>>
           new == IF old = <<>> THEN <<v>> ELSE [old EXCEPT ![1] = v]
<1>1. Backing(w) \in Tables(Stored)
  BY OverTables DEF Backing, CacheTypeOK, Walks
<1>2. old \in Stored
  BY <1>1, StoredRows, TablesAre
<1> HIDE DEF old
<1>3. new = <<v>>
  BY <1>2, StoredRows
<1>4. upsert_into_target_table(w, k, v) = BackingWrite(w, k, new)
  BY DEF upsert_into_target_table, BackingWrite, old
<1> HIDE DEF new
<1> QED  BY <1>3, <1>4

\* What the walk has written for row k: nothing, the row taken out of the backing table,
\* the row taken out of both, the value stored, or the value stored and the row clean.
Untouched(w, w2, k) ==
    /\ w2 \in Walks /\ w2.at = w.at /\ w2.rows = w.rows
    /\ \A x \in CacheKeys \ {k} :
         /\ x \in DOMAIN w2.cacheWrites <=> x \in DOMAIN w.cacheWrites
         /\ x \in DOMAIN w2.backingWrites <=> x \in DOMAIN w.backingWrites
         /\ x \in DOMAIN w.cacheWrites => w2.cacheWrites[x] = w.cacheWrites[x]
         /\ x \in DOMAIN w.backingWrites => w2.backingWrites[x] = w.backingWrites[x]

LEMMA OneRowOfTheWalk ==
    ASSUME CacheTypeOK, NEW w \in Walks, WalkIsSound(w), NEW k \in w.todo,
           NEW i \in 1..Len(Way(w, k)), NEW w2, w2 = Way(w, k)[i]
    PROVE  /\ Untouched(w, w2, k) /\ WritesAreSound(w2)
           /\ Len(Way(w, k)) \in {1, 2}
<1>1. /\ k \in DOMAIN w.rows /\ k \notin DOMAIN w.cacheWrites /\ k \in CacheKeys
      /\ w.rows \in Tables(Rows) /\ w.rows[k] \in Rows
      /\ w.cacheWrites \in Tables(Rows \union {Gone}) /\ w.backingWrites \in Tables(Stored)
  <2>1. /\ k \in DOMAIN w.rows /\ k \notin DOMAIN w.cacheWrites /\ w.todo \subseteq CacheKeys
        /\ w.rows \in Tables(Rows) /\ w.cacheWrites \in Tables(Rows \union {Gone})
        /\ w.backingWrites \in Tables(Stored)
    BY DEF WalkIsSound, Walks
  <2> QED  BY <2>1, TablesAre
<1>2. WritesAreSound(w) /\ DOMAIN w.cacheWrites \subseteq CacheKeys /\ DOMAIN w.backingWrites \subseteq CacheKeys
  BY <1>1, TablesAre DEF WalkIsSound
<1>3. ASSUME NEW u, Untouched(w, u, k),
             k \in DOMAIN u.cacheWrites => TakenOut(u, k) \/ MarkedClean(u, k),
             k \in DOMAIN u.backingWrites => u.rows[k].expires_at <= u.at \/ u.rows[k].dirty
      PROVE  WritesAreSound(u)
  <2>1. DOMAIN u.cacheWrites \subseteq CacheKeys /\ DOMAIN u.backingWrites \subseteq CacheKeys
    <3>1. u.cacheWrites \in Tables(Rows \union {Gone}) /\ u.backingWrites \in Tables(Stored)
      BY <1>3 DEF Untouched, Walks
    <3> QED  BY <3>1, TablesAre
  <2>2. ASSUME NEW x \in DOMAIN u.cacheWrites
        PROVE  x \in DOMAIN u.rows /\ (TakenOut(u, x) \/ MarkedClean(u, x))
    <3>1. CASE x = k
      BY <1>1, <1>3, <3>1 DEF Untouched
    <3>2. CASE x # k
      <4>1. /\ x \in DOMAIN w.cacheWrites /\ u.cacheWrites[x] = w.cacheWrites[x]
            /\ x \in DOMAIN u.backingWrites <=> x \in DOMAIN w.backingWrites
            /\ x \in DOMAIN w.backingWrites => u.backingWrites[x] = w.backingWrites[x]
            /\ u.rows = w.rows /\ u.at = w.at
        BY <1>3, <2>1, <3>2 DEF Untouched
      <4>2. x \in DOMAIN w.rows /\ (TakenOut(w, x) \/ MarkedClean(w, x))
        BY <1>2, <4>1 DEF WritesAreSound
      <4> QED  BY <4>1, <4>2 DEF TakenOut, MarkedClean
    <3> QED  BY <3>1, <3>2
  <2>3. ASSUME NEW x \in DOMAIN u.backingWrites
        PROVE  x \in DOMAIN u.rows /\ (u.rows[x].expires_at <= u.at \/ u.rows[x].dirty)
    <3>1. CASE x = k
      BY <1>1, <1>3, <3>1 DEF Untouched
    <3>2. CASE x # k
      BY <1>2, <1>3, <2>1, <3>2 DEF Untouched, WritesAreSound
    <3> QED  BY <3>1, <3>2
  <2> QED  BY <2>2, <2>3 DEF WritesAreSound
<1>4. CASE Expired(w.rows[k], w.at)
  <2>1. PICK d : d = IF DeletesBacking THEN delete_matching_target_row(w, k) ELSE w
    OBVIOUS
  <2>2. PICK e : e = CacheWrite(d, k, Gone)
    OBVIOUS
  <2>3. Way(w, k) = <<d, e>>
    BY <1>4, <2>1, <2>2 DEF Way, ExpiredRow
  <2>4. /\ d \in Walks /\ d.at = w.at /\ d.todo = w.todo /\ d.rows = w.rows
        /\ d.cacheWrites = w.cacheWrites
        /\ DOMAIN w.backingWrites \subseteq DOMAIN d.backingWrites
        /\ DOMAIN d.backingWrites \subseteq DOMAIN w.backingWrites \union {k}
        /\ \A x \in DOMAIN w.backingWrites : x # k => d.backingWrites[x] = w.backingWrites[x]
    <3>1. CASE DeletesBacking
      <4>1. d = BackingWrite(w, k, <<>>) /\ <<>> \in Stored
        BY <2>1, <3>1, StoredRows DEF delete_matching_target_row, BackingWrite
      <4>2. /\ d \in Walks /\ d.at = w.at /\ d.todo = w.todo /\ d.rows = w.rows
            /\ d.cacheWrites = w.cacheWrites
            /\ DOMAIN d.backingWrites = DOMAIN w.backingWrites \union {k}
            /\ \A x \in DOMAIN w.backingWrites : x # k => d.backingWrites[x] = w.backingWrites[x]
        BY <1>1, <4>1, BackingWritten
      <4> QED  BY <4>2
    <3>2. CASE ~DeletesBacking
      BY <2>1, <3>2
    <3> QED  BY <3>1, <3>2
  <2>5. /\ e \in Walks /\ e.at = d.at /\ e.todo = d.todo /\ e.rows = d.rows
        /\ e.backingWrites = d.backingWrites
        /\ DOMAIN e.cacheWrites = DOMAIN d.cacheWrites \union {k}
        /\ e.cacheWrites[k] = Gone
        /\ \A x \in DOMAIN d.cacheWrites : x # k => e.cacheWrites[x] = d.cacheWrites[x]
    BY <1>1, <2>2, <2>4, CacheWritten
  <2>6. Untouched(w, d, k) /\ Untouched(w, e, k)
    BY <2>4, <2>5 DEF Untouched
  <2>7. w.rows[k].expires_at <= w.at
    BY <1>4 DEF Expired
  <2>8. WritesAreSound(d) /\ WritesAreSound(e)
    BY <1>1, <1>3, <2>4, <2>5, <2>6, <2>7 DEF TakenOut
  <2>9. Len(Way(w, k)) = 2 /\ (w2 = d \/ w2 = e)
    BY <2>3
  <2> QED  BY <2>6, <2>8, <2>9
<1>5. CASE ~Expired(w.rows[k], w.at) /\ w.rows[k].dirty
  <2>1. PICK v : v = w.rows[k].value
    OBVIOUS
  <2>2. v \in CacheValues /\ [w.rows[k] EXCEPT !.dirty = FALSE] \in Rows
    BY <1>1, <2>1 DEF Rows
  <2>3. PICK d : d = upsert_into_target_table(w, k, v)
    OBVIOUS
  <2>4. PICK r : r = [w.rows[k] EXCEPT !.dirty = FALSE]
    OBVIOUS
  <2>5. PICK e : e = CacheWrite(d, k, r)
    OBVIOUS
  <2>6. Way(w, k) = <<d, e>>
    BY <1>5, <2>1, <2>3, <2>4, <2>5 DEF Way, DirtyRow
  <2>7. /\ d \in Walks /\ d.at = w.at /\ d.todo = w.todo /\ d.rows = w.rows
        /\ d.cacheWrites = w.cacheWrites
        /\ DOMAIN d.backingWrites = DOMAIN w.backingWrites \union {k}
        /\ d.backingWrites[k] = <<v>>
        /\ \A x \in DOMAIN w.backingWrites : x # k => d.backingWrites[x] = w.backingWrites[x]
    <3>1. d = BackingWrite(w, k, <<v>>)
      BY <1>1, <2>2, <2>3, Upserted
    <3>2. <<v>> \in Stored
      BY <2>2, StoredRows
    <3> QED  BY <1>1, <3>1, <3>2, BackingWritten
  <2>8. /\ e \in Walks /\ e.at = d.at /\ e.todo = d.todo /\ e.rows = d.rows
        /\ e.backingWrites = d.backingWrites
        /\ DOMAIN e.cacheWrites = DOMAIN d.cacheWrites \union {k}
        /\ e.cacheWrites[k] = r
        /\ \A x \in DOMAIN d.cacheWrites : x # k => e.cacheWrites[x] = d.cacheWrites[x]
    <3>1. r \in Rows \union {Gone}
      BY <2>2, <2>4
    <3> QED  BY <1>1, <3>1, <2>5, <2>7, CacheWritten
  <2>9. Untouched(w, d, k) /\ Untouched(w, e, k)
    BY <2>7, <2>8 DEF Untouched
  <2>10. WritesAreSound(d)
    BY <1>1, <1>3, <1>5, <2>7, <2>9
  <2>11. MarkedClean(e, k)
    BY <2>1, <2>4, <2>7, <2>8 DEF MarkedClean
  <2>12. WritesAreSound(e)
    BY <1>3, <1>5, <2>7, <2>8, <2>9, <2>11
  <2>13. Len(Way(w, k)) = 2 /\ (w2 = d \/ w2 = e)
    BY <2>6
  <2> QED  BY <2>9, <2>10, <2>12, <2>13
<1>6. CASE ~Expired(w.rows[k], w.at) /\ ~w.rows[k].dirty
  <2>1. Way(w, k) = <<w>>
    BY <1>6 DEF Way
  <2>2. Len(Way(w, k)) = 1 /\ w2 = w
    BY <2>1
  <2> QED  BY <1>2, <2>2 DEF Untouched
<1> QED  BY <1>4, <1>5, <1>6

LEMMA WayLength == ASSUME NEW w, NEW k PROVE Len(Way(w, k)) \in {1, 2}
BY DEF Way, ExpiredRow, DirtyRow

\* The rest of the walk, once row k is done with.
LEMMA RestOfTheWalk ==
    ASSUME NEW w \in Walks, WalkIsSound(w), NEW k, NEW u, Untouched(w, u, k), WritesAreSound(u),
           NEW T, T \subseteq w.todo \ {k}, NEW w3, w3 = [u EXCEPT !.todo = T]
    PROVE  w3 \in Walks /\ w3.at = w.at /\ WalkIsSound(w3)
<1>1. u \in Walks /\ w.todo \subseteq CacheKeys /\ T \subseteq CacheKeys
  BY DEF Untouched, Walks
<1>2. /\ w3 \in Walks /\ w3.at = u.at /\ w3.rows = u.rows /\ w3.todo = T
      /\ w3.cacheWrites = u.cacheWrites /\ w3.backingWrites = u.backingWrites
  BY <1>1 DEF Walks
<1>3. WritesAreSound(w3)
  BY <1>2 DEF WritesAreSound, TakenOut, MarkedClean
<1>4. T \subseteq DOMAIN u.rows \ DOMAIN u.cacheWrites
  BY <1>1 DEF Untouched, WalkIsSound
<1> QED  BY <1>2, <1>3, <1>4 DEF Untouched, WalkIsSound

LEMMA BeginWalkStep ==
    ASSUME CacheInv, flush_cache_write_back
    PROVE  CacheInv'
<1>1. /\ CacheTypeOK /\ (overwrote \/ (CleanIsBacked /\ PromisesAreHeld))
      /\ walk' = [open |-> TRUE, at |-> now, todo |-> DOMAIN cache, rows |-> cache,
                  cacheWrites |-> <<>>, backingWrites |-> <<>>]
      /\ UNCHANGED <<now, mode, cache, backing, promised, overwrote>>
  BY DEF CacheInv, flush_cache_write_back
<1>2. /\ now \in Nat /\ cache \in Tables(Rows) /\ DOMAIN cache \subseteq CacheKeys
  BY <1>1, TablesAre DEF CacheTypeOK
<1>3. /\ walk' \in Walks /\ walk'.at = now /\ walk'.todo = DOMAIN cache /\ walk'.rows = cache
      /\ walk'.cacheWrites = <<>> /\ walk'.backingWrites = <<>>
  BY <1>1, <1>2, NoRows DEF Walks
<1>4. WalkIsSound(walk)'
  BY <1>3, NoRows DEF WalkIsSound, WritesAreSound
<1>5. walk'.at <= now'
  BY <1>1, <1>2, <1>3
<1>6. CacheTypeOK'
  BY <1>1, <1>3 DEF CacheTypeOK
<1>7. CleanIsBacked /\ PromisesAreHeld => CleanIsBacked' /\ PromisesAreHeld'
  BY <1>1 DEF CleanIsBacked, PromisesAreHeld
<1> QED  BY <1>1, <1>4, <1>5, <1>6, <1>7 DEF CacheInv

LEMMA FlushRowStep ==
    ASSUME CacheInv, flush_row
    PROVE  CacheInv'
<1>1. /\ CacheTypeOK /\ WalkIsSound(walk) /\ walk \in Walks /\ walk.at <= now
      /\ overwrote \/ (CleanIsBacked /\ PromisesAreHeld)
      /\ UNCHANGED <<now, mode, cache, backing, promised, overwrote>>
  BY DEF CacheInv, CacheTypeOK, flush_row
<1>2. PICK k \in walk.todo :
        \/ walk' = [Way(walk, k)[Len(Way(walk, k))] EXCEPT !.todo = walk.todo \ {k}]
        \/ walk' = [walk EXCEPT !.todo = {}]
        \/ Len(Way(walk, k)) = 2 /\ walk' = [Way(walk, k)[1] EXCEPT !.todo = {}]
  BY DEF flush_row
<1>3. \E u, T : /\ Untouched(walk, u, k) /\ WritesAreSound(u)
                /\ T \subseteq walk.todo \ {k} /\ walk' = [u EXCEPT !.todo = T]
  <2>1. 1 \in 1..Len(Way(walk, k)) /\ Len(Way(walk, k)) \in 1..Len(Way(walk, k))
    BY WayLength
  <2>2. ASSUME NEW i \in 1..Len(Way(walk, k))
        PROVE  Untouched(walk, Way(walk, k)[i], k) /\ WritesAreSound(Way(walk, k)[i])
    BY <1>1, OneRowOfTheWalk
  <2>3. Untouched(walk, walk, k) /\ WritesAreSound(walk)
    BY <1>1 DEF Untouched, WalkIsSound
  <2>4. {} \subseteq walk.todo \ {k} /\ walk.todo \ {k} \subseteq walk.todo \ {k}
    OBVIOUS
  <2> QED  BY <1>2, <2>1, <2>2, <2>3, <2>4
<1>4. walk' \in Walks /\ walk'.at = walk.at /\ WalkIsSound(walk')
  BY <1>1, <1>3, RestOfTheWalk
<1>5. WalkIsSound(walk)'
  BY <1>4 DEF WalkIsSound, WritesAreSound, TakenOut, MarkedClean
<1>6. CacheTypeOK' /\ walk'.at <= now'
  BY <1>1, <1>4 DEF CacheTypeOK
<1>7. CleanIsBacked /\ PromisesAreHeld => CleanIsBacked' /\ PromisesAreHeld'
  BY <1>1 DEF CleanIsBacked, PromisesAreHeld
<1> QED  BY <1>1, <1>5, <1>6, <1>7 DEF CacheInv

LEMMA CommitWalkStep ==
    ASSUME CacheInv, commit_walk
    PROVE  CacheInv'
<1> DEFINE cw == walk.cacheWrites
           bw == walk.backingWrites
           left == {k \in DOMAIN cache \union DOMAIN cw : k \in DOMAIN cw => cw[k] # Gone}
           merged == Over(cache, cw)
           stale == {k \in DOMAIN cw \union DOMAIN bw : k \notin DOMAIN cache \/ cache[k] # walk.rows[k]}
<1>1. /\ cache' = [k \in left |-> merged[k]]
      /\ overwrote' = (overwrote \/ stale # {})
      /\ backing' = Over(backing, bw) /\ walk' = Idle
      /\ UNCHANGED <<now, mode, promised>>
  BY DEF commit_walk
<1>2. /\ CacheTypeOK /\ WalkIsSound(walk) /\ walk.at <= now
      /\ overwrote \/ (CleanIsBacked /\ PromisesAreHeld)
      /\ now \in Nat /\ overwrote \in BOOLEAN /\ mode \in WriteBackModes
      /\ cache \in Tables(Rows) /\ backing \in Tables(Stored) /\ promised \in Tables(Promises)
      /\ walk.at \in Nat /\ walk.rows \in Tables(Rows)
      /\ cw \in Tables(Rows \union {Gone}) /\ bw \in Tables(Stored)
  BY CacheFields DEF CacheInv, CacheTypeOK
<1>3. /\ DOMAIN merged = DOMAIN cache \union DOMAIN cw
      /\ \A x \in DOMAIN cw : merged[x] = cw[x]
      /\ \A x \in DOMAIN cache : x \notin DOMAIN cw => merged[x] = cache[x]
  BY OverValues
<1>4. /\ cache \in [DOMAIN cache -> Rows] /\ DOMAIN cache \subseteq CacheKeys
      /\ cw \in [DOMAIN cw -> Rows \union {Gone}] /\ DOMAIN cw \subseteq CacheKeys
      /\ walk.rows \in [DOMAIN walk.rows -> Rows]
  BY <1>2, TablesAre
<1>5. /\ DOMAIN cache' = left /\ \A k \in left : cache'[k] = merged[k]
      /\ cache' \in Tables(Rows)
  <2>1. \A k \in left : merged[k] \in Rows
    BY <1>3, <1>4
  <2>2. left \subseteq CacheKeys
    BY <1>4
  <2>3. cache' \in [left -> Rows] /\ DOMAIN cache' = left /\ \A k \in left : cache'[k] = merged[k]
    BY <1>1, <2>1
  <2> QED  BY <2>2, <2>3, TablesAre
<1>6. /\ backing' \in Tables(Stored)
      /\ \A x \in DOMAIN bw : x \in DOMAIN backing' /\ backing'[x] = bw[x]
      /\ \A x \in DOMAIN backing : x \notin DOMAIN bw => x \in DOMAIN backing' /\ backing'[x] = backing[x]
  <2>1. backing' \in Tables(Stored)
    BY <1>1, <1>2, OverTables
  <2>2. /\ DOMAIN backing' = DOMAIN backing \union DOMAIN bw
        /\ \A x \in DOMAIN bw : backing'[x] = bw[x]
        /\ \A x \in DOMAIN backing : x \notin DOMAIN bw => backing'[x] = backing[x]
    <3>1. backing' = Over(backing, bw)
      BY <1>1
    <3> HIDE DEF bw
    <3> QED  BY <3>1 DEF Over
  <2> QED  BY <2>1, <2>2
<1>7. /\ walk' \in Walks /\ walk'.at = 0 /\ walk'.todo = {}
      /\ walk'.cacheWrites = <<>> /\ walk'.backingWrites = <<>>
  BY <1>1, NoRows DEF Idle, Walks
<1>8. walk'.at <= now' /\ WalkIsSound(walk)'
  <2>1. walk'.at <= now'
    BY <1>1, <1>2, <1>7
  <2>2. WalkIsSound(walk)'
    BY <1>7, NoRows DEF WalkIsSound, WritesAreSound
  <2> QED  BY <2>1, <2>2
<1>9. overwrote' \in BOOLEAN
  BY <1>1, <1>2
<1>10. CacheTypeOK'
  BY <1>1, <1>2, <1>5, <1>6, <1>7, <1>9 DEF CacheTypeOK
<1>11. ASSUME ~overwrote' PROVE CleanIsBacked' /\ PromisesAreHeld'
  <2>1. CleanIsBacked /\ PromisesAreHeld
    BY <1>1, <1>2, <1>11
  <2>2. \A k \in DOMAIN cw \union DOMAIN bw : k \in DOMAIN cache /\ cache[k] = walk.rows[k]
    BY <1>1, <1>11
  <2>3. /\ \A k \in DOMAIN cw : k \in DOMAIN walk.rows /\ (TakenOut(walk, k) \/ MarkedClean(walk, k))
        /\ \A k \in DOMAIN bw : k \in DOMAIN walk.rows
                                /\ (walk.rows[k].expires_at <= walk.at \/ walk.rows[k].dirty)
    BY <1>2 DEF WalkIsSound, WritesAreSound
  <2>4. \A k \in DOMAIN cache : cache[k] \in Rows /\ cache[k].expires_at \in Nat
    BY <1>2, CacheFields
  <2>5. ASSUME NEW k \in DOMAIN cw, k \in left
        PROVE  /\ cache'[k].value = cache[k].value /\ cache'[k].expires_at = cache[k].expires_at
               /\ k \in DOMAIN backing' /\ backing'[k] = <<cache[k].value>>
    <3>1. cache'[k] = cw[k] /\ cw[k] # Gone /\ k \in DOMAIN cache /\ cache[k] = walk.rows[k]
      BY <1>3, <1>5, <2>2, <2>5
    <3>2. cw[k] = [walk.rows[k] EXCEPT !.dirty = FALSE] /\ k \in DOMAIN bw /\ bw[k] = <<walk.rows[k].value>>
      BY <2>3, <3>1 DEF TakenOut, MarkedClean
    <3>3. cache[k] \in Rows
      BY <2>4, <3>1
    <3>4. cw[k].value = cache[k].value /\ cw[k].expires_at = cache[k].expires_at
      BY <3>1, <3>2, <3>3 DEF Rows
    <3> QED  BY <1>6, <3>1, <3>2, <3>4
  <2>6. CleanIsBacked'
    <3>1. ASSUME NEW k \in left, cache'[k].expires_at > now, ~cache'[k].dirty
          PROVE  k \in DOMAIN backing' /\ backing'[k] = <<cache'[k].value>>
      <4>1. CASE k \in DOMAIN cw
        BY <2>5, <4>1
      <4>2. CASE k \notin DOMAIN cw
        <5>1. k \in DOMAIN cache /\ cache'[k] = cache[k]
          BY <1>3, <1>5, <4>2
        <5>2. k \notin DOMAIN bw
          <6> SUFFICES ASSUME k \in DOMAIN bw PROVE FALSE
            OBVIOUS
          <6>1. cache[k] = walk.rows[k] /\ walk.rows[k].expires_at <= walk.at
            BY <2>2, <2>3, <3>1, <5>1
          <6> QED  BY <1>2, <2>4, <3>1, <5>1, <6>1
        <5> QED  BY <1>6, <2>1, <3>1, <5>1, <5>2 DEF CleanIsBacked
      <4> QED  BY <4>1, <4>2
    <3> QED  BY <1>1, <1>5, <3>1 DEF CleanIsBacked
  <2>7. PromisesAreHeld'
    <3>1. ASSUME NEW k \in DOMAIN promised, promised[k].until > now
          PROVE  /\ k \in left /\ cache'[k].expires_at = promised[k].until
                 /\ cache'[k].value = promised[k].value
      <4>1. /\ k \in DOMAIN cache /\ cache[k].expires_at = promised[k].until
            /\ cache[k].value = promised[k].value /\ cache[k].expires_at \in Nat
        BY <2>1, <2>4, <3>1 DEF PromisesAreHeld
      <4>2. CASE k \notin DOMAIN cw
        BY <1>3, <1>5, <4>1, <4>2
      <4>3. CASE k \in DOMAIN cw
        <5>1. ~TakenOut(walk, k)
          BY <1>2, <2>2, <3>1, <4>1, <4>3 DEF TakenOut
        <5>2. cw[k] = [walk.rows[k] EXCEPT !.dirty = FALSE] /\ walk.rows[k] \in Rows
          BY <1>4, <2>3, <4>3, <5>1 DEF MarkedClean
        <5>3. cw[k] \in Rows
          BY <5>2 DEF Rows
        <5>4. k \in left
          BY <4>1, <5>3, RowIsNotGone
        <5> QED  BY <2>5, <4>1, <4>3, <5>4
      <4> QED  BY <4>2, <4>3
    <3> QED  BY <1>1, <1>5, <3>1 DEF PromisesAreHeld
  <2> QED  BY <2>6, <2>7
<1> QED  BY <1>8, <1>10, <1>11 DEF CacheInv

LEMMA CacheSteps == CacheInv /\ [CacheNext]_cacheVars => CacheInv'
<1> SUFFICES ASSUME CacheInv, [CacheNext]_cacheVars PROVE CacheInv'
  OBVIOUS
<1>1. CASE \E k \in CacheKeys, v \in CacheValues : insert(k, v) \/ update(k, v)
  BY <1>1, ClientSteps
<1>2. CASE \E k \in CacheKeys : execute_touch(k) \/ delete(k)
  BY <1>2, ClientSteps, DeleteStep
<1>3. CASE Passes \/ flush_cache_write_back \/ flush_row \/ commit_walk \/ purge_cache_expired
  BY <1>3, PassesStep, BeginWalkStep, FlushRowStep, CommitWalkStep, PurgeStep
<1>4. CASE UNCHANGED cacheVars
  BY <1>4 DEF cacheVars, CacheInv, CacheTypeOK, WalkIsSound, WritesAreSound, TakenOut, MarkedClean,
              CleanIsBacked, PromisesAreHeld
<1> QED  BY <1>1, <1>2, <1>3, <1>4 DEF CacheNext

\* For any keys, values and time to live: unless a walk wrote over something newer, a live
\* row marked clean is in the backing table, once, with its value, also after walks that
\* failed half way; and what a client wrote can be read until its deadline
\* (flush_cache_write_back, CacheWriteBehindCleaner, purge_cache_expired, execute_touch).
THEOREM CacheOwesNothing == CacheSpec => []CacheKeepsWhatItOwes
<1>1. CacheInv => CacheKeepsWhatItOwes
  <2> SUFFICES ASSUME CacheInv, ~overwrote PROVE CacheKeepsWhatItOwes
    BY DEF CacheKeepsWhatItOwes
  <2>1. CleanIsBacked /\ PromisesAreHeld
    BY DEF CacheInv
  <2>2. \A k \in CacheKeys : Live(k) /\ ~cache[k].dirty =>
          k \in DOMAIN backing /\ backing[k] = <<cache[k].value>>
    BY <2>1 DEF CleanIsBacked, Live
  <2>3. \A k \in DOMAIN promised : promised[k].until > now =>
          Live(k) /\ cache[k].value = promised[k].value
    BY <2>1 DEF PromisesAreHeld, Live
  <2> QED  BY <2>2, <2>3 DEF CacheKeepsWhatItOwes
<1> QED  BY <1>1, CacheInitial, CacheSteps, PTL DEF CacheSpec

----------------------------------------------------------------------------
(* SQL sequences.                                                          *)
(*                                                                         *)
(* Everything handed out lies behind the current value, in the direction   *)
(* of the step (Behind); of the definition in memory and of the one a      *)
(* restart finds, each with the values it has to answer for.               *)

I64 == I64Min..I64Max

Definitions == [current_value : I64, increment_by : Int, min_value : I64, max_value : I64,
                cycle : BOOLEAN, is_called : BOOLEAN]

Behind(d, S) ==
    /\ S \subseteq Int
    /\ S # {} => d.is_called
    /\ d # NoSequence => d.increment_by \in Increments
    /\ d.increment_by > 0 => \A x \in S : x <= d.current_value
    /\ d.increment_by < 0 => \A x \in S : d.current_value <= x

SequenceInv ==
    /\ seq \in Definitions /\ seqSaved \in Definitions /\ seqDisk = seq
    /\ Behind(seq, issued) /\ Behind(seqSaved, issuedSaved)
    /\ ~repeated

LEMMA SequenceInitial ==
    ASSUME I64Max \in Nat, SequencesInit
    PROVE  SequenceInv
BY DEF SequencesInit, SequenceInv, Behind, NoSequence, Definitions, I64, I64Min

\* A statement writes its definition to memory and map, with a history that lies behind it;
\* and it saves the store, or leaves the last save answering for no more than before.
LEMMA StoreStep ==
    ASSUME SequenceInv, NEW d \in Definitions, Store(d), Behind(d, issued'), ~repeated',
           \/ seqSaved' = seqDisk' /\ issuedSaved' = issued'
           \/ seqSaved' = seqSaved /\ issuedSaved' \in {{}, issuedSaved}
    PROVE  SequenceInv'
<1>1. seq' = d /\ seqDisk' = d
  BY DEF Store
<1>2. Behind(seq, issued)'
  BY <1>1 DEF Behind
<1>3. Behind(seqSaved, issuedSaved)' /\ seqSaved' \in Definitions
  <2>1. CASE seqSaved' = seqDisk' /\ issuedSaved' = issued'
    BY <1>1, <2>1 DEF Behind
  <2>2. CASE seqSaved' = seqSaved /\ issuedSaved' = issuedSaved
    BY <2>2 DEF SequenceInv, Behind
  <2>3. CASE seqSaved' = seqSaved /\ issuedSaved' = {}
    BY <2>3 DEF SequenceInv, Behind
  <2> QED  BY <2>1, <2>2, <2>3
<1> QED  BY <1>1, <1>2, <1>3 DEF SequenceInv

LEMMA CreateStep ==
    ASSUME I64Max \in Nat, SequenceValues \subseteq I64, Increments \subseteq Int \ {0}, SequenceInv,
           NEW start \in SequenceValues, NEW inc \in Increments, NEW min \in SequenceValues,
           NEW max \in SequenceValues, NEW cycles \in BOOLEAN,
           create_sequence(start, inc, min, max, cycles)
    PROVE  SequenceInv'
<1>1. PICK d : d = [current_value |-> start, increment_by |-> inc, min_value |-> min,
                    max_value |-> max, cycle |-> cycles, is_called |-> FALSE]
  OBVIOUS
<1>2. d \in Definitions /\ d.increment_by = inc
  BY <1>1 DEF Definitions
<1>3. Store(d) /\ seqSaved' = seqDisk' /\ issued' = {} /\ issuedSaved' = {} /\ ~repeated'
  BY <1>1 DEF create_sequence, SaveWith, SequenceInv
<1>4. Behind(d, issued')
  BY <1>2, <1>3 DEF Behind
<1> QED  BY <1>2, <1>3, <1>4, StoreStep

LEMMA DropStep ==
    ASSUME I64Max \in Nat, SequenceValues \subseteq I64, SequenceInv, drop_sequence
    PROVE  SequenceInv'
<1>1. NoSequence \in Definitions
  BY DEF NoSequence, Definitions, I64, I64Min
<1>2. Store(NoSequence) /\ seqSaved' = seqDisk' /\ issued' = {} /\ issuedSaved' = {} /\ ~repeated'
  BY DEF drop_sequence, SaveWith, SequenceInv
<1>3. Behind(NoSequence, issued')
  BY <1>2 DEF Behind
<1> QED  BY <1>1, <1>2, <1>3, StoreStep

LEMMA AlterStep ==
    ASSUME I64Max \in Nat, SequenceValues \subseteq I64, Increments \subseteq Int \ {0}, SequenceInv, alter_sequence
    PROVE  SequenceInv'
<1>1. /\ seq \in Definitions /\ Behind(seq, issued) /\ seq.increment_by \in Increments /\ ~repeated'
  BY DEF SequenceInv, alter_sequence, Exists, Behind
<1>2. ASSUME NEW d \in Definitions, Store(d), SaveWith({}), d.increment_by \in Increments
      PROVE  SequenceInv'
  <2>1. seqSaved' = seqDisk' /\ issued' = {} /\ issuedSaved' = {}
    BY <1>2 DEF SaveWith
  <2>2. Behind(d, issued')
    BY <1>2, <2>1 DEF Behind
  <2> QED  BY <1>1, <1>2, <2>1, <2>2, StoreStep
<1>3. ASSUME NEW d \in Definitions, Store(d), SaveWith(issued), d.increment_by = seq.increment_by,
             d.current_value = seq.current_value, d.is_called = seq.is_called
      PROVE  SequenceInv'
  <2>1. seqSaved' = seqDisk' /\ issued' = issued /\ issuedSaved' = issued
    BY <1>3 DEF SaveWith
  <2>2. Behind(d, issued')
    BY <1>1, <1>3, <2>1 DEF Behind
  <2> QED  BY <1>1, <1>3, <2>1, <2>2, StoreStep
<1>4. ASSUME NEW r \in SequenceValues, Store([seq EXCEPT !.current_value = r, !.is_called = FALSE]), SaveWith({})
      PROVE  SequenceInv'
  <2>1. PICK d : d = [seq EXCEPT !.current_value = r, !.is_called = FALSE]
    OBVIOUS
  <2>2. d \in Definitions /\ d.increment_by = seq.increment_by
    BY <1>1, <2>1 DEF Definitions
  <2> QED  BY <1>1, <1>2, <1>4, <2>1, <2>2
<1>5. ASSUME NEW i \in Increments, Store([seq EXCEPT !.increment_by = i]), SaveWith({})
      PROVE  SequenceInv'
  <2>1. PICK d : d = [seq EXCEPT !.increment_by = i]
    OBVIOUS
  <2>2. d \in Definitions /\ d.increment_by = i
    BY <1>1, <2>1 DEF Definitions
  <2> QED  BY <1>2, <1>5, <2>1, <2>2
<1>6. ASSUME NEW v \in SequenceValues, Store([seq EXCEPT !.max_value = v]), SaveWith(issued)
      PROVE  SequenceInv'
  <2>1. PICK d : d = [seq EXCEPT !.max_value = v]
    OBVIOUS
  <2>2. /\ d \in Definitions /\ d.increment_by = seq.increment_by
        /\ d.current_value = seq.current_value /\ d.is_called = seq.is_called
    BY <1>1, <2>1 DEF Definitions
  <2> QED  BY <1>3, <1>6, <2>1, <2>2
<1>7. ASSUME NEW v \in SequenceValues, Store([seq EXCEPT !.min_value = v]), SaveWith(issued)
      PROVE  SequenceInv'
  <2>1. PICK d : d = [seq EXCEPT !.min_value = v]
    OBVIOUS
  <2>2. /\ d \in Definitions /\ d.increment_by = seq.increment_by
        /\ d.current_value = seq.current_value /\ d.is_called = seq.is_called
    BY <1>1, <2>1 DEF Definitions
  <2> QED  BY <1>3, <1>7, <2>1, <2>2
<1>8. ASSUME NEW c \in BOOLEAN, Store([seq EXCEPT !.cycle = c]), SaveWith(issued)
      PROVE  SequenceInv'
  <2>1. PICK d : d = [seq EXCEPT !.cycle = c]
    OBVIOUS
  <2>2. /\ d \in Definitions /\ d.increment_by = seq.increment_by
        /\ d.current_value = seq.current_value /\ d.is_called = seq.is_called
    BY <1>1, <2>1 DEF Definitions
  <2> QED  BY <1>3, <1>8, <2>1, <2>2
<1> QED  BY <1>4, <1>5, <1>6, <1>7, <1>8 DEF alter_sequence

\* The value of a nextval lies ahead of everything in the count it belongs to, or it is
\* the end of i64 where the addition saturates.
LEMMA NextvalStep ==
    ASSUME I64Max \in Nat, Increments \subseteq Int \ {0}, SequenceInv, nextval
    PROVE  SequenceInv'
<1> DEFINE history == IF Wraps(seq) THEN {} ELSE issued
<1>1. PICK val : val = NextValue(seq)
  OBVIOUS
<1>2. PICK d : d = [seq EXCEPT !.current_value = val, !.is_called = TRUE]
  OBVIOUS
<1>3. /\ Store(d) /\ repeated' = (val \in history \ {I64Min, I64Max})
      /\ issued' = history \union {val}
      /\ seqSaved' = seqSaved /\ issuedSaved' = IF Wraps(seq) THEN {} ELSE issuedSaved
  BY <1>1, <1>2 DEF nextval, Advance
<1>4. /\ seq \in Definitions /\ Behind(seq, issued) /\ seq.increment_by \in Increments
      /\ seq.increment_by \in Int /\ seq.increment_by # 0 /\ ~repeated
      /\ seq.current_value \in I64 /\ seq.min_value \in I64 /\ seq.max_value \in I64
      /\ seq.is_called \in BOOLEAN
  BY DEF SequenceInv, nextval, Exists, Behind, Definitions
<1>5. /\ val \in I64 /\ history \subseteq Int
      /\ seq.increment_by > 0 => \A x \in history : x < val \/ (val = I64Max /\ x <= val)
      /\ seq.increment_by < 0 => \A x \in history : val < x \/ (val = I64Min /\ val <= x)
  <2>1. CASE ~seq.is_called
    <3>1. issued = {} /\ val = seq.current_value
      <4>1. issued = {}
        BY <1>4, <2>1 DEF Behind
      <4>2. val = seq.current_value
        BY <1>1, <2>1 DEF NextValue, Wraps
      <4> QED  BY <4>1, <4>2
    <3> QED  BY <1>4, <3>1
  <2>2. CASE Wraps(seq)
    <3>1. val \in {seq.min_value, seq.max_value}
      BY <1>1, <2>2 DEF NextValue, Wraps
    <3> QED  BY <1>4, <2>2, <3>1
  <2>3. CASE seq.is_called /\ ~Wraps(seq)
    <3>1. PICK c, i : c = seq.current_value /\ i = seq.increment_by
      OBVIOUS
    <3>2. c \in Int /\ I64Min <= c /\ c <= I64Max /\ i \in Int /\ i # 0 /\ I64Min \in Int /\ I64Min < I64Max
      BY <1>4, <3>1 DEF I64, I64Min
    <3>3. val = saturating_add(c, i) /\ history = issued
      BY <1>1, <2>3, <3>1 DEF NextValue, Wraps, Next_
    <3>4. /\ issued \subseteq Int
          /\ i > 0 => \A x \in issued : x <= c
          /\ i < 0 => \A x \in issued : c <= x
      BY <1>4, <3>1 DEF Behind
    <3>5. /\ val \in Int /\ I64Min <= val /\ val <= I64Max
          /\ i > 0 => c < val \/ (val = I64Max /\ c <= val)
          /\ i < 0 => val < c \/ (val = I64Min /\ val <= c)
      BY <3>2, <3>3 DEF saturating_add
    <3>6. ASSUME NEW x \in issued
          PROVE  /\ i > 0 => x < val \/ (val = I64Max /\ x <= val)
                 /\ i < 0 => val < x \/ (val = I64Min /\ val <= x)
      <4>1. x \in Int /\ (i > 0 => x <= c) /\ (i < 0 => c <= x)
        BY <3>4
      <4> QED  BY <3>2, <3>5, <4>1
    <3>7. val \in I64
      BY <3>2, <3>5 DEF I64
    <3> HIDE DEF history
    <3> QED  BY <3>1, <3>3, <3>4, <3>6, <3>7
  <2> QED  BY <2>1, <2>2, <2>3
<1> HIDE DEF history
<1>6. val \in Int /\ val \notin history \ {I64Min, I64Max}
  <2>1. val \in Int
    BY <1>5 DEF I64, I64Min
  <2> QED  BY <1>4, <1>5, <2>1
<1>7. /\ d \in Definitions /\ d.current_value = val /\ d.is_called
      /\ d.increment_by = seq.increment_by
  BY <1>2, <1>4, <1>5 DEF Definitions
<1>8. Behind(d, issued')
  <2>1. issued' \subseteq Int
    BY <1>3, <1>5, <1>6
  <2>2. d.increment_by > 0 => \A x \in issued' : x <= d.current_value
    BY <1>3, <1>5, <1>6, <1>7
  <2>3. d.increment_by < 0 => \A x \in issued' : d.current_value <= x
    BY <1>3, <1>5, <1>6, <1>7
  <2> QED  BY <1>4, <1>7, <2>1, <2>2, <2>3 DEF Behind
<1>9. ~repeated'
  BY <1>3, <1>6
<1>10. seqSaved' = seqSaved /\ issuedSaved' \in {{}, issuedSaved}
  BY <1>3
<1> QED  BY <1>3, <1>7, <1>8, <1>9, <1>10, StoreStep

LEMMA SetvalStep ==
    ASSUME I64Max \in Nat, SequenceValues \subseteq I64, SequenceInv,
           NEW v \in SequenceValues, NEW called \in BOOLEAN, setval(v, called)
    PROVE  SequenceInv'
<1>1. PICK d : d = [seq EXCEPT !.current_value = v, !.is_called = called]
  OBVIOUS
<1>2. /\ Store(d) /\ issued' = (IF called THEN {v} ELSE {}) /\ issuedSaved' = {}
      /\ seqSaved' = seqSaved /\ ~repeated'
  BY <1>1 DEF setval, SequenceInv
<1>3. seq \in Definitions /\ seq.increment_by \in Increments /\ v \in I64 /\ v \in Int
  BY DEF SequenceInv, setval, Exists, Behind, I64, I64Min
<1>4. /\ d \in Definitions /\ d.current_value = v /\ d.is_called = called
      /\ d.increment_by = seq.increment_by
  BY <1>1, <1>3 DEF Definitions
<1>5. Behind(d, issued')
  <2>1. CASE called
    BY <1>2, <1>3, <1>4, <2>1 DEF Behind
  <2>2. CASE ~called
    BY <1>2, <1>3, <1>4, <2>2 DEF Behind
  <2> QED  BY <2>1, <2>2
<1> QED  BY <1>2, <1>4, <1>5, StoreStep

\* Memory, map and file change places.
LEMMA CopySteps ==
    ASSUME SequenceInv, Save \/ reload \/ Restart \/ UNCHANGED sequencesVars
    PROVE  SequenceInv'
<1>1. CASE Save
  BY <1>1 DEF Save, SaveWith, SequenceInv, Behind
<1>2. CASE reload
  BY <1>2 DEF reload, SequenceInv, Behind
<1>3. CASE Restart
  BY <1>3 DEF Restart, SequenceInv, Behind
<1>4. CASE UNCHANGED sequencesVars
  BY <1>4 DEF sequencesVars, SequenceInv, Behind
<1> QED  BY <1>1, <1>2, <1>3, <1>4

\* For any values and bounds of i64 and any steps but zero: nextval hands out no value but
\* the ends of i64 twice between two restarts of the count, through ALTER, reloads, saves
\* and crashes (nextval writes the map before it returns).
THEOREM NextvalsAreFresh ==
    ASSUME I64Max \in Nat, SequenceValues \subseteq I64, Increments \subseteq Int \ {0}
    PROVE  SequencesSpec => []SequenceNeverRepeats
<1>1. SequenceInv /\ [SequencesNext]_sequencesVars => SequenceInv'
  <2> SUFFICES ASSUME SequenceInv, [SequencesNext]_sequencesVars PROVE SequenceInv'
    OBVIOUS
  <2>1. CASE \E start, min, max \in SequenceValues, inc \in Increments, cycles \in BOOLEAN :
               create_sequence(start, inc, min, max, cycles)
    BY <2>1, CreateStep
  <2>2. CASE drop_sequence \/ alter_sequence \/ nextval
    BY <2>2, DropStep, AlterStep, NextvalStep
  <2>3. CASE \E v \in SequenceValues, called \in BOOLEAN : setval(v, called)
    BY <2>3, SetvalStep
  <2>4. CASE Save \/ reload \/ Restart \/ UNCHANGED sequencesVars
    BY <2>4, CopySteps
  <2> QED  BY <2>1, <2>2, <2>3, <2>4 DEF SequencesNext
<1>2. SequenceInv => SequenceNeverRepeats
  BY DEF SequenceInv, SequenceNeverRepeats
<1> QED  BY <1>1, <1>2, SequenceInitial, PTL DEF SequencesSpec

----------------------------------------------------------------------------
(* The catalog.                                                            *)
(*                                                                         *)
(* Every statement makes the same change in memory and in the _catalog     *)
(* map, so the two stay equal.  A table is always filed under its full     *)
(* name; its short name may be missing, because dropping or renaming a     *)
(* table of another schema takes the short name away whatever the schema   *)
(* (Unfiled).  get_table finds the public table all the same.              *)

\* Definitions a table can have.
TableDefs == [schema : Schemas, name : Names]

\* The names under which a table may be filed.
FiledAs(k, t) == k = Full(t) \/ (k = Short(t) /\ t.schema = Public)

\* Every entry of the tables is one of `l`, under one of its names, and each of `l` is there
\* under its full name; the short name may be missing.
Files(c, l) ==
    /\ l \subseteq TableDefs
    /\ \A k \in DOMAIN c.tables : c.tables[k] \in l /\ FiledAs(k, c.tables[k])
    /\ \A t \in l : Full(t) \in DOMAIN c.tables

IsCatalog(c) ==
    /\ c = [schemas |-> c.schemas, tables |-> c.tables, indexes |-> c.indexes, views |-> c.views]
    /\ Public \in c.schemas

PendingDefs == \A x \in Sessions : pending[x].what = "table" => pending[x].def \in TableDefs

CatalogInv ==
    /\ mem = catalogMap
    /\ IsCatalog(catalogMap) /\ Files(catalogMap, live)
    /\ IsCatalog(saved) /\ Files(saved, liveSaved)
    /\ PendingDefs /\ pending = [x \in Sessions |-> pending[x]]

LEMMA FullNames ==
    ASSUME NEW t \in TableDefs, NEW u \in TableDefs
    PROVE  /\ Full(t) = Full(u) <=> t = u
           /\ Short(t) = Short(u) <=> t.name = u.name
           /\ Full(t) # Short(u)
<1>1. t = [schema |-> t.schema, name |-> t.name] /\ u = [schema |-> u.schema, name |-> u.name]
  BY DEF TableDefs
<1>2. Full(t) = Full(u) => t.schema = u.schema /\ t.name = u.name
  BY DEF Full
<1>3. Len(Full(t)) = 2 /\ Len(Short(u)) = 1
  BY DEF Full, Short
<1>4. Short(t) = Short(u) <=> t.name = u.name
  BY DEF Short
<1> QED  BY <1>1, <1>2, <1>3, <1>4

\* What drop, rename and drop schema do to the entries.
LEMMA UnfiledFiles ==
    ASSUME NEW c, NEW l, IsCatalog(c), Files(c, l), NEW t \in l
    PROVE  IsCatalog(Unfiled(c, t)) /\ Files(Unfiled(c, t), l \ {t})
<1>1. /\ Unfiled(c, t).tables = [k \in DOMAIN c.tables \ {Full(t), Short(t)} |-> c.tables[k]]
      /\ IsCatalog(Unfiled(c, t))
  BY DEF Unfiled, RemoveKeys, IsCatalog
<1>2. ASSUME NEW k \in DOMAIN c.tables, k # Full(t), k # Short(t)
      PROVE  c.tables[k] \in l \ {t}
  BY <1>2 DEF Files, FiledAs
<1>3. ASSUME NEW u \in l \ {t}
      PROVE  Full(u) \in DOMAIN c.tables /\ Full(u) # Full(t) /\ Full(u) # Short(t)
  <2>1. u \in TableDefs /\ t \in TableDefs
    BY DEF Files
  <2> QED  BY <2>1, FullNames DEF Files
<1>4. l \ {t} \subseteq TableDefs
  BY DEF Files
<1> QED  BY <1>1, <1>2, <1>3, <1>4 DEF Files

LEMMA FiledFiles ==
    ASSUME NEW c, NEW l, IsCatalog(c), Files(c, l), NEW t \in TableDefs, ~Taken(c, t)
    PROVE  IsCatalog(Filed(c, t)) /\ Files(Filed(c, t), l \cup {t})
<1> DEFINE old == IF t.schema = Public THEN AddKey(c.tables, Short(t), t) ELSE c.tables
           new == AddKey(old, Full(t), t)
<1>1. Filed(c, t).tables = new /\ IsCatalog(Filed(c, t))
  BY DEF Filed, IsCatalog
<1>2. /\ DOMAIN c.tables \subseteq DOMAIN old
      /\ t.schema # Public => DOMAIN old = DOMAIN c.tables
      /\ t.schema = Public => DOMAIN old = DOMAIN c.tables \cup {Short(t)}
  BY DEF AddKey
<1>3. /\ t.schema # Public => \A k \in DOMAIN old : old[k] = c.tables[k]
      /\ t.schema = Public => \A k \in DOMAIN old : old[k] = IF k = Short(t) THEN t ELSE c.tables[k]
  BY DEF AddKey
<1>4. ASSUME NEW k \in DOMAIN old
      PROVE  old[k] \in l \cup {t} /\ FiledAs(k, old[k])
  BY <1>2, <1>3, <1>4 DEF Files, FiledAs
<1> HIDE DEF old
<1>5. DOMAIN new = DOMAIN old \cup {Full(t)} /\ \A k \in DOMAIN new : new[k] = IF k = Full(t) THEN t ELSE old[k]
  BY DEF AddKey
<1> HIDE DEF new
<1>6. ASSUME NEW k \in DOMAIN new
      PROVE  new[k] \in l \cup {t} /\ FiledAs(k, new[k])
  BY <1>4, <1>5, <1>6 DEF FiledAs
<1>7. \A u \in l \cup {t} : Full(u) \in DOMAIN new
  BY <1>2, <1>5 DEF Files
<1>8. l \cup {t} \subseteq TableDefs
  BY DEF Files
<1> QED  BY <1>1, <1>6, <1>7, <1>8 DEF Files

\* A change of anything but the tables.
LEMMA SameFiles ==
    ASSUME NEW c, NEW d, NEW l, Files(c, l), d.tables = c.tables
    PROVE  Files(d, l)
BY DEF Files

\* What get_table finds is a table there is.
LEMMA GetTableFinds ==
    ASSUME NEW c, NEW l, Files(c, l), NEW key, get_table(c, key) # None
    PROVE  get_table(c, key) \in l
BY DEF get_table, Files

LEMMA CatalogInitial == CatalogInit => CatalogInv
BY DEF CatalogInit, CatalogInv, EmptyCatalog, IsCatalog, Files, PendingDefs, NoCreate

\* The steps that leave the tables as they are.
LEMMA SideSteps ==
    ASSUME CatalogInv,
           \/ create_schema \/ \E x \in Sessions : create_view(x)
           \/ \E key \in TableKeys, i \in IndexNames : create_index(key, i)
           \/ \E i \in DOMAIN mem.indexes : drop_index(i)
           \/ \E n \in ViewNames : drop_view(n)
    PROVE  CatalogInv'
<1>1. /\ mem' = catalogMap' /\ IsCatalog(catalogMap') /\ catalogMap'.tables = catalogMap.tables
      /\ live' = live /\ saved' = catalogMap' /\ liveSaved' = live
  <2>1. CASE create_schema
    BY <2>1 DEF create_schema, CatalogInv, IsCatalog, SameTables, Commit
  <2>2. CASE \E x \in Sessions : create_view(x)
    BY <2>2 DEF create_view, CatalogInv, IsCatalog, Commit
  <2>3. CASE \E key \in TableKeys, i \in IndexNames : create_index(key, i)
    BY <2>3 DEF create_index, CatalogInv, IsCatalog, SameTables, Commit
  <2>4. CASE \E i \in DOMAIN mem.indexes : drop_index(i)
    BY <2>4 DEF drop_index, CatalogInv, IsCatalog, SameTables, Commit
  <2>5. CASE \E n \in ViewNames : drop_view(n)
    BY <2>5 DEF drop_view, CatalogInv, IsCatalog, SameTables, Commit
  <2> QED  BY <2>1, <2>2, <2>3, <2>4, <2>5
<1>2. pending' = pending \/ \E x \in Sessions : pending' = [pending EXCEPT ![x] = NoCreate]
  BY DEF create_schema, create_view, create_index, drop_index, drop_view, SameTables
<1>3. PendingDefs' /\ pending' = [x \in Sessions |-> pending'[x]]
  BY <1>2 DEF PendingDefs, NoCreate, CatalogInv
<1>4. Files(catalogMap', live)
  BY <1>1, SameFiles DEF CatalogInv
<1> QED  BY <1>1, <1>3, <1>4 DEF CatalogInv

LEMMA CheckSteps ==
    ASSUME CatalogInv,
           \E x \in Sessions : \/ \E s \in Schemas, n \in Names : create_table_check(x, s, n)
                               \/ \E n \in ViewNames : create_view_check(x, n)
    PROVE  CatalogInv'
<1>1. /\ UNCHANGED <<mem, catalogMap, saved, live, liveSaved>>
      /\ \E x \in Sessions : \E p : /\ pending' = [pending EXCEPT ![x] = p]
                                    /\ p.what = "table" => p.def \in TableDefs
  <2>1. CASE \E x \in Sessions, s \in Schemas, n \in Names : create_table_check(x, s, n)
    <3>1. PICK x \in Sessions, s \in Schemas, n \in Names : create_table_check(x, s, n)
      BY <2>1
    <3>2. PICK p : p = [what |-> "table", def |-> [schema |-> s, name |-> n]]
      OBVIOUS
    <3>3. p.def \in TableDefs
      BY <3>2 DEF TableDefs
    <3> QED  BY <3>1, <3>2, <3>3 DEF create_table_check
  <2>2. CASE \E x \in Sessions, n \in ViewNames : create_view_check(x, n)
    <3>1. PICK x \in Sessions, n \in ViewNames : create_view_check(x, n)
      BY <2>2
    <3>2. PICK p : p = [what |-> "view", def |-> [None EXCEPT !.name = n]]
      OBVIOUS
    <3>3. p.what # "table"
      BY <3>2
    <3> QED  BY <3>1, <3>2, <3>3 DEF create_view_check
  <2> QED  BY <2>1, <2>2
<1>2. PendingDefs' /\ pending' = [x \in Sessions |-> pending'[x]]
  <2>1. PICK x \in Sessions : \E p : /\ pending' = [pending EXCEPT ![x] = p]
                                     /\ p.what = "table" => p.def \in TableDefs
    BY <1>1
  <2>2. PICK p : pending' = [pending EXCEPT ![x] = p] /\ (p.what = "table" => p.def \in TableDefs)
    BY <2>1
  <2>3. pending' = [y \in Sessions |-> IF y = x THEN p ELSE pending[y]]
    BY <2>2 DEF CatalogInv
  <2> QED  BY <2>2, <2>3 DEF PendingDefs, CatalogInv
<1> QED  BY <1>1, <1>2 DEF CatalogInv

LEMMA CreateTableStep ==
    ASSUME CatalogInv, NEW x \in Sessions, create_table(x)
    PROVE  CatalogInv'
<1>1. PICK t : t = pending[x].def /\ t \in TableDefs
  BY DEF create_table, CatalogInv, PendingDefs
<1>2. PendingDefs' /\ pending' = [y \in Sessions |-> pending'[y]]
  BY DEF create_table, PendingDefs, NoCreate, CatalogInv
<1>3. CASE Taken(mem, t)
  BY <1>1, <1>2, <1>3 DEF create_table, CatalogInv
<1>4. CASE ~Taken(mem, t)
  <2>1. Files(Filed(catalogMap, t), live \cup {t}) /\ IsCatalog(Filed(catalogMap, t))
    BY <1>1, <1>4, FiledFiles DEF CatalogInv
  <2> DEFINE pk == <<"pk", t.name>>
             indexed(c) == IF pk \in DOMAIN mem.indexes THEN c ELSE [c EXCEPT !.indexes = AddKey(@, pk, Short(t))]
  <2>2. mem' = indexed(Filed(mem, t)) /\ catalogMap' = indexed(Filed(catalogMap, t)) /\ live' = live \cup {t} /\ Commit
    BY <1>1, <1>4 DEF create_table
  <2>3. mem' = catalogMap'
    BY <2>2 DEF CatalogInv
  <2>4. IsCatalog(catalogMap') /\ catalogMap'.tables = Filed(catalogMap, t).tables
    BY <2>1, <2>2 DEF IsCatalog
  <2>5. Files(catalogMap', live')
    BY <2>1, <2>2, <2>4, SameFiles
  <2> QED  BY <1>2, <2>2, <2>3, <2>4, <2>5 DEF CatalogInv, Commit
<1> QED  BY <1>3, <1>4

LEMMA DropTableStep ==
    ASSUME CatalogInv, NEW key, drop_table(key)
    PROVE  CatalogInv'
<1>1. PICK t : t = get_table(mem, key) /\ t \in live
  BY GetTableFinds DEF drop_table, CatalogInv
<1>2. Files(Unfiled(catalogMap, t), live \ {t}) /\ IsCatalog(Unfiled(catalogMap, t))
  BY <1>1, UnfiledFiles DEF CatalogInv
<1>3. /\ mem' = catalogMap' /\ catalogMap' = WithoutIndexes(Unfiled(catalogMap, t), t) /\ live' = live \ {t}
      /\ Commit /\ UNCHANGED pending
  BY <1>1 DEF drop_table, Same, CatalogInv
<1>4. IsCatalog(catalogMap') /\ catalogMap'.tables = Unfiled(catalogMap, t).tables
  BY <1>2, <1>3 DEF IsCatalog, WithoutIndexes
<1>5. Files(catalogMap', live')
  BY <1>2, <1>3, <1>4, SameFiles
<1> QED  BY <1>3, <1>4, <1>5 DEF CatalogInv, Commit, PendingDefs

LEMMA DropSchemaStep ==
    ASSUME CatalogInv, NEW cascade, drop_schema(cascade)
    PROVE  CatalogInv'
<1> DEFINE tables == {k \in DOMAIN mem.tables : mem.tables[k].schema = "s"}
           shorts == {Short(mem.tables[k]) : k \in tables}
           left == {t \in live : t.schema # "s"}
<1>1. /\ mem' = catalogMap' /\ live' = left /\ Commit /\ UNCHANGED pending
      /\ catalogMap'.tables = RemoveKeys(catalogMap.tables, tables \cup shorts)
      /\ IsCatalog(catalogMap')
  <2>1. "s" # Public
    BY DEF Public
  <2> QED  BY <2>1 DEF drop_schema, Same, CatalogInv, IsCatalog
<1>2. /\ DOMAIN catalogMap'.tables = DOMAIN mem.tables \ (tables \cup shorts)
      /\ \A k \in DOMAIN catalogMap'.tables : catalogMap'.tables[k] = mem.tables[k]
  BY <1>1 DEF RemoveKeys, CatalogInv
<1>3. \A k \in DOMAIN mem.tables : mem.tables[k] \in live /\ FiledAs(k, mem.tables[k])
  BY DEF CatalogInv, Files
<1>4. ASSUME NEW k \in DOMAIN catalogMap'.tables
      PROVE  catalogMap'.tables[k] \in left /\ FiledAs(k, catalogMap'.tables[k])
  BY <1>2, <1>3
<1>5. ASSUME NEW t \in left
      PROVE  Full(t) \in DOMAIN catalogMap'.tables
  <2>1. Full(t) \in DOMAIN mem.tables /\ t \in TableDefs /\ live \subseteq TableDefs
    BY DEF CatalogInv, Files
  <2>2. Full(t) \notin tables
    <3>1. mem.tables[Full(t)] \in live /\ FiledAs(Full(t), mem.tables[Full(t)])
      BY <1>3, <2>1
    <3>2. mem.tables[Full(t)] = t
      BY <2>1, <3>1, FullNames DEF FiledAs
    <3> QED  BY <3>2
  <2>3. Full(t) \notin shorts
    BY <1>3, <2>1, FullNames
  <2> QED  BY <1>2, <2>1, <2>2, <2>3
<1>6. Files(catalogMap', live')
  BY <1>1, <1>4, <1>5 DEF Files, CatalogInv
<1> QED  BY <1>1, <1>6 DEF CatalogInv, Commit, PendingDefs

LEMMA RenameStep ==
    ASSUME CatalogInv, NEW key, NEW n \in Names, rename_table(key, n)
    PROVE  CatalogInv'
<1>1. PICK t : t = get_table(mem, key) /\ t \in live
  BY GetTableFinds DEF rename_table, CatalogInv
<1>2. PICK new : new = [t EXCEPT !.name = n] /\ new \in TableDefs
  <2>1. t \in TableDefs
    BY <1>1 DEF CatalogInv, Files
  <2>2. [t EXCEPT !.name = n] \in TableDefs
    BY <2>1 DEF TableDefs
  <2> QED  BY <2>2
<1>3. Files(Unfiled(catalogMap, t), live \ {t}) /\ IsCatalog(Unfiled(catalogMap, t))
  BY <1>1, UnfiledFiles DEF CatalogInv
<1>4. CASE Taken(Unfiled(mem, t), new)
  <2>1. mem' = Unfiled(mem, t) /\ catalogMap' = Unfiled(catalogMap, t) /\ live' = live \ {t}
        /\ UNCHANGED <<saved, liveSaved, pending>>
    BY <1>1, <1>2, <1>4 DEF rename_table, Same
  <2> QED  BY <1>3, <2>1 DEF CatalogInv, PendingDefs
<1>5. CASE ~Taken(Unfiled(mem, t), new)
  <2>1. /\ Files(Filed(Unfiled(catalogMap, t), new), (live \ {t}) \cup {new})
        /\ IsCatalog(Filed(Unfiled(catalogMap, t), new))
    BY <1>2, <1>3, <1>5, FiledFiles DEF CatalogInv
  <2> DEFINE renamed(c) ==
               [Filed(Unfiled(c, t), new) EXCEPT
                  !.indexes = [i \in DOMAIN @ |->
                      IF i \in IndexesOf(mem, t) THEN (IF t.schema = Public THEN Short(new) ELSE Full(new))
                      ELSE @[i]]]
  <2>2. /\ mem' = renamed(mem) /\ catalogMap' = renamed(catalogMap) /\ live' = (live \ {t}) \cup {new}
        /\ Commit /\ UNCHANGED pending
    BY <1>1, <1>2, <1>5 DEF rename_table, Same
  <2>3. mem' = catalogMap'
    BY <2>2 DEF CatalogInv
  <2>4. IsCatalog(catalogMap') /\ catalogMap'.tables = Filed(Unfiled(catalogMap, t), new).tables
    BY <2>1, <2>2 DEF IsCatalog
  <2>5. Files(catalogMap', live')
    BY <2>1, <2>2, <2>4, SameFiles
  <2> QED  BY <2>2, <2>3, <2>4, <2>5 DEF CatalogInv, Commit, PendingDefs
<1> QED  BY <1>4, <1>5

LEMMA LoadedSame ==
    ASSUME NEW c, IsCatalog(c)
    PROVE  Loaded(c) = c
<1>1. c.schemas \cup {Public} = c.schemas
  BY DEF IsCatalog
<1> QED  BY <1>1 DEF Loaded, IsCatalog

LEMMA ReadSteps ==
    ASSUME CatalogInv, reload_catalog \/ RestartCatalog \/ UNCHANGED catalogVars
    PROVE  CatalogInv'
<1>1. Loaded(catalogMap) = catalogMap /\ Loaded(saved) = saved
  BY LoadedSame DEF CatalogInv
<1>2. CASE reload_catalog
  BY <1>1, <1>2 DEF reload_catalog, CatalogInv, PendingDefs
<1>3. CASE RestartCatalog
  BY <1>1, <1>3 DEF RestartCatalog, CatalogInv, PendingDefs, NoCreate
<1>4. CASE UNCHANGED catalogVars
  BY <1>4 DEF catalogVars, CatalogInv, PendingDefs
<1> QED  BY <1>2, <1>3, <1>4

LEMMA CatalogNextKeeps == CatalogInv /\ [CatalogNext]_catalogVars => CatalogInv'
<1> SUFFICES ASSUME CatalogInv, [CatalogNext]_catalogVars PROVE CatalogInv'
  OBVIOUS
<1>1. CASE \E cascade \in BOOLEAN : drop_schema(cascade)
  BY <1>1, DropSchemaStep
<1>2. CASE \E x \in Sessions : create_table(x)
  BY <1>2, CreateTableStep
<1>3. CASE \E key \in TableKeys : drop_table(key) \/ \E n \in Names : rename_table(key, n)
  BY <1>3, DropTableStep, RenameStep
<1>4. CASE \/ create_schema \/ \E x \in Sessions : create_view(x)
           \/ \E key \in TableKeys, i \in IndexNames : create_index(key, i)
           \/ \E i \in DOMAIN mem.indexes : drop_index(i)
           \/ \E n \in ViewNames : drop_view(n)
  BY <1>4, SideSteps
<1>5. CASE \E x \in Sessions : \/ \E s \in Schemas, n \in Names : create_table_check(x, s, n)
                               \/ \E n \in ViewNames : create_view_check(x, n)
  BY <1>5, CheckSteps
<1>6. CASE reload_catalog \/ RestartCatalog \/ UNCHANGED catalogVars
  BY <1>6, ReadSteps
<1> QED  BY <1>1, <1>2, <1>3, <1>4, <1>5, <1>6 DEF CatalogNext

\* Both spellings of a name in a catalog that files the tables of `l`.
LEMMA NamesFound ==
    ASSUME NEW c, NEW l, Files(c, l), NEW t \in TableDefs
    PROVE  /\ get_table(c, Full(t)) = IF t \in l THEN t ELSE None
           /\ t.schema = Public => get_table(c, Short(t)) = IF t \in l THEN t ELSE None
<1>1. PICK s, n : s = t.schema /\ n = t.name
  OBVIOUS
<1>2. Full(t) = <<s, n>> /\ Short(t) = <<n>>
  BY <1>1 DEF Full, Short
<1>3. ASSUME NEW u \in l
      PROVE  /\ Full(u) = Full(t) => u = t
             /\ Full(u) # Short(t) /\ Short(u) # Full(t)
             /\ Short(u) = Short(t) /\ u.schema = s => u = t
  <2>1. u \in TableDefs
    BY DEF Files
  <2>2. u.name = n /\ u.schema = s => u = t
    BY <1>1, <2>1 DEF TableDefs
  <2> QED  BY <1>1, <2>1, <2>2, FullNames
<1>4. Full(t) \in DOMAIN c.tables <=> t \in l
  BY <1>3 DEF Files, FiledAs
<1>5. Full(t) \in DOMAIN c.tables => c.tables[Full(t)] = t
  BY <1>3 DEF Files, FiledAs
<1>6. s = Public /\ Short(t) \in DOMAIN c.tables => c.tables[Short(t)] = t /\ t \in l
  BY <1>3 DEF Files, FiledAs
<1>7. Len(<<s, n>>) = 2 /\ Len(<<n>>) = 1 /\ <<s, n>>[1] = s /\ <<s, n>>[2] = n /\ <<n>>[1] = n
  OBVIOUS
<1>8. get_table(c, Full(t)) = IF t \in l THEN t ELSE None
  BY <1>2, <1>4, <1>5, <1>6, <1>7 DEF get_table
<1>9. ASSUME t.schema = Public
      PROVE  get_table(c, Short(t)) = IF t \in l THEN t ELSE None
  BY <1>1, <1>2, <1>4, <1>5, <1>6, <1>7, <1>9 DEF get_table
<1> QED  BY <1>8, <1>9

\* For any names, views, indexes and sessions: every spelling of a name finds its table, and
\* a reload finds the same tables, indexes, views and schemas, through CREATE, DROP, RENAME,
\* failed renames and restarts (Catalog::get_table, Catalog::reload).
THEOREM NamesFindTheirTables == CatalogSpec => []NamesMeanTheirTables
<1>1. CatalogInv => NamesMeanTheirTables
  <2> SUFFICES ASSUME CatalogInv PROVE NamesMeanTheirTables
    OBVIOUS
  <2>1. mem = catalogMap /\ Loaded(catalogMap) = catalogMap /\ Files(mem, live)
    BY LoadedSame DEF CatalogInv
  <2>2. ASSUME NEW key \in TableKeys
        PROVE  LET t == [schema |-> IF Len(key) = 1 THEN Public ELSE key[1], name |-> key[Len(key)]]
               IN get_table(mem, key) = IF t \in live THEN t ELSE None
    <3>1. CASE \E s \in Schemas, n \in Names : key = <<s, n>>
      <4>1. PICK s \in Schemas, n \in Names : key = <<s, n>>
        BY <3>1
      <4>2. Len(key) = 2 /\ key[1] = s /\ key[2] = n
        BY <4>1
      <4>3. PICK t : t = [schema |-> s, name |-> n]
        OBVIOUS
      <4>4. t \in TableDefs /\ Full(t) = key
        BY <4>1, <4>3 DEF TableDefs, Full
      <4>5. get_table(mem, Full(t)) = IF t \in live THEN t ELSE None
        BY <2>1, <4>4, NamesFound
      <4> QED  BY <4>2, <4>3, <4>4, <4>5
    <3>2. CASE \E n \in Names : key = <<n>>
      <4>1. PICK n \in Names : key = <<n>>
        BY <3>2
      <4>2. Public \in Schemas
        BY DEF Schemas
      <4>3. Len(key) = 1 /\ key[1] = n
        BY <4>1
      <4>4. PICK t : t = [schema |-> Public, name |-> n]
        OBVIOUS
      <4>5. t \in TableDefs /\ Short(t) = key /\ t.schema = Public
        BY <4>1, <4>2, <4>4 DEF TableDefs, Short
      <4>6. get_table(mem, Short(t)) = IF t \in live THEN t ELSE None
        BY <2>1, <4>5, NamesFound
      <4> QED  BY <4>3, <4>4, <4>5, <4>6
    <3> QED  BY <3>1, <3>2 DEF TableKeys
  <2> QED  BY <2>1, <2>2 DEF NamesMeanTheirTables
<1> QED  BY <1>1, CatalogInitial, CatalogNextKeeps, PTL DEF CatalogSpec

----------------------------------------------------------------------------
(* A table's definition and its rows.                                      *)
(*                                                                         *)
(* The counter stays above the stored ids (RowIdInv): a crash may lose its *)
(* last values, and the correction at the start makes up for them.  Until  *)
(* a column is dropped the positions are 1, 2, ... and a row is a prefix   *)
(* of the columns (ColumnInv), so alignment reads a value or NULL.         *)

IdBound == 0 .. MaxRowId

\* Row ids, and the counter above all of them; the definition a session has read is still
\* the current one.
IsDef(d) == d = [columns |-> d.columns, next_row_id |-> d.next_row_id] /\ d.next_row_id \in Nat \ {0}
RowIdInv ==
    /\ DOMAIN stored \subseteq IdBound /\ RowIdsAreFresh
    /\ IsDef(def) /\ IsDef(defSaved) /\ defSaved.columns = def.columns
    /\ holding = [x \in Connections |-> holding[x]] /\ \A x \in Connections : holding[x] \in {NoDef, def}
    /\ dropped \in BOOLEAN /\ DOMAIN values = DOMAIN stored

\* In a table that never lost a column, positions are those of the columns, and a row that
\* was written before a column came is shorter.
Aligned(cols, row, vs) ==
    /\ row = [i \in 1 .. Len(row) |-> row[i]] /\ Len(row) \in Nat /\ Len(row) <= Len(cols)
    /\ \A i \in 1 .. Len(cols) : vs[cols[i].name] = IF i <= Len(row) THEN row[i] ELSE NullCell
InOrder(cols) ==
    /\ cols \in Seq([name : Columns, physical_index : Nat])
    /\ \A i \in 1 .. Len(cols) : cols[i].physical_index = i
    /\ \A i, j \in 1 .. Len(cols) : cols[i].name = cols[j].name => i = j
ColumnInv == ~dropped => InOrder(def.columns) /\ \A id \in DOMAIN stored : Aligned(def.columns, stored[id], values[id])

TableInv == RowIdInv /\ ColumnInv

\* The correction at a start raises the counter above the stored ids and changes nothing else.
LEMMA CorrectedIsFresh ==
    ASSUME MaxRowId \in Nat, NEW d, IsDef(d), DOMAIN stored \subseteq IdBound
    PROVE  /\ IsDef(Corrected(d)) /\ Corrected(d).columns = d.columns
           /\ \A id \in DOMAIN stored : id < Corrected(d).next_row_id
<1> DEFINE T == {d.next_row_id} \cup {id + 1 : id \in {k \in DOMAIN stored : k >= d.next_row_id}}
           n == MaxRowId + 1 + d.next_row_id
<1>1. n \in Nat /\ T \in SUBSET Nat /\ T # {} /\ \A y \in T : y <= n
  BY DEF IsDef, IdBound
<1>2. Max(T) \in T /\ \A y \in T : y <= Max(T)
  <2> HIDE DEF T, n
  <2> QED  BY <1>1, MaxOfNats
<1>3. Corrected(d) = [d EXCEPT !.next_row_id = Max(T)]
  BY DEF Corrected
<1>4. \A y \in T : y \in Nat \ {0}
  BY DEF IsDef, IdBound
<1>5. ASSUME NEW id \in DOMAIN stored PROVE id < Max(T)
  <2>1. id \in Nat /\ d.next_row_id \in Nat /\ Max(T) \in Nat
    BY <1>2, <1>4 DEF IdBound, IsDef
  <2>2. CASE id >= d.next_row_id
    <3>1. id + 1 \in T
      BY <2>2
    <3>2. id + 1 <= Max(T)
      BY <1>2, <3>1
    <3> QED  BY <2>1, <3>2
  <2>3. CASE ~(id >= d.next_row_id)
    <3>1. d.next_row_id <= Max(T)
      BY <1>2
    <3> QED  BY <2>1, <2>3, <3>1
  <2> QED  BY <2>2, <2>3
<1> HIDE DEF T
<1>6. IsDef(Corrected(d)) /\ Corrected(d).columns = d.columns /\ Corrected(d).next_row_id = Max(T)
  BY <1>2, <1>3, <1>4 DEF IsDef
<1> QED  BY <1>5, <1>6

LEMMA TableInitial == ASSUME MaxRowId \in Nat PROVE TableInit => TableInv
<1> SUFFICES ASSUME TableInit PROVE TableInv
  OBVIOUS
<1>1. PICK c \in Columns : def = [columns |-> <<[name |-> c, physical_index |-> 1]>>, next_row_id |-> 1]
  BY DEF TableInit
<1>2. PICK col : col = [name |-> c, physical_index |-> 1]
  OBVIOUS
<1>3. InOrder(<<col>>)
  BY <1>2 DEF InOrder
<1>4. RowIdInv
  <2>1. DOMAIN stored = {} /\ DOMAIN values = {}
    BY DEF TableInit
  <2>2. IsDef(def) /\ defSaved = def
    BY <1>1 DEF TableInit, IsDef
  <2>3. holding = [x \in Connections |-> NoDef] /\ dropped = FALSE
    BY DEF TableInit
  <2> QED  BY <2>1, <2>2, <2>3 DEF RowIdInv, RowIdsAreFresh
<1>5. ColumnInv
  BY <1>1, <1>2, <1>3 DEF TableInit, ColumnInv
<1> QED  BY <1>4, <1>5 DEF TableInv

\* What alignment reads when positions are in order.
LEMMA AlignedRow ==
    ASSUME NEW d, NEW row, NEW vs, InOrder(d.columns), Aligned(d.columns, row, vs)
    PROVE  /\ \A i \in DOMAIN d.columns : align_row(d, row)[i] = vs[d.columns[i].name]
           /\ Aligned(d.columns, align_row(d, row), vs)
<1>1. PICK cols, n : cols = d.columns /\ n = Len(cols) /\ n \in Nat /\ DOMAIN cols = 1 .. n
  BY DEF InOrder
<1>2. align_row(d, row) = [i \in 1 .. n |-> IF i <= Len(row) THEN row[i] ELSE NullCell]
  BY <1>1 DEF align_row, InOrder
<1>3. \A i \in 1 .. n : vs[cols[i].name] = IF i <= Len(row) THEN row[i] ELSE NullCell
  BY <1>1 DEF Aligned
<1>4. PICK r : r = align_row(d, row)
  OBVIOUS
<1>5. /\ r = [i \in 1 .. n |-> IF i <= Len(row) THEN row[i] ELSE NullCell]
  BY <1>2, <1>4
<1>6. Len(r) = n /\ DOMAIN r = 1 .. n
  BY <1>1, <1>5
<1>7. \A i \in 1 .. n : r[i] = vs[cols[i].name]
  BY <1>3, <1>5
<1>8. r = [i \in 1 .. Len(r) |-> r[i]]
  BY <1>5, <1>6
<1>9. Aligned(cols, r, vs)
  BY <1>1, <1>6, <1>7, <1>8 DEF Aligned
<1> QED  BY <1>1, <1>4, <1>7, <1>9

\* One connection: nobody else changes the definition between its read and its write back.
OneConnection == \A x, y \in Connections : x = y

LEMMA HoldingSet ==
    ASSUME RowIdInv, NEW x \in Connections, OneConnection, NEW d,
           holding' = [holding EXCEPT ![x] = d], d \in {NoDef, def'}
    PROVE  /\ holding' = [y \in Connections |-> holding'[y]]
           /\ \A y \in Connections : holding'[y] \in {NoDef, def'}
BY DEF RowIdInv, OneConnection

LEMMA HoldingKept ==
    ASSUME RowIdInv, NEW x \in Connections, OneConnection, holding' = holding, Unheld(x)
    PROVE  /\ holding' = [y \in Connections |-> holding'[y]]
           /\ \A y \in Connections : holding'[y] \in {NoDef, def'}
BY DEF RowIdInv, OneConnection, Unheld

LEMMA InsertRowStep ==
    ASSUME MaxRowId \in Nat, OneConnection, TableInv, NEW x \in Connections,
           NEW counted \in BOOLEAN, insert_row(x, counted)
    PROVE  TableInv'
<1>1. PICK id, cols, n : /\ id = def.next_row_id /\ cols = def.columns /\ n = Len(cols)
                         /\ id \in Nat \ {0} /\ id <= MaxRowId
  BY DEF TableInv, RowIdInv, IsDef, insert_row
<1>2. PICK row, vs : /\ row = [i \in DOMAIN cols |-> ValueOf(id, cols[i].name)]
                     /\ vs = [c \in ColumnNames(def) |-> ValueOf(id, c)]
  OBVIOUS
<1>3. /\ stored' = [k \in DOMAIN stored \cup {id} |-> IF k = id THEN row ELSE stored[k]]
      /\ values' = [k \in DOMAIN values \cup {id} |-> IF k = id THEN vs ELSE values[k]]
      /\ def' = [def EXCEPT !.next_row_id = @ + 1] /\ defSaved' = defSaved /\ dropped' = dropped
      /\ holding' = IF counted THEN [holding EXCEPT ![x] = def'] ELSE holding
  BY <1>1, <1>2 DEF insert_row
<1>4. IsDef(def') /\ def'.columns = cols /\ def'.next_row_id = id + 1
  BY <1>1, <1>3 DEF TableInv, RowIdInv, IsDef
<1>5. /\ holding' = [y \in Connections |-> holding'[y]]
      /\ \A y \in Connections : holding'[y] \in {NoDef, def'}
  <2>1. Unheld(x) /\ RowIdInv
    BY DEF insert_row, TableInv
  <2>2. CASE counted
    <3>1. holding' = [holding EXCEPT ![x] = def']
      BY <1>3, <2>2
    <3> QED  BY <2>1, <3>1, HoldingSet
  <2>3. CASE ~counted
    <3>1. holding' = holding
      BY <1>3, <2>3
    <3> QED  BY <2>1, <3>1, HoldingKept
  <2> QED  BY <2>2, <2>3
<1>6. /\ DOMAIN stored' \subseteq IdBound /\ DOMAIN values' = DOMAIN stored'
      /\ \A k \in DOMAIN stored' : k < id + 1
  <2>1. DOMAIN stored' = DOMAIN stored \cup {id} /\ DOMAIN values' = DOMAIN values \cup {id}
    BY <1>3
  <2>2. \A k \in DOMAIN stored : k < id /\ k \in Nat
    BY <1>1 DEF TableInv, RowIdInv, RowIdsAreFresh, IdBound
  <2>3. DOMAIN stored \subseteq IdBound /\ DOMAIN values = DOMAIN stored
    BY DEF TableInv, RowIdInv
  <2>4. id \in IdBound
    BY <1>1 DEF IdBound
  <2> QED  BY <1>1, <2>1, <2>2, <2>3, <2>4
<1>7. RowIdInv'
  BY <1>1, <1>3, <1>4, <1>5, <1>6 DEF TableInv, RowIdInv, RowIdsAreFresh
<1>8. ASSUME ~dropped PROVE Aligned(cols, row, vs)
  <2>1. cols \in Seq([name : Columns, physical_index : Nat]) /\ n \in Nat /\ DOMAIN cols = 1 .. n
    BY <1>1, <1>8 DEF TableInv, ColumnInv, InOrder
  <2>2. Len(row) = n /\ row = [i \in 1 .. Len(row) |-> row[i]]
    BY <1>2, <2>1
  <2>3. \A i \in 1 .. n : row[i] = ValueOf(id, cols[i].name)
    BY <1>2, <2>1
  <2>4. \A i \in 1 .. n : cols[i].name \in ColumnNames(def)
    BY <1>1, <2>1 DEF ColumnNames
  <2>5. \A i \in 1 .. n : vs[cols[i].name] = row[i]
    BY <1>2, <2>3, <2>4
  <2> QED  BY <1>1, <2>1, <2>2, <2>5 DEF Aligned
<1>9. ColumnInv'
  <2> SUFFICES ASSUME ~dropped', NEW k \in DOMAIN stored'
               PROVE  InOrder(def'.columns) /\ Aligned(def'.columns, stored'[k], values'[k])
    <3>1. dropped' => ColumnInv'
      BY DEF ColumnInv
    <3>2. ASSUME ~dropped PROVE InOrder(def'.columns)
      BY <1>1, <1>4, <3>2 DEF TableInv, ColumnInv
    <3> QED  BY <1>3, <3>1, <3>2 DEF ColumnInv
  <2>1. ~dropped
    BY <1>3
  <2>2. InOrder(def.columns) /\ def'.columns = def.columns
    BY <1>1, <1>4, <2>1 DEF TableInv, ColumnInv
  <2>3. k = id => stored'[k] = row /\ values'[k] = vs
    BY <1>3
  <2>4. k # id => k \in DOMAIN stored /\ stored'[k] = stored[k] /\ values'[k] = values[k]
    BY <1>3 DEF TableInv, RowIdInv
  <2>5. k # id => Aligned(def.columns, stored[k], values[k])
    BY <2>1, <2>4 DEF TableInv, ColumnInv
  <2> QED  BY <1>1, <1>8, <2>1, <2>2, <2>3, <2>4, <2>5
<1> QED  BY <1>7, <1>9 DEF TableInv

\* Rows that stay, and rows that are written back as they are read.
LEMMA UpdateRowStep ==
    ASSUME OneConnection, TableInv, NEW x \in Connections, NEW id \in DOMAIN stored, update_row(x, id)
    PROVE  TableInv'
<1>1. /\ stored' = [stored EXCEPT ![id] = align_row(def, @)]
      /\ UNCHANGED <<def, defSaved, values, holding, dropped>>
  BY DEF update_row, Rest
<1>2. DOMAIN stored' = DOMAIN stored
  BY <1>1
<1>3. RowIdInv'
  BY <1>1, <1>2 DEF TableInv, RowIdInv, RowIdsAreFresh
<1>4. ASSUME ~dropped, NEW k \in DOMAIN stored PROVE Aligned(def.columns, stored'[k], values[k])
  <2>1. InOrder(def.columns) /\ Aligned(def.columns, stored[k], values[k])
    BY <1>4 DEF TableInv, ColumnInv
  <2>2. stored'[k] = stored[k] \/ stored'[k] = align_row(def, stored[k])
    BY <1>1
  <2> QED  BY <2>1, <2>2, AlignedRow
<1>5. ColumnInv'
  BY <1>1, <1>2, <1>4 DEF TableInv, ColumnInv
<1> QED  BY <1>3, <1>5 DEF TableInv

LEMMA DeleteRowStep ==
    ASSUME OneConnection, TableInv, NEW x \in Connections, NEW id \in DOMAIN stored, delete_row(x, id)
    PROVE  TableInv'
<1>1. /\ stored' = [k \in DOMAIN stored \ {id} |-> stored[k]] /\ values' = [k \in DOMAIN values \ {id} |-> values[k]]
      /\ holding' = [holding EXCEPT ![x] = def'] /\ UNCHANGED <<def, defSaved, dropped>>
  BY DEF delete_row
<1>2. /\ holding' = [y \in Connections |-> holding'[y]]
      /\ \A y \in Connections : holding'[y] \in {NoDef, def'}
  BY <1>1, HoldingSet DEF TableInv
<1>3. RowIdInv'
  BY <1>1, <1>2 DEF TableInv, RowIdInv, RowIdsAreFresh
<1>4. ColumnInv'
  BY <1>1 DEF TableInv, RowIdInv, ColumnInv
<1> QED  BY <1>3, <1>4 DEF TableInv

\* Reading and writing back the definition, and saving it, change no row and no column.
LEMMA CountSteps ==
    ASSUME OneConnection, TableInv, (\E x \in Connections : update_table(x) \/ analyze(x)) \/ SaveTable
    PROVE  TableInv'
<1>1. UNCHANGED <<stored, values, dropped>> /\ def' = def
  <2>1. ASSUME NEW x \in Connections, update_table(x) PROVE UNCHANGED <<stored, values, dropped>> /\ def' = def
    BY <2>1 DEF update_table, Unheld, TableInv, RowIdInv
  <2> QED  BY <2>1 DEF analyze, SaveTable, Rest
<1>2. defSaved' \in {defSaved, def}
  BY DEF update_table, analyze, SaveTable
<1>3. /\ holding' = [y \in Connections |-> holding'[y]]
      /\ \A y \in Connections : holding'[y] \in {NoDef, def'}
  <2>1. CASE SaveTable
    BY <1>1, <2>1 DEF SaveTable, Rest, TableInv, RowIdInv
  <2>2. CASE \E x \in Connections : update_table(x) \/ analyze(x)
    <3>1. PICK x \in Connections : update_table(x) \/ analyze(x)
      BY <2>2
    <3>2. \E d : holding' = [holding EXCEPT ![x] = d] /\ d \in {NoDef, def'}
      BY <1>1, <3>1 DEF update_table, analyze
    <3> QED  BY <3>2, HoldingSet DEF TableInv
  <2> QED  BY <2>1, <2>2
<1>4. RowIdInv'
  BY <1>1, <1>2, <1>3 DEF TableInv, RowIdInv, RowIdsAreFresh
<1>5. ColumnInv'
  BY <1>1 DEF TableInv, ColumnInv
<1> QED  BY <1>4, <1>5 DEF TableInv

LEMMA TruncateStep ==
    ASSUME OneConnection, TableInv, NEW x \in Connections, truncate(x)
    PROVE  TableInv'
<1>1. /\ DOMAIN stored' = {} /\ DOMAIN values' = {} /\ def' = [def EXCEPT !.next_row_id = 1]
      /\ defSaved' = def' /\ UNCHANGED <<holding, dropped>> /\ Unheld(x)
  BY DEF truncate, Rest
<1>2. IsDef(def') /\ def'.columns = def.columns
  BY <1>1 DEF IsDef, TableInv, RowIdInv
<1>3. /\ holding' = [y \in Connections |-> holding'[y]]
      /\ \A y \in Connections : holding'[y] \in {NoDef, def'}
  BY <1>1, HoldingKept DEF TableInv
<1>4. RowIdInv'
  BY <1>1, <1>2, <1>3 DEF TableInv, RowIdInv, RowIdsAreFresh
<1>5. ColumnInv'
  BY <1>1, <1>2 DEF TableInv, ColumnInv
<1> QED  BY <1>4, <1>5 DEF TableInv

\* The next position is one past the columns.
LEMMA NextPosition ==
    ASSUME NEW d, InOrder(d.columns)
    PROVE  next_physical_index(d) = Len(d.columns) + 1
<1>1. PICK cols, n : cols = d.columns /\ n = Len(cols) /\ n \in Nat /\ DOMAIN cols = 1 .. n
  BY DEF InOrder
<1>2. CASE n = 0
  <2>1. PICK S : cols \in Seq(S)
    BY <1>1 DEF InOrder
  <2>2. cols = <<>>
    BY <1>1, <1>2, <2>1, EmptySeq
  <2> QED  BY <1>1, <1>2, <2>2 DEF next_physical_index
<1>3. CASE n # 0
  <2>1. {cols[i].physical_index : i \in DOMAIN cols} = 1 .. n
    BY <1>1 DEF InOrder
  <2>2. PICK T : T = 1 .. n
    OBVIOUS
  <2>3. Max(T) = n
    <3>1. T \in SUBSET Nat /\ T # {} /\ n \in T /\ \A y \in T : y <= n
      BY <1>1, <1>3, <2>2
    <3>2. Max(T) \in T /\ \A y \in T : y <= Max(T)
      BY <1>1, <3>1, MaxOfNats
    <3> QED  BY <1>1, <2>2, <3>1, <3>2
  <2>4. cols # <<>>
    BY <1>1, <1>3
  <2> QED  BY <1>1, <2>1, <2>2, <2>3, <2>4 DEF next_physical_index
<1> QED  BY <1>2, <1>3

LEMMA AddColumnStep ==
    ASSUME OneConnection, TableInv, NEW x \in Connections, NEW c \in Columns, add_column(x, c)
    PROVE  TableInv'
<1>1. PICK cols, col : cols = def.columns /\ col = [name |-> c, physical_index |-> next_physical_index(def)]
  OBVIOUS
<1>2. /\ def' = [def EXCEPT !.columns = Append(cols, col)] /\ defSaved' = def'
      /\ values' = [id \in DOMAIN values |->
                      [k \in ColumnNames(def) \cup {c} |-> IF k = c THEN NullCell ELSE values[id][k]]]
      /\ UNCHANGED <<stored, holding, dropped>> /\ Unheld(x) /\ c \notin ColumnNames(def)
  BY <1>1 DEF add_column, Rest
<1>3. IsDef(def') /\ def'.columns = Append(cols, col) /\ def'.next_row_id = def.next_row_id
  BY <1>2 DEF IsDef, TableInv, RowIdInv
<1>4. /\ holding' = [y \in Connections |-> holding'[y]]
      /\ \A y \in Connections : holding'[y] \in {NoDef, def'}
  BY <1>2, HoldingKept DEF TableInv
<1>5. RowIdInv'
  <2>1. DOMAIN values' = DOMAIN values
    BY <1>2
  <2> QED  BY <1>2, <1>3, <1>4, <2>1 DEF TableInv, RowIdInv, RowIdsAreFresh
<1>6. ASSUME ~dropped
      PROVE  InOrder(Append(cols, col)) /\ \A id \in DOMAIN stored : Aligned(Append(cols, col), stored[id], values'[id])
  <2>1. InOrder(cols) /\ \A id \in DOMAIN stored : Aligned(cols, stored[id], values[id])
    BY <1>1, <1>6 DEF TableInv, ColumnInv
  <2>2. PICK n : n = Len(cols) /\ n \in Nat /\ DOMAIN cols = 1 .. n
    BY <2>1 DEF InOrder
  <2>3. next_physical_index(def) = n + 1
    BY <1>1, <2>1, <2>2, NextPosition
  <2>4. col = [name |-> c, physical_index |-> n + 1] /\ col \in [name : Columns, physical_index : Nat]
    BY <1>1, <2>2, <2>3
  <2>5. PICK new : new = Append(cols, col)
    OBVIOUS
  <2>6. /\ new \in Seq([name : Columns, physical_index : Nat]) /\ Len(new) = n + 1
        /\ \A i \in 1 .. n : new[i] = cols[i]
        /\ new[n + 1] = col
    BY <2>1, <2>2, <2>4, <2>5 DEF InOrder
  <2>7. \A i \in 1 .. n : cols[i].name # c /\ cols[i].name \in ColumnNames(def)
    BY <1>1, <1>2, <2>2 DEF ColumnNames
  <2>8. \A i \in 1 .. n + 1 : i \in 1 .. n \/ i = n + 1
    BY <2>2
  <2>9. InOrder(new)
    <3>1. \A i \in 1 .. Len(new) : new[i].physical_index = i
      BY <2>1, <2>2, <2>4, <2>6, <2>8 DEF InOrder
    <3>2. \A i, j \in 1 .. Len(new) : new[i].name = new[j].name => i = j
      BY <2>1, <2>2, <2>4, <2>6, <2>7, <2>8 DEF InOrder
    <3> QED  BY <2>6, <3>1, <3>2 DEF InOrder
  <2>10. ASSUME NEW id \in DOMAIN stored PROVE Aligned(new, stored[id], values'[id])
    <3>1. PICK row, m : row = stored[id] /\ m = Len(row) /\ m \in Nat /\ m <= n /\ row = [i \in 1 .. m |-> row[i]]
      BY <2>1, <2>2 DEF Aligned
    <3>2. values'[id] = [k \in ColumnNames(def) \cup {c} |-> IF k = c THEN NullCell ELSE values[id][k]]
      BY <1>2 DEF TableInv, RowIdInv
    <3>3. values'[id][c] = NullCell
      BY <3>2
    <3>4. \A i \in 1 .. n : values'[id][cols[i].name] = values[id][cols[i].name]
      BY <2>7, <3>2
    <3>5. \A i \in 1 .. n : values[id][cols[i].name] = IF i <= m THEN row[i] ELSE NullCell
      BY <2>1, <2>2, <3>1 DEF Aligned
    <3>6. ASSUME NEW i \in 1 .. n + 1 PROVE values'[id][new[i].name] = IF i <= m THEN row[i] ELSE NullCell
      <4>1. CASE i \in 1 .. n
        BY <2>6, <3>4, <3>5, <4>1
      <4>2. CASE i = n + 1
        BY <2>2, <2>4, <2>6, <3>1, <3>3, <4>2
      <4> QED  BY <2>8, <4>1, <4>2
    <3>7. m <= n + 1
      BY <2>2, <3>1
    <3> QED  BY <2>6, <3>1, <3>6, <3>7 DEF Aligned
  <2> QED  BY <2>5, <2>9, <2>10
<1>7. ColumnInv'
  BY <1>2, <1>3, <1>6 DEF ColumnInv
<1> QED  BY <1>5, <1>7 DEF TableInv

LEMMA DropColumnStep ==
    ASSUME OneConnection, TableInv, NEW x \in Connections, NEW c \in Columns, drop_column(x, c)
    PROVE  TableInv'
<1>1. PICK cols : cols = SelectSeq(def.columns, LAMBDA col : col.name # c)
  OBVIOUS
<1>2. /\ def' = [def EXCEPT !.columns = cols] /\ defSaved' = def' /\ dropped' = TRUE
      /\ UNCHANGED <<stored, holding>> /\ Unheld(x)
  BY <1>1 DEF drop_column
<1>3. IsDef(def') /\ def'.next_row_id = def.next_row_id
  BY <1>2 DEF IsDef, TableInv, RowIdInv
<1>4. /\ holding' = [y \in Connections |-> holding'[y]]
      /\ \A y \in Connections : holding'[y] \in {NoDef, def'}
  BY <1>2, HoldingKept DEF TableInv
<1>5. DOMAIN values' = DOMAIN values
  BY DEF drop_column
<1>6. RowIdInv'
  BY <1>2, <1>3, <1>4, <1>5 DEF TableInv, RowIdInv, RowIdsAreFresh
<1>7. ColumnInv'
  BY <1>2 DEF ColumnInv
<1> QED  BY <1>6, <1>7 DEF TableInv

LEMMA LoadSteps ==
    ASSUME MaxRowId \in Nat, OneConnection, TableInv,
           (\E x \in Connections : reload_table(x)) \/ RestartTable
    PROVE  TableInv'
<1>1. PICK d : d \in {def, defSaved} /\ def' = Corrected(d)
  BY DEF reload_table, RestartTable
<1>2. UNCHANGED <<defSaved, stored, values, dropped>>
  BY DEF reload_table, RestartTable, Rest
<1>3. /\ IsDef(def') /\ def'.columns = def.columns
      /\ \A id \in DOMAIN stored : id < def'.next_row_id
  <2>1. IsDef(d) /\ d.columns = def.columns /\ DOMAIN stored \subseteq IdBound
    BY <1>1 DEF TableInv, RowIdInv
  <2> QED  BY <1>1, <2>1, CorrectedIsFresh
<1>4. /\ holding' = [y \in Connections |-> holding'[y]]
      /\ \A y \in Connections : holding'[y] \in {NoDef, def'}
  <2>1. CASE RestartTable
    BY <2>1 DEF RestartTable
  <2>2. CASE \E x \in Connections : reload_table(x)
    BY <2>2, HoldingKept DEF reload_table, Rest, TableInv
  <2> QED  BY <2>1, <2>2
<1>5. RowIdInv'
  BY <1>2, <1>3, <1>4 DEF TableInv, RowIdInv, RowIdsAreFresh
<1>6. ColumnInv'
  BY <1>2, <1>3 DEF TableInv, ColumnInv
<1> QED  BY <1>5, <1>6 DEF TableInv

\* For any columns and bounds, and one connection: no row id is handed out while a row has
\* it, through TRUNCATE, reloads and crashes that lose the counter, and until a column is
\* dropped every column reads the values written to it, NULL in rows older than the column
\* (Catalog::next_row_id, the correction in Catalog::new, execute_alter_table, align_row).
THEOREM RowsStayWithTheirColumns ==
    ASSUME MaxRowId \in Nat, OneConnection
    PROVE  TableSpec => []TableKeepsItsRows
<1>1. TableInv /\ [TableNext]_columnVars => TableInv'
  <2> SUFFICES ASSUME TableInv, [TableNext]_columnVars PROVE TableInv'
    OBVIOUS
  <2>1. ASSUME NEW x \in Connections,
               \/ \E counted \in BOOLEAN : insert_row(x, counted)
               \/ \E id \in DOMAIN stored : update_row(x, id) \/ delete_row(x, id)
               \/ truncate(x)
               \/ \E c \in Columns : add_column(x, c) \/ drop_column(x, c)
        PROVE  TableInv'
    BY <2>1, InsertRowStep, UpdateRowStep, DeleteRowStep, TruncateStep, AddColumnStep, DropColumnStep
  <2>2. CASE (\E x \in Connections : update_table(x) \/ analyze(x)) \/ SaveTable
    BY <2>2, CountSteps
  <2>3. CASE (\E x \in Connections : reload_table(x)) \/ RestartTable
    BY <2>3, LoadSteps
  <2>4. CASE UNCHANGED columnVars
    BY <2>4 DEF columnVars, TableInv, RowIdInv, ColumnInv, RowIdsAreFresh
  <2> QED  BY <2>1, <2>2, <2>3, <2>4 DEF TableNext
<1>2. TableInv => TableKeepsItsRows
  <2> SUFFICES ASSUME TableInv PROVE TableKeepsItsRows
    OBVIOUS
  <2>1. RowIdsAreFresh
    BY DEF TableInv, RowIdInv
  <2>2. ASSUME ~dropped, NEW id \in DOMAIN stored, NEW i \in DOMAIN def.columns
        PROVE  align_row(def, stored[id])[i] = values[id][def.columns[i].name]
    <3>1. InOrder(def.columns) /\ Aligned(def.columns, stored[id], values[id])
      BY <2>2 DEF TableInv, ColumnInv
    <3> QED  BY <3>1, AlignedRow
  <2> QED  BY <2>1, <2>2 DEF TableKeepsItsRows, AddedColumnsKeepTheirValues, ColumnsKeepTheirValues
<1> QED  BY <1>1, <1>2, TableInitial, PTL DEF TableSpec
=============================================================================
