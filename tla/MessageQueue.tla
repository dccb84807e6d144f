--------------------------- MODULE MessageQueue ---------------------------
(* A queue table, its producers, one consumer of a group, and retention.      *)
(*                                                                            *)
(* A message is a row of the queue table; its offset is the row id handed out *)
(* when it is inserted, not when its transaction commits.  A transaction      *)
(* reads the snapshot it began with.  The consumer keeps its position in      *)
(* memory; the position of its group is a row of the map queue_offsets_<q>.   *)
(* AutoAcknowledge commits that row with each receive, ClientAcknowledge      *)
(* when the application says so, a transacted session never, and the          *)
(* "exactly_once" application in the transaction in which it also does its    *)
(* work (receive_with_tx, commit_offset_with_tx).                             *)
EXTENDS Integers, FiniteSets, FiniteSetsExt

CONSTANTS Producers,
          MaxOffset,      \* bound on the messages sent
          MaxTime,        \* bound on the clock
          RetentionTime,  \* RETENTION_TIME, in ticks
          MaxKept         \* MAX_BYTES, in messages

ASSUME QueueBounds == {MaxOffset, MaxTime, RetentionTime, MaxKept} \subseteq Nat /\ MaxKept > 0

VARIABLES clock,
          next_row_id,
          kept,        \* the committed messages in the table: offset -> timestamp
          ptx,         \* the transaction of each producer
          consumer,    \* mode, current_offset, open transaction
          committed,   \* the group's committed offset, 0 when there is none
          ever,        \* offsets committed so far
          disordered,  \* an offset was committed after a larger one, or removed before a smaller one
          skipped,     \* offsets a receive jumped over although they had been committed
          passed,      \* offsets the application chose to pass by seeking
          processed    \* how often the work for a message was committed

queueVars == <<clock, next_row_id, kept, ptx, consumer, committed, ever, disordered, skipped, passed, processed>>

Offsets == 1..MaxOffset
Modes == {"auto", "client", "transacted", "exactly_once"}
Closed == [open |-> FALSE, snap |-> <<>>, writes |-> <<>>, removed |-> {}]
Begun == [Closed EXCEPT !.open = TRUE, !.snap = kept]
NoTx == [open |-> FALSE, snap |-> <<>>, ack |-> 0, work |-> 0]

Merge(f, h) == [x \in DOMAIN f \union DOMAIN h |-> IF x \in DOMAIN h THEN h[x] ELSE f[x]]
Without(f, S) == [x \in DOMAIN f \ S |-> f[x]]

-----------------------------------------------------------------------------
(* Producers and retention.                                                   *)

\* The offsets retention removes from the messages a transaction sees: those older
\* than RETENTION_TIME, and then the oldest ones until MAX_BYTES are left.
purge_queue_retention(rows) ==
    LET old == {o \in DOMAIN rows : rows[o] < clock - RetentionTime}
        rest == DOMAIN rows \ old
    IN old \union {o \in rest : Cardinality({x \in rest : x >= o}) > MaxKept}

\* INSERT INTO the queue: the offset and the timestamp are taken now, and retention
\* runs in the producer's transaction.
send(p) ==
    /\ next_row_id <= MaxOffset
    /\ LET tx == IF ptx[p].open THEN ptx[p] ELSE Begun
           writes == Merge(tx.writes, [x \in {next_row_id} |-> clock])
           seen == Without(Merge(tx.snap, writes), tx.removed)
       IN ptx' = [ptx EXCEPT ![p] = [tx EXCEPT !.writes = writes,
                                               !.removed = @ \union purge_queue_retention(seen)]]
    /\ next_row_id' = next_row_id + 1
    /\ UNCHANGED <<clock, kept, consumer, committed, ever, disordered, skipped, passed, processed>>

\* The session commits, or send does when the session is not transacted.
commit(p) ==
    /\ ptx[p].open
    /\ LET new == DOMAIN ptx[p].writes
       IN /\ kept' = Without(Merge(kept, ptx[p].writes), ptx[p].removed)
          /\ ever' = ever \union new
          /\ disordered' = (\/ disordered
                             \/ (\E o \in new, x \in ever : o < x)
                             \/ (\E o \in ptx[p].removed, x \in DOMAIN kept' : x < o))
    /\ ptx' = [ptx EXCEPT ![p] = Closed]
    /\ UNCHANGED <<clock, next_row_id, consumer, committed, skipped, passed, processed>>

\* The session rolls back; the offsets it took are not given out again.
rollback(p) ==
    /\ ptx[p].open
    /\ ptx' = [ptx EXCEPT ![p] = Closed]
    /\ UNCHANGED <<clock, next_row_id, kept, consumer, committed, ever, disordered, skipped, passed, processed>>

\* The cleaner's round over one queue.
QueueRetentionCleaner ==
    /\ purge_queue_retention(kept) # {}
    /\ kept' = Without(kept, purge_queue_retention(kept))
    /\ UNCHANGED <<clock, next_row_id, ptx, consumer, committed, ever, disordered, skipped, passed, processed>>

Tick ==
    /\ clock < MaxTime
    /\ clock' = clock + 1
    /\ UNCHANGED <<next_row_id, kept, ptx, consumer, committed, ever, disordered, skipped, passed, processed>>

-----------------------------------------------------------------------------
(* The consumer.                                                              *)

Start(rows) == IF rows = <<>> THEN 1 ELSE Min(DOMAIN rows)
End(rows) == IF rows = <<>> THEN 1 ELSE Max(DOMAIN rows) + 1

\* A plausible slip: only an empty queue is out of range.
OffsetOutOfRange_never(rows, at) == FALSE

\* The head of the queue was truncated past the position asked for.
OffsetOutOfRange(rows, at) == rows # <<>> /\ at < Min(DOMAIN rows)

\* The position moves because the application says so.
Seek(to) ==
    /\ consumer.alive /\ ~consumer.tx.open
    /\ consumer' = [consumer EXCEPT !.offset = to]
    /\ passed' = passed \union (consumer.offset..(to - 1))
    /\ UNCHANGED <<clock, next_row_id, kept, ptx, committed, ever, disordered, skipped, processed>>

\* The exactly-once application seeks when it is told that the head is gone.
seek_to_beginning ==
    /\ consumer.mode = "exactly_once" => OffsetOutOfRange(kept, consumer.offset)
    /\ Seek(Start(kept))

\* The other ways to seek are left to applications that do not count on exactly once.
seek_to_end == consumer.mode # "exactly_once" /\ Seek(End(kept))
rewind(count) ==
    /\ consumer.mode # "exactly_once"
    /\ Seek(IF consumer.offset > count THEN consumer.offset - count ELSE 1)
seek_to_timestamp(ts) ==
    LET since == {o \in DOMAIN kept : kept[o] >= ts}
    IN consumer.mode # "exactly_once" /\ Seek(IF since = {} THEN End(kept) ELSE Min(since))

\* A consumer of the group, after a start, a crash or a failed transaction: it goes on
\* from the committed offset, or from the oldest message.
create_consumer ==
    /\ ~consumer.alive
    /\ LET at == IF committed # 0 THEN committed ELSE Start(kept)
       IN /\ consumer' = [consumer EXCEPT !.alive = TRUE, !.offset = at]
          /\ passed' = IF committed # 0 THEN passed ELSE passed \union 1..(at - 1)
    /\ UNCHANGED <<clock, next_row_id, kept, ptx, committed, ever, disordered, skipped, processed>>

\* A plausible slip: the position acknowledged is that of the message received.
Acknowledged_same(o) == o

Acknowledged(o) == o + 1

\* try_receive_single in the open transaction, or in one begun now.  OffsetOutOfRange
\* and an empty answer leave the position alone.
receive ==
    LET rows == IF consumer.tx.open THEN consumer.tx.snap ELSE kept
        found == {o \in DOMAIN rows : o >= consumer.offset}
        o == Min(found)
        keeps == consumer.mode # "client"    \* the transaction stays open after the read
        ack == IF consumer.mode \in {"auto", "exactly_once"} THEN Acknowledged(o) ELSE 0
    IN /\ consumer.alive
       /\ consumer.tx.open => consumer.mode = "transacted"
       /\ ~OffsetOutOfRange(rows, consumer.offset)
       /\ found # {}
       /\ consumer' = [consumer EXCEPT !.offset = o + 1,
                          !.tx = IF keeps THEN [open |-> TRUE, snap |-> rows, ack |-> ack, work |-> o] ELSE NoTx]
       /\ skipped' = skipped \union {x \in ever : consumer.offset <= x /\ x < o /\ x \notin DOMAIN rows}
       /\ UNCHANGED <<clock, next_row_id, kept, ptx, committed, ever, disordered, passed, processed>>

\* The transaction of a receive commits: with the group's offset in it (auto and
\* exactly_once), and with the work done in it (exactly_once).
commit_received ==
    /\ consumer.alive /\ consumer.tx.open
    /\ consumer' = [consumer EXCEPT !.tx = NoTx]
    /\ committed' = IF consumer.tx.ack # 0 THEN consumer.tx.ack ELSE committed
    /\ processed' = IF consumer.mode = "exactly_once" THEN [processed EXCEPT ![consumer.tx.work] = @ + 1]
                    ELSE processed
    /\ UNCHANGED <<clock, next_row_id, kept, ptx, ever, disordered, skipped, passed>>

\* JmsSession::rollback: the position in memory stays where it is.
rollback_received ==
    /\ consumer.alive /\ consumer.tx.open /\ consumer.mode = "transacted"
    /\ consumer' = [consumer EXCEPT !.tx = NoTx]
    /\ UNCHANGED <<clock, next_row_id, kept, ptx, committed, ever, disordered, skipped, passed, processed>>

\* commit_offset of what a ClientAcknowledge application has received.
commit_offset ==
    /\ consumer.alive /\ consumer.mode = "client" /\ committed # consumer.offset
    /\ committed' = consumer.offset
    /\ UNCHANGED <<clock, next_row_id, kept, ptx, consumer, ever, disordered, skipped, passed, processed>>

\* The consumer's process ends, at any point; its open transaction is gone.
Crash ==
    /\ consumer.alive
    /\ consumer' = [consumer EXCEPT !.alive = FALSE, !.tx = NoTx]
    /\ UNCHANGED <<clock, next_row_id, kept, ptx, committed, ever, disordered, skipped, passed, processed>>

QueueInit ==
    /\ clock = 0 /\ next_row_id = 1 /\ kept = <<>>
    /\ ptx = [p \in Producers |-> Closed]
    /\ \E mode \in Modes : consumer = [mode |-> mode, alive |-> FALSE, offset |-> 1, tx |-> NoTx]
    /\ committed = 0 /\ ever = {} /\ disordered = FALSE /\ skipped = {} /\ passed = {}
    /\ processed = [o \in Offsets |-> 0]

QueueNext ==
    \/ \E p \in Producers : send(p) \/ commit(p) \/ rollback(p)
    \/ QueueRetentionCleaner \/ Tick
    \/ seek_to_beginning \/ seek_to_end \/ rewind(1) \/ (\E ts \in 0..MaxTime : seek_to_timestamp(ts))
    \/ create_consumer \/ receive \/ commit_received \/ rollback_received \/ commit_offset \/ Crash

QueueSpec == QueueInit /\ [][QueueNext]_queueVars

-----------------------------------------------------------------------------

\* A receive never steps over a message that had been committed and that retention
\* took away: it reports OffsetOutOfRange (try_receive_single, purge_queue_retention);
\* as long as messages come and go in the order of their offsets.
TruncationIsReported == ~disordered => skipped = {}

\* What the exactly-once application has put behind it was processed once, crashes and
\* truncations notwithstanding, and nothing is processed twice.
ExactlyOnceUpTo(seen) ==
    consumer.mode = "exactly_once" =>
      /\ \A o \in Offsets : processed[o] <= 1
      /\ \A o \in seen : o < committed /\ o \notin passed => processed[o] = 1

\* Work and group offset commit together (receive_with_tx, commit_offset_with_tx), so a
\* message is processed exactly once, as long as messages come and go in the order of
\* their offsets.
ProcessedExactlyOnce == ~disordered => ExactlyOnceUpTo(ever)

=============================================================================
