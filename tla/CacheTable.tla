---------------------------- MODULE CacheTable ----------------------------
(* A cache table with a time to live, written behind to a backing table.      *)
(*                                                                            *)
(* A cached row carries _expires_at and _dirty.  Clients insert, update,      *)
(* touch and delete; the worker CacheWriteBehindCleaner (or FLUSH WRITE_BACK) *)
(* walks the snapshot of its transaction row by row: an expired row leaves    *)
(* the cache, a dirty one goes to the backing table and is marked clean.  The *)
(* worker ignores an error in the walk and commits what it did before it.     *)
(* put has no first-committer-wins check, so the walk may write a row over a  *)
(* newer version; `overwrote` records that, and the properties are about      *)
(* behaviours in which it did not happen.                                     *)
EXTENDS Integers, Sequences

CONSTANTS CacheKeys,      \* primary keys
          CacheValues,
          Ttl,            \* the table's TTL, in ticks
          MaxNow          \* bound on the clock

ASSUME CacheBounds == {Ttl, MaxNow} \subseteq Nat /\ Ttl > 0

VARIABLES now,
          mode,        \* WRITE_BACK_MODE
          cache,       \* primary key -> cached row
          backing,     \* primary key -> bag of the values of its rows in the backing table
          walk,        \* the transaction of the worker
          promised,    \* primary key -> value and deadline of the last client's write
          overwrote

cacheVars == <<now, mode, cache, backing, walk, promised, overwrote>>

WriteBackModes == {"UPSERT", "DELETE", "BOTH"}
Idle == [open |-> FALSE, at |-> 0, todo |-> {}, rows |-> <<>>, cacheWrites |-> <<>>, backingWrites |-> <<>>]
Gone == [gone |-> TRUE]
Row(v, exp, dirty) == [value |-> v, expires_at |-> exp, dirty |-> dirty]

Over(f, h) == [x \in DOMAIN f \union DOMAIN h |-> IF x \in DOMAIN h THEN h[x] ELSE f[x]]
Minus(f, k) == [x \in DOMAIN f \ {k} |-> f[x]]
Live(k) == k \in DOMAIN cache /\ cache[k].expires_at > now

-----------------------------------------------------------------------------
(* Clients, one committed statement at a time.                                *)

Write(k, row) ==
    /\ cache' = Over(cache, [x \in {k} |-> row])
    /\ promised' = Over(promised, [x \in {k} |-> [value |-> row.value, until |-> row.expires_at]])
    /\ UNCHANGED <<now, mode, backing, walk, overwrote>>

\* INSERT of a key the table does not hold, expired rows included: the primary key
\* index still lists them.
insert(k, v) ==
    /\ k \notin DOMAIN cache
    /\ Write(k, Row(v, now + Ttl, TRUE))

\* UPDATE passes over expired rows, keeps the deadline and marks the row dirty.
update(k, v) ==
    /\ Live(k)
    /\ Write(k, [cache[k] EXCEPT !.value = v, !.dirty = TRUE])

\* TOUCH: a later deadline, and the row is dirty again.
execute_touch(k) ==
    /\ Live(k)
    /\ cache[k].expires_at <= MaxNow    \* bound
    /\ Write(k, Row(cache[k].value, cache[k].expires_at + Ttl, TRUE))

\* DELETE passes over expired rows; nothing is written to the backing table.
delete(k) ==
    /\ Live(k)
    /\ cache' = Minus(cache, k)
    /\ promised' = Minus(promised, k)
    /\ UNCHANGED <<now, mode, backing, walk, overwrote>>

Passes ==
    /\ now < MaxNow
    /\ now' = now + 1
    /\ UNCHANGED <<mode, cache, backing, walk, promised, overwrote>>

-----------------------------------------------------------------------------
(* The walk, and PURGE EXPIRED.                                               *)

DeletesBacking == mode \in {"DELETE", "BOTH"}

\* The time and the rows are those of the beginning of the walk.
flush_cache_write_back ==
    /\ ~walk.open /\ cache # <<>>
    /\ walk' = [open |-> TRUE, at |-> now, todo |-> DOMAIN cache, rows |-> cache,
                cacheWrites |-> <<>>, backingWrites |-> <<>>]
    /\ UNCHANGED <<now, mode, cache, backing, promised, overwrote>>

\* The backing table the walk sees: its own writes over what is committed.  Only walks
\* write to it here.
Backing(w) == Over(backing, w.backingWrites)

delete_matching_target_row(w, k) ==
    [w EXCEPT !.backingWrites = Over(@, [x \in {k} |-> <<>>])]

\* The row with the key gets the cached value, or a new row is inserted.
upsert_into_target_table(w, k, v) ==
    LET old == IF k \in DOMAIN Backing(w) THEN Backing(w)[k] ELSE <<>>
    IN [w EXCEPT !.backingWrites =
            Over(@, [x \in {k} |-> IF old = <<>> THEN <<v>> ELSE [old EXCEPT ![1] = v]])]

CacheWrite(w, k, row) == [w EXCEPT !.cacheWrites = Over(@, [x \in {k} |-> row])]

\* A plausible slip: the row is marked clean first; the second half may fail.
DirtyRow_clean_first(w, k) ==
    LET clean == CacheWrite(w, k, [w.rows[k] EXCEPT !.dirty = FALSE])
    IN <<clean, upsert_into_target_table(clean, k, w.rows[k].value)>>

\* The states of the transaction on the way of a dirty row, in order.
DirtyRow(w, k) ==
    LET stored == upsert_into_target_table(w, k, w.rows[k].value)
    IN <<stored, CacheWrite(stored, k, [w.rows[k] EXCEPT !.dirty = FALSE])>>

ExpiredRow(w, k) ==
    LET deleted == IF DeletesBacking THEN delete_matching_target_row(w, k) ELSE w
    IN <<deleted, CacheWrite(deleted, k, Gone)>>

Expired(row, at) == row.expires_at <= at

Way(w, k) ==
    IF Expired(w.rows[k], w.at) THEN ExpiredRow(w, k)
    ELSE IF w.rows[k].dirty THEN DirtyRow(w, k)
    ELSE <<w>>

\* One row of the walk, in the order of row ids, which is any order of the keys; or an error
\* on the way (a lock that times out, an I/O error), which ends the walk with what was
\* written before it.
flush_row ==
    /\ walk.open
    /\ \E k \in walk.todo :
         LET way == Way(walk, k)
         IN \/ walk' = [way[Len(way)] EXCEPT !.todo = walk.todo \ {k}]
            \/ walk' = [walk EXCEPT !.todo = {}]
            \/ Len(way) = 2 /\ walk' = [way[1] EXCEPT !.todo = {}]
    /\ UNCHANGED <<now, mode, cache, backing, promised, overwrote>>

\* The worker commits, after an error too.
commit_walk ==
    /\ walk.open /\ walk.todo = {}
    /\ LET left == {k \in DOMAIN cache \union DOMAIN walk.cacheWrites :
                      k \in DOMAIN walk.cacheWrites => walk.cacheWrites[k] # Gone}
           merged == Over(cache, walk.cacheWrites)
           written == DOMAIN walk.cacheWrites \union DOMAIN walk.backingWrites
           stale == {k \in written : k \notin DOMAIN cache \/ cache[k] # walk.rows[k]}
       IN /\ cache' = [k \in left |-> merged[k]]
          /\ overwrote' = (overwrote \/ stale # {})
    /\ backing' = Over(backing, walk.backingWrites)
    /\ walk' = Idle
    /\ UNCHANGED <<now, mode, promised>>

\* PURGE EXPIRED: expired rows go, dirty or not; one statement.
purge_cache_expired ==
    LET old == {k \in DOMAIN cache : Expired(cache[k], now)}
    IN /\ old # {}
       /\ cache' = [k \in DOMAIN cache \ old |-> cache[k]]
       /\ backing' = IF DeletesBacking THEN Over(backing, [k \in old |-> <<>>]) ELSE backing
       /\ UNCHANGED <<now, mode, walk, promised, overwrote>>

CacheInit ==
    /\ now = 0 /\ mode \in WriteBackModes
    /\ cache = <<>> /\ backing = <<>> /\ walk = Idle /\ promised = <<>> /\ overwrote = FALSE

CacheNext ==
    \/ \E k \in CacheKeys, v \in CacheValues : insert(k, v) \/ update(k, v)
    \/ \E k \in CacheKeys : execute_touch(k) \/ delete(k)
    \/ Passes \/ flush_cache_write_back \/ flush_row \/ commit_walk \/ purge_cache_expired

CacheSpec == CacheInit /\ [][CacheNext]_cacheVars

-----------------------------------------------------------------------------

\* A live row marked clean is in the backing table, once, with its value: also when a walk
\* failed half way and its transaction was committed all the same.  And what a client wrote
\* can be read until its deadline, whatever is flushed, purged or touched meanwhile
\* (flush_cache_write_back, CacheWriteBehindCleaner, purge_cache_expired, execute_touch).
CacheKeepsWhatItOwes ==
    overwrote \/
      /\ \A k \in CacheKeys : Live(k) /\ ~cache[k].dirty =>
           k \in DOMAIN backing /\ backing[k] = <<cache[k].value>>
      /\ \A k \in DOMAIN promised : promised[k].until > now =>
           Live(k) /\ cache[k].value = promised[k].value
=============================================================================
