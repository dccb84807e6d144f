----------------------------- MODULE SqlTables -----------------------------
(***************************************************************************)
(* Data changes of h2-sql: INSERT, UPDATE, DELETE, MERGE, COPY, TRUNCATE   *)
(* and CREATE/DROP INDEX of executor/statement.rs with the foreign keys of *)
(* executor/foreign_key.rs, run by connections of h2/src/lib.rs in         *)
(* auto-commit mode or in transactions of their own.                       *)
(*                                                                         *)
(* A parent table P and a child table C whose column f references P.k.     *)
(* Both have the unique index "pk" on k; "fk" on C.f comes and goes. A map *)
(* of the store is the set of its keys: <<t, "row", id>> holds a row,      *)
(* <<t, i, value, id>> is an entry of index i. A transaction reads its     *)
(* snapshot with its own writes on top and locks what it writes; a row is  *)
(* one step, the checks of the row and its writes included.                *)
(***************************************************************************)
EXTENDS Integers, Sequences, FiniteSets

CONSTANTS
    Sessions,
    Values,          \* of the columns
    Null,            \* no value
    MaxStatements    \* bound on the statements

ASSUME SqlTablesAssumption == MaxStatements \in Nat /\ IsFiniteSet(Values) /\ Null \notin Values

Tables == {"P", "C"}
Actions == {"restrict", "cascade", "setnull"}

VARIABLES
    db,          \* the committed maps
    next_row_id, \* table: of its definition in the catalog
    indexes,     \* table: the indexes the catalog knows
    fk,          \* the action of the foreign key C.f -> P.k, on delete and update
    sess,        \* session: its transaction and the statement it runs
    excused,     \* what has gone by that the checks do not cover
    statements

vars == <<db, next_row_id, indexes, fk, sess, excused, statements>>

Deleted == [deleted |-> TRUE]
Empty == [x \in {} |-> Null]
NoStmt == [kind |-> "none", t |-> "P", todo |-> <<>>, set |-> Null, col |-> "k", on |-> "error", seen |-> {}, def |-> 0]
Idle == [tx |-> "none", auto |-> FALSE, snap |-> Empty, w |-> Empty, failed |-> FALSE, overlaps |-> FALSE, builds |-> FALSE, stmt |-> NoStmt]

----------------------------------------------------------------------------
(* Maps, rows and index keys. *)

Overlay(m, w) ==
    [x \in (DOMAIN m \cup DOMAIN w) \ {y \in DOMAIN w : w[y] = Deleted} |-> IF x \in DOMAIN w THEN w[x] ELSE m[x]]

RowKey(t, id) == <<t, "row", id>>
EntryKey(t, i, v, id) == <<t, i, v, id>>

scan_visible(m, t) == {x \in DOMAIN m : x[1] = t /\ x[2] = "row"}
Row(m, t, id) == m[RowKey(t, id)]
Ids(m, t) == {x[3] : x \in scan_visible(m, t)}

get_index_values(i, row) == IF i = "pk" THEN row.k ELSE row.f
encode_index_key(t, i, row, id) == EntryKey(t, i, get_index_values(i, row), id)
IndexKeys(t, row, id) == {encode_index_key(t, i, row, id) : i \in indexes[t]}

\* The rows an index lookup finds: the entry, and then the row it names.
scan_prefix_visible(m, t, i, v) == {id \in Ids(m, t) : EntryKey(t, i, v, id) \in DOMAIN m}

Put(keys, row) == [x \in keys |-> IF x[2] = "row" THEN row ELSE [entry |-> TRUE]]
Remove(keys) == [x \in keys |-> Deleted]
Then(w1, w2) == [x \in DOMAIN w1 \cup DOMAIN w2 |-> IF x \in DOMAIN w2 THEN w2[x] ELSE w1[x]]

\* Two parents have been inserted, and a child of the first.
Init ==
    /\ \E v, o \in Values : v # o /\ db =
        Then(Put({RowKey("P", 1), EntryKey("P", "pk", v, 1)}, [k |-> v, f |-> Null]),
          Then(Put({RowKey("P", 2), EntryKey("P", "pk", o, 2)}, [k |-> o, f |-> Null]),
               Put({RowKey("C", 1), EntryKey("C", "pk", v, 1)}, [k |-> v, f |-> v])))
    /\ next_row_id = [t \in Tables |-> IF t = "P" THEN 3 ELSE 2]
    /\ indexes = [t \in Tables |-> {"pk"}]
    /\ fk \in Actions
    /\ sess = [s \in Sessions |-> Idle]
    /\ excused = {} /\ statements = 0

InsertWrites(t, row, id) == Put(IndexKeys(t, row, id) \cup {RowKey(t, id)}, row)
DeleteWrites(t, row, id) == Remove(IndexKeys(t, row, id) \cup {RowKey(t, id)})
UpdateWrites_keeps_old(t, old, new, id) == InsertWrites(t, new, id)
\* Entries of changed values are replaced, and the row is written.
UpdateWrites(t, old, new, id) ==
    Then(Remove(IndexKeys(t, old, id) \ IndexKeys(t, new, id)), InsertWrites(t, new, id))

----------------------------------------------------------------------------
(* Foreign keys. *)

validate_foreign_keys_for_row(m, t, row) ==
    t = "P" \/ row.f = Null \/ \E id \in Ids(m, "P") : Row(m, "P", id).k = row.f

Children(m, v) == {id \in Ids(m, "C") : v # Null /\ Row(m, "C", id).f = v}
\* The writes of all children, each of keys of its own.
Merged(f, ids) == [x \in UNION {DOMAIN f[id] : id \in ids} |-> f[CHOOSE id \in ids : x \in DOMAIN f[id]][x]]

\* What happens to the children that reference a value; restrict refuses.
handle_foreign_keys_on_delete_first(m, row) ==
    LET ids == IF Children(m, row.k) = {} THEN {} ELSE {CHOOSE id \in Children(m, row.k) : TRUE}
    IN  [refused |-> fk = "restrict" /\ ids # {},
         writes |-> Merged([id \in ids |-> IF fk = "cascade" THEN DeleteWrites("C", Row(m, "C", id), id)
                            ELSE UpdateWrites("C", Row(m, "C", id), [Row(m, "C", id) EXCEPT !.f = Null], id)], ids)]
handle_foreign_keys_on_delete(m, row) ==
    LET ids == Children(m, row.k)
    IN  [refused |-> fk = "restrict" /\ ids # {},
         writes |-> Merged([id \in ids |-> IF fk = "cascade" THEN DeleteWrites("C", Row(m, "C", id), id)
                            ELSE UpdateWrites("C", Row(m, "C", id), [Row(m, "C", id) EXCEPT !.f = Null], id)], ids)]

handle_foreign_keys_on_update(m, old, new) ==
    LET ids == IF old.k = new.k THEN {} ELSE Children(m, old.k)
        to  == IF fk = "cascade" THEN new.k ELSE Null
    IN  [refused |-> fk = "restrict" /\ ids # {},
         writes |-> Merged([id \in ids |-> UpdateWrites("C", Row(m, "C", id), [Row(m, "C", id) EXCEPT !.f = to], id)], ids)]

NoCascade == [refused |-> FALSE, writes |-> Empty]
OnDelete(m, t, row) == IF t = "P" THEN handle_foreign_keys_on_delete(m, row) ELSE NoCascade
OnUpdate(m, t, old, new) == IF t = "P" THEN handle_foreign_keys_on_update(m, old, new) ELSE NoCascade

\* A unique value that another row has.
Duplicate(m, t, v, id) == v # Null /\ scan_prefix_visible(m, t, "pk", v) \ {id} # {}

----------------------------------------------------------------------------
(* One row of a statement: the error it meets, its writes and the row ids   *)
(* it allocates.                                                            *)

Ok(w) == [error |-> FALSE, writes |-> w, ids |-> 0]
Error(w) == [error |-> TRUE, writes |-> w, ids |-> 0]

Inserted(t, row) == [error |-> FALSE, writes |-> InsertWrites(t, row, next_row_id[t]), ids |-> 1]

\* An update with its checks; cascades have been done when a check fails.
Updated(m, t, id, new) ==
    LET old == Row(m, t, id)
        cascade == OnUpdate(m, t, old, new)
    IN  IF cascade.refused THEN Error(Empty)
        ELSE IF ~validate_foreign_keys_for_row(Overlay(m, cascade.writes), t, new) THEN Error(cascade.writes)
        ELSE IF new.k # old.k /\ Duplicate(m, t, new.k, id) THEN Error(cascade.writes)
        ELSE Ok(Then(cascade.writes, UpdateWrites(t, old, new, id)))

\* ON DUPLICATE KEY UPDATE and MERGE: the same without the unique check.
Overwritten(m, t, id, old, new) ==
    LET cascade == OnUpdate(m, t, old, new)
    IN  IF cascade.refused \/ ~validate_foreign_keys_for_row(Overlay(m, cascade.writes), t, new) THEN Error(cascade.writes)
        ELSE Ok(Then(cascade.writes, UpdateWrites(t, old, new, id)))

Removed(m, t, id) ==
    LET row == Row(m, t, id)
        cascade == OnDelete(m, t, row)
    IN  IF cascade.refused THEN Error(Empty) ELSE Ok(Then(cascade.writes, DeleteWrites(t, row, id)))

\* INSERT: the foreign keys, then the unique indexes, then ON CONFLICT.
insert_row(m, st, row) ==
    LET conflicts == IF row.k = Null THEN {} ELSE scan_prefix_visible(m, st.t, "pk", row.k)
        id == CHOOSE x \in conflicts : TRUE
    IN  IF ~validate_foreign_keys_for_row(m, st.t, row) THEN Error(Empty)
        ELSE IF conflicts = {} THEN Inserted(st.t, row)
        ELSE IF st.on = "error" THEN Error(Empty)
        ELSE IF st.on = "nothing" THEN Ok(Empty)
        ELSE IF st.on = "update" THEN Updated(m, st.t, id, [Row(m, st.t, id) EXCEPT !.f = row.f])
        ELSE Overwritten(m, st.t, id, Row(m, st.t, id), [Row(m, st.t, id) EXCEPT !.k = st.set])

Assigned(st, row) == IF st.col = "k" THEN [row EXCEPT !.k = st.set] ELSE [row EXCEPT !.f = st.set]

update_row(m, st, id) == Updated(m, st.t, id, Assigned(st, Row(m, st.t, id)))
delete_row(m, st, id) == Removed(m, st.t, id)

\* MERGE INTO C USING P ON C.f = P.k: a match is updated, a parent without a
\* child gets one. Matches are looked for among the rows found at the start.
merge_row(m, st, p) ==
    LET matches == {e \in st.seen : e.row.f = p.k}
        e == CHOOSE x \in matches : TRUE
        new == [k |-> p.k, f |-> p.k]
    IN  IF matches # {} THEN Overwritten(m, "C", e.id, e.row, [e.row EXCEPT !.k = st.set])
        ELSE IF validate_foreign_keys_for_row(m, "C", new) THEN Inserted("C", new) ELSE Error(Empty)

\* COPY FROM checks nothing.
copy_row(m, st, row) == Inserted(st.t, row)

\* CREATE INDEX loads the rows that are visible to its transaction.
index_row(m, st, id) == Ok(Put({EntryKey(st.t, "fk", Row(m, st.t, id).f, id)}, Null))

StatementRow(m, st) ==
    LET item == Head(st.todo)
    IN  CASE st.kind = "insert" -> insert_row(m, st, item)
          [] st.kind = "update" -> update_row(m, st, item)
          [] st.kind = "delete" -> delete_row(m, st, item)
          [] st.kind = "merge" -> merge_row(m, st, item)
          [] st.kind = "copy" -> copy_row(m, st, item)
          [] st.kind = "create_index" -> index_row(m, st, item)

----------------------------------------------------------------------------
(* Sessions. *)

View(s) == Overlay(sess[s].snap, sess[s].w)
Begun(auto) == [Idle EXCEPT !.tx = "open", !.auto = auto, !.snap = db]

begin(s) ==
    /\ sess[s].tx = "none" /\ statements < MaxStatements
    /\ sess' = [sess EXCEPT ![s] = Begun(FALSE)]
    /\ UNCHANGED <<db, next_row_id, indexes, fk, excused, statements>>

\* execute_with_user: a session without a transaction gets one for the statement.
Opened(s) == IF sess[s].tx = "none" THEN Begun(TRUE) ELSE sess[s]
Sees(s) == Overlay(Opened(s).snap, Opened(s).w)
Others(s) == {o \in Sessions \ {s} : sess[o].tx = "open"}

Orders(S) == {q \in [1 .. Cardinality(S) -> S] : \A i, j \in DOMAIN q : q[i] = q[j] => i = j}

Start(s, st, todo) ==
    /\ sess[s].tx \in {"none", "open"} /\ sess[s].stmt.kind = "none" /\ statements < MaxStatements
    /\ statements' = statements + 1
    /\ sess' = [sess EXCEPT ![s] = [Opened(s) EXCEPT !.builds = @ \/ st.kind = "create_index", !.stmt = [st EXCEPT !.todo = todo,
                   !.seen = {[id |-> id, row |-> Row(Sees(s), "C", id)] : id \in IF st.kind = "merge" THEN Ids(Sees(s), "C") ELSE {}}]]]
    /\ UNCHANGED <<db, next_row_id, fk>>

Rows(t) == {[k |-> v, f |-> r] : v \in Values, r \in IF t = "C" THEN Values \cup {Null} ELSE {Null}}

\* The rows of an INSERT: one, or two with the same reference.
RowLists(t) == {<<r>> : r \in Rows(t)} \cup {q \in Rows(t) \X Rows(t) : q[1].f = q[2].f}

insert(s) == \E t \in Tables, on \in {"error", "nothing", "update", "duplicate"}, v \in Values \cup {Null} :
    \E rows \in RowLists(t) :
        /\ Len(rows) = 2 => on = "error" /\ t = "C" /\ rows[1].f = Null
        /\ on \in {"nothing", "duplicate"} => rows[1].f = Null
        /\ v = Null <=> on # "duplicate"
        /\ Start(s, [NoStmt EXCEPT !.kind = "insert", !.t = t, !.on = on, !.set = v], rows)
        /\ excused' = excused \cup IF on = "duplicate" THEN {"unchecked"} ELSE {}
        /\ UNCHANGED indexes

\* The rows are found through the index when the condition is on its column.
Found(m, t, v) == IF v = Null THEN Ids(m, t) ELSE scan_prefix_visible(m, t, "pk", v)

update(s) == \E t \in Tables, col \in {"k", "f"}, v \in Values, where \in Values :
    \E order \in Orders(Found(Sees(s), t, where)) :
        /\ col = "f" => t = "C"
        /\ Start(s, [NoStmt EXCEPT !.kind = "update", !.t = t, !.col = col, !.set = v], order)
        /\ UNCHANGED <<indexes, excused>>

delete(s) == \E t \in Tables, where \in Values \cup {Null} :
    \E order \in Orders(Found(Sees(s), t, where)) :
        /\ Start(s, [NoStmt EXCEPT !.kind = "delete", !.t = t], order)
        /\ UNCHANGED <<indexes, excused>>

merge(s) == \E v \in Values, order \in Orders({Row(Sees(s), "P", id) : id \in Ids(Sees(s), "P")}) :
    /\ Start(s, [NoStmt EXCEPT !.kind = "merge", !.t = "C", !.set = v], order)
    /\ excused' = excused \cup {"unchecked"}
    /\ UNCHANGED indexes

copy(s) == \E r \in Rows("C") :
    /\ Start(s, [NoStmt EXCEPT !.kind = "copy", !.t = "C"], <<r>>)
    /\ excused' = excused \cup {"unchecked"}
    /\ UNCHANGED indexes

\* The catalog has the index before its entries are written.
create_index(s) ==
    /\ "fk" \notin indexes["C"]
    /\ \E order \in Orders(Ids(Sees(s), "C")) : Start(s, [NoStmt EXCEPT !.kind = "create_index", !.t = "C"], order)
    /\ indexes' = [indexes EXCEPT !["C"] = @ \cup {"fk"}]
    /\ excused' = excused \cup IF Others(s) # {} \/ Opened(s).overlaps THEN {"overlap"} ELSE {}

Without(m, gone(_)) == [x \in {y \in DOMAIN m : ~gone(y)} |-> m[x]]

\* The map is removed for everyone at once.
drop_index(s) ==
    LET gone(x) == x[1] = "C" /\ x[2] = "fk"
    IN  /\ sess[s].tx = "none" /\ statements < MaxStatements /\ "fk" \in indexes["C"]
        /\ \A o \in Sessions : sess[o].stmt.kind = "none"
        /\ statements' = statements + 1
        /\ indexes' = [indexes EXCEPT !["C"] = @ \ {"fk"}]
        /\ db' = Without(db, gone)
        /\ sess' = [o \in Sessions |-> [sess[o] EXCEPT !.snap = Without(@, gone), !.w = Without(@, gone)]]
        /\ UNCHANGED <<next_row_id, fk, excused>>

\* TRUNCATE clears the maps of the table at once, and its row ids start again.
truncate(s) == \E t \in Tables :
    LET gone(x) == x[1] = t
    IN  /\ sess[s].tx = "none" /\ statements < MaxStatements
        /\ t = "P" => Ids(db, "C") = {}
        /\ \A o \in Sessions : sess[o].stmt.kind = "none"
        /\ statements' = statements + 1
        /\ db' = Without(db, gone)
        /\ sess' = [o \in Sessions |-> [sess[o] EXCEPT !.snap = Without(@, gone), !.w = Without(@, gone)]]
        /\ next_row_id' = [next_row_id EXCEPT ![t] = 1]
        /\ excused' = excused \cup IF Others(s) # {} THEN {"overlap"} ELSE {}
        /\ UNCHANGED <<indexes, fk>>

Locked(s, w) == {x \in DOMAIN w : \E o \in Others(s) : x \in DOMAIN sess[o].w}
Running(s) == sess[s].tx = "open" /\ sess[s].stmt.kind # "none"
Result(s) == StatementRow(View(s), sess[s].stmt)

row_done(s) ==
    /\ Running(s) /\ sess[s].stmt.todo # <<>>
    /\ LET r == Result(s)
       IN  /\ ~r.error /\ Locked(s, r.writes) = {}
           /\ sess' = [sess EXCEPT ![s].w = Then(@, r.writes), ![s].stmt.todo = Tail(@)]
           /\ next_row_id' = [next_row_id EXCEPT ![sess[s].stmt.t] = @ + r.ids]
    /\ UNCHANGED <<db, indexes, fk, excused, statements>>

\* The statement fails: a transaction of its own is rolled back, another one
\* stays open with what the statement has written.
Failed(s, w) ==
    /\ sess' = [sess EXCEPT ![s] = IF @.auto THEN Idle ELSE [@ EXCEPT !.w = w, !.failed = TRUE, !.stmt = NoStmt]]
    /\ excused' = excused \cup IF sess[s].builds THEN {"torn"} ELSE {}
    /\ UNCHANGED <<db, next_row_id, indexes, fk, statements>>

row_refused(s) ==
    /\ Running(s) /\ sess[s].stmt.todo # <<>>
    /\ LET r == Result(s)
       IN  r.error /\ Locked(s, r.writes) = {} /\ Failed(s, Then(sess[s].w, r.writes))

\* A lock is not released in time; index entries may have been written before.
lock_timeout(s) ==
    /\ Running(s) /\ sess[s].stmt.todo # <<>>
    /\ LET w == Result(s).writes
           held == Locked(s, w)
           free == {x \in DOMAIN w \ held : x[2] # "row"}
       IN  held # {} /\ \E kept \in {{}, free} : Failed(s, Then(sess[s].w, [x \in kept |-> w[x]]))

\* The session that closes a cycle of waits is rolled back; its transaction is
\* of no use any more.
deadlock(s) ==
    /\ Running(s) /\ sess[s].stmt.todo # <<>>
    /\ \E o \in Sessions \ {s} :
        /\ Running(o) /\ sess[o].stmt.todo # <<>>
        /\ Locked(s, Result(s).writes) \cap DOMAIN sess[o].w # {}
        /\ Locked(o, Result(o).writes) \cap DOMAIN sess[s].w # {}
    /\ sess' = [sess EXCEPT ![s] = IF @.auto THEN Idle ELSE [Idle EXCEPT !.tx = "closed"]]
    /\ excused' = excused \cup IF sess[s].builds THEN {"torn"} ELSE {}
    /\ UNCHANGED <<db, next_row_id, indexes, fk, statements>>

\* update_approx_row_count of INSERT and DELETE takes a copy of the definition
\* and writes it back, the row id counter included.
Counted(s) == sess[s].stmt.kind \in {"insert", "delete"}
approx_get(s) ==
    /\ Running(s) /\ sess[s].stmt.todo = <<>> /\ Counted(s) /\ sess[s].stmt.def = 0
    /\ sess' = [sess EXCEPT ![s].stmt.def = next_row_id[sess[s].stmt.t]]
    /\ UNCHANGED <<db, next_row_id, indexes, fk, excused, statements>>
approx_put(s) ==
    LET t == sess[s].stmt.t
        def == sess[s].stmt.def
    IN  /\ Running(s) /\ Counted(s) /\ def # 0
        /\ next_row_id' = [next_row_id EXCEPT ![t] = def]
        /\ excused' = excused \cup IF def < next_row_id[t] THEN {"regressed"} ELSE {}
        /\ sess' = [sess EXCEPT ![s].stmt = [NoStmt EXCEPT !.kind = "done"]]
        /\ UNCHANGED <<db, indexes, fk, statements>>

\* The commit of a transaction; others that are open have overlapped with it.
Committed(s) ==
    LET wrote == DOMAIN sess[s].w # {}
    IN  /\ db' = Overlay(db, sess[s].w)
        /\ sess' = [o \in Sessions |-> IF o = s THEN Idle ELSE [sess[o] EXCEPT !.overlaps = @ \/ (wrote /\ sess[o].tx = "open")]]
        /\ excused' = excused \cup (IF wrote /\ sess[s].overlaps THEN {"overlap"} ELSE {})
                              \cup (IF wrote /\ sess[s].failed THEN {"torn"} ELSE {})
        /\ UNCHANGED <<next_row_id, indexes, fk, statements>>

\* The end of a statement: auto-commit, or on with the transaction.
statement_end(s) ==
    /\ Running(s) /\ sess[s].stmt.todo = <<>> /\ ~Counted(s)
    /\ \/ sess[s].auto /\ Committed(s)
       \/ /\ ~sess[s].auto
          /\ sess' = [sess EXCEPT ![s].stmt = NoStmt]
          /\ UNCHANGED <<db, next_row_id, indexes, fk, excused, statements>>

commit(s) == sess[s].tx = "open" /\ ~sess[s].auto /\ sess[s].stmt.kind = "none" /\ Committed(s)

\* Also the COMMIT of a transaction that a deadlock has closed.
rollback(s) ==
    /\ sess[s].tx \in {"open", "closed"} /\ ~sess[s].auto /\ sess[s].stmt.kind = "none"
    /\ sess' = [sess EXCEPT ![s] = Idle]
    /\ excused' = excused \cup IF sess[s].builds THEN {"torn"} ELSE {}
    /\ UNCHANGED <<db, next_row_id, indexes, fk, statements>>

----------------------------------------------------------------------------
Statement(s) ==
    \/ insert(s) \/ update(s) \/ delete(s) \/ merge(s) \/ copy(s)
    \/ create_index(s) \/ drop_index(s) \/ truncate(s)
Step(s) ==
    \/ row_done(s) \/ row_refused(s) \/ lock_timeout(s) \/ deadlock(s)
    \/ approx_get(s) \/ approx_put(s) \/ statement_end(s)

Next == \E s \in Sessions : begin(s) \/ Statement(s) \/ Step(s) \/ commit(s) \/ rollback(s)

Spec == Init /\ [][Next]_vars

----------------------------------------------------------------------------
(* Properties. *)

\* The indexes of a table that no open transaction is still building.
Built(t) == IF \E s \in Sessions : sess[s].builds THEN {"pk"} ELSE indexes[t]
IndexExact(m, t) ==
    {x \in DOMAIN m : x[1] = t /\ x[2] \in Built(t)} =
        {encode_index_key(t, i, Row(m, t, id), id) : i \in Built(t), id \in Ids(m, t)}
UniqueKeys(m, t) == \A a, b \in Ids(m, t) : Row(m, t, a).k = Row(m, t, b).k => a = b
References(m) == \A id \in Ids(m, "C") : validate_foreign_keys_for_row(m, "C", Row(m, "C", id))

\* Index lookups find exactly the rows a scan finds: the entries of every index
\* are those of the committed rows, through INSERT, upserts, UPDATE, DELETE,
\* cascades, MERGE, COPY, CREATE INDEX and TRUNCATE, unless transactions that
\* wrote overlapped, an index was created beside other transactions or from an
\* outdated snapshot or its creation rolled back, a failed statement was
\* committed or a row id came back.
IndexesMatchRows == excused \subseteq {"unchecked"} => \A t \in Tables : IndexExact(db, t)

\* Primary keys stay unique and every child has its parent, whatever the foreign
\* key's actions do, as long as nothing has gone by that statement.rs leaves
\* unchecked.
ConstraintsHold == excused = {} => (\A t \in Tables : UniqueKeys(db, t)) /\ References(db)
=============================================================================
