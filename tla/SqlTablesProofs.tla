-------------------------- MODULE SqlTablesProofs --------------------------
(***************************************************************************)
(* Proofs about data changes, for any connections, column values and       *)
(* number of statements, and each action of the foreign key: the entries   *)
(* of the indexes are those of the committed rows, and keys stay unique    *)
(* and children keep their parents.                                        *)
(*                                                                         *)
(* Neither is inductive by itself, for a statement writes to its           *)
(* transaction and the committed maps change when that commits. The        *)
(* invariants therefore speak of every view: of the committed maps, and    *)
(* of what each open transaction would commit, its snapshot with its       *)
(* writes on top (ViewOK, SoundSession), as long as nothing has overlapped *)
(* it and no statement of it has failed (Fine). CREATE INDEX fills the     *)
(* index row by row: the rows it has not come to are hidden from the       *)
(* index. A statement keeps the rows it has still to do, and these are     *)
(* rows of its view (StmtOK), which is what its later steps rely on.       *)
(*                                                                         *)
(* Whatever a row of a statement does is a Plan: one row of a table goes   *)
(* from what it was to a new row or to none, and children of it to theirs, *)
(* each with its entries. Both invariants are kept by every plan that the  *)
(* checks of the statement let through.                                    *)
(***************************************************************************)
EXTENDS SqlTables, FiniteSetTheorems, SequenceTheorems, TLAPS

----------------------------------------------------------------------------
(* Maps, relative to the row id counters n and the indexes ix of the       *)
(* catalog.                                                                *)

V0 == Values \cup {Null}
Bound(n, t) == 1 .. (n[t] - 1)
KeyOf(x, t, id, ix) == x = RowKey(t, id) \/ \E i \in ix[t], v \in V0 : x = EntryKey(t, i, v, id)
IsKey(x, n, ix) == \E t \in Tables : \E id \in Bound(n, t) : KeyOf(x, t, id, ix)
HasRow(m, t, id) == RowKey(t, id) \in DOMAIN m

\* A map of the store, and the writes of a transaction.
IsMap(m, n, ix) ==
    /\ m = [x \in DOMAIN m |-> m[x]]
    /\ \A x \in DOMAIN m : IsKey(x, n, ix)
    /\ \A t \in Tables : \A id \in Nat : HasRow(m, t, id) => Row(m, t, id) \in Rows(t)
IsWrites(w, n, ix) ==
    /\ w = [x \in DOMAIN w |-> w[x]]
    /\ \A x \in DOMAIN w : IsKey(x, n, ix)
    /\ \A t \in Tables : \A id \in Nat : HasRow(w, t, id) => Row(w, t, id) \in Rows(t) \cup {Deleted}

\* The entries of index i are those of the rows, the hidden rows left out.
Indexed(m, t, i, hidden) == \A id \in Nat : \A v \in V0 :
    EntryKey(t, i, v, id) \in DOMAIN m <=>
        HasRow(m, t, id) /\ id \notin hidden /\ v = get_index_values(i, Row(m, t, id))

ShapeOK(n, ix) ==
    /\ n \in [Tables -> Nat \ {0}]
    /\ ix \in [Tables -> SUBSET {"pk", "fk"}] /\ ix["P"] = {"pk"} /\ "pk" \in ix["C"]

----------------------------------------------------------------------------
(* Keys, rows and maps. *)

\* What a key says.
LEMMA KeyParts ==
    /\ \A t, id : RowKey(t, id)[1] = t /\ RowKey(t, id)[2] = "row" /\ RowKey(t, id)[3] = id
    /\ \A t, i, v, id : EntryKey(t, i, v, id)[1] = t /\ EntryKey(t, i, v, id)[2] = i
                            /\ EntryKey(t, i, v, id)[3] = v /\ EntryKey(t, i, v, id)[4] = id
BY DEF RowKey, EntryKey

\* Rows and entries have keys of their own.
LEMMA KeysDiffer ==
    /\ \A t, id, u, jd : RowKey(t, id) = RowKey(u, jd) <=> t = u /\ id = jd
    /\ \A t, i, v, id, u, j, x, jd : EntryKey(t, i, v, id) = EntryKey(u, j, x, jd) <=> t = u /\ i = j /\ v = x /\ id = jd
    /\ \A t, id, u, i, v, jd : i # "row" => RowKey(t, id) # EntryKey(u, i, v, jd)
BY KeyParts

\* Rows are neither the mark of a deletion nor without a key.
LEMMA RowParts ==
    ASSUME NEW t \in Tables, NEW r \in Rows(t)
    PROVE  /\ r # Deleted /\ r.k \in Values /\ r.f \in V0
           /\ t = "P" => r.f = Null
           /\ r = [k |-> r.k, f |-> r.f]
           /\ \A v \in Values : [r EXCEPT !.k = v] \in Rows(t) /\ [r EXCEPT !.k = v].k = v /\ [r EXCEPT !.k = v].f = r.f
BY DEF Rows, V0, Deleted, Tables

\* A child may be given another parent, or none.
LEMMA RowWithF ==
    ASSUME NEW r \in Rows("C"), NEW v \in V0
    PROVE  [r EXCEPT !.f = v] \in Rows("C") /\ [r EXCEPT !.f = v].f = v /\ [r EXCEPT !.f = v].k = r.k
BY DEF Rows, V0

\* An entry is not the mark of a deletion.
LEMMA EntryValue == [entry |-> TRUE] # Deleted
BY DEF Deleted

\* An index has values of the columns.
LEMMA IndexValue ==
    ASSUME NEW t \in Tables, NEW r \in Rows(t), NEW i \in {"pk", "fk"}
    PROVE  get_index_values(i, r) \in V0
BY RowParts DEF get_index_values, V0

\* A scan of a table finds its rows, and only ids the counter has given out.
LEMMA IdsAreRows ==
    ASSUME NEW n, NEW ix, ShapeOK(n, ix), NEW m, IsMap(m, n, ix), NEW t \in Tables, NEW id
    PROVE  /\ id \in Ids(m, t) <=> id \in Nat /\ HasRow(m, t, id)
           /\ id \in Ids(m, t) => id \in Bound(n, t) /\ Row(m, t, id) \in Rows(t)
<1>1. ASSUME id \in Ids(m, t)
      PROVE  id \in Nat /\ HasRow(m, t, id) /\ id \in Bound(n, t) /\ Row(m, t, id) \in Rows(t)
  <2>1. PICK x \in DOMAIN m : x[1] = t /\ x[2] = "row" /\ id = x[3]
    BY <1>1 DEF Ids, scan_visible
  <2>2. PICK u \in Tables : \E jd \in Bound(n, u) : KeyOf(x, u, jd, ix)
    BY DEF IsMap, IsKey
  <2>b. PICK jd \in Bound(n, u) : KeyOf(x, u, jd, ix)
    BY <2>2
  <2>3. x = RowKey(u, jd)
    <3>1. ASSUME NEW i \in ix[u], NEW v \in V0, x = EntryKey(u, i, v, jd) PROVE FALSE
      BY <3>1, <2>1, KeyParts DEF ShapeOK
    <3>2. QED
      BY <3>1, <2>b DEF KeyOf
  <2>4. u = t /\ jd = id
    BY <2>1, <2>3, KeyParts
  <2>5. n[t] \in Int
    BY DEF ShapeOK
  <2>6. QED
    BY <2>1, <2>3, <2>4, <2>5 DEF HasRow, IsMap, Bound
<1>2. ASSUME id \in Nat, HasRow(m, t, id) PROVE id \in Ids(m, t)
  BY <1>2, KeyParts DEF HasRow, Ids, scan_visible
<1>3. QED
  BY <1>1, <1>2

\* A key names a table and an id the counter has given out.
LEMMA KeyInBound ==
    ASSUME NEW n, NEW ix, ShapeOK(n, ix), NEW x, IsKey(x, n, ix), NEW t, NEW id,
           x = RowKey(t, id) \/ \E i \in {"pk", "fk"} : \E v : x = EntryKey(t, i, v, id)
    PROVE  t \in Tables /\ id \in Bound(n, t) /\ id \in Nat
<1>1. PICK u \in Tables : \E jd \in Bound(n, u) : KeyOf(x, u, jd, ix)
  BY DEF IsKey
<1>b. PICK jd \in Bound(n, u) : KeyOf(x, u, jd, ix)
  BY <1>1
<1>2. u = t /\ jd = id
  BY <1>b, KeysDiffer DEF KeyOf, ShapeOK
<1>3. n[u] \in Int
  BY DEF ShapeOK
<1>4. QED
  BY <1>1, <1>2, <1>3 DEF Bound

\* What a transaction sees is a map, and an empty set of writes changes nothing.
LEMMA OverlayIsMap ==
    ASSUME NEW n, NEW ix, ShapeOK(n, ix), NEW m, IsMap(m, n, ix), NEW w, IsWrites(w, n, ix)
    PROVE  IsMap(Overlay(m, w), n, ix)
<1>1. Overlay(m, w) = [x \in DOMAIN Overlay(m, w) |-> Overlay(m, w)[x]]
  BY DEF Overlay
<1>2. \A x \in DOMAIN Overlay(m, w) : IsKey(x, n, ix)
  BY DEF Overlay, IsMap, IsWrites
<1>3. ASSUME NEW t \in Tables, NEW id \in Nat, HasRow(Overlay(m, w), t, id)
      PROVE  Row(Overlay(m, w), t, id) \in Rows(t)
  <2>1. CASE HasRow(w, t, id)
    BY <1>3, <2>1 DEF Overlay, HasRow, Row, IsWrites
  <2>2. CASE ~HasRow(w, t, id)
    BY <1>3, <2>2 DEF Overlay, HasRow, Row, IsMap
  <2>3. QED
    BY <2>1, <2>2
<1>4. QED
  BY <1>1, <1>2, <1>3 DEF IsMap

\* A transaction that has written nothing sees its snapshot.
LEMMA OverlayEmpty ==
    ASSUME NEW m, m = [x \in DOMAIN m |-> m[x]]
    PROVE  Overlay(m, Empty) = m
BY DEF Overlay, Empty

\* Writes on top of writes.
LEMMA OverlayThen ==
    ASSUME NEW m, NEW w, NEW u
    PROVE  Overlay(m, Then(w, u)) = Overlay(Overlay(m, w), u)
<1>1. DOMAIN Overlay(m, Then(w, u)) = DOMAIN Overlay(Overlay(m, w), u)
  BY DEF Overlay, Then
<1>2. \A x \in DOMAIN Overlay(m, Then(w, u)) : Overlay(m, Then(w, u))[x] = Overlay(Overlay(m, w), u)[x]
  BY DEF Overlay, Then
<1>3. Overlay(m, Then(w, u)) = [x \in DOMAIN Overlay(m, Then(w, u)) |-> Overlay(m, Then(w, u))[x]]
  BY DEF Overlay
<1>4. Overlay(Overlay(m, w), u) = [x \in DOMAIN Overlay(Overlay(m, w), u) |-> Overlay(Overlay(m, w), u)[x]]
  BY DEF Overlay
<1>5. QED
  BY <1>1, <1>2, <1>3, <1>4

\* The writes of two rows are writes.
LEMMA ThenIsWrites ==
    ASSUME NEW n, NEW ix, NEW w, IsWrites(w, n, ix), NEW u, IsWrites(u, n, ix)
    PROVE  IsWrites(Then(w, u), n, ix)
<1>1. Then(w, u) = [x \in DOMAIN Then(w, u) |-> Then(w, u)[x]]
  BY DEF Then
<1>2. \A x \in DOMAIN Then(w, u) : IsKey(x, n, ix)
  BY DEF Then, IsWrites
<1>3. ASSUME NEW t \in Tables, NEW id \in Nat, HasRow(Then(w, u), t, id)
      PROVE  Row(Then(w, u), t, id) \in Rows(t) \cup {Deleted}
  <2>1. CASE HasRow(u, t, id)
    BY <1>3, <2>1 DEF Then, HasRow, Row, IsWrites
  <2>2. CASE ~HasRow(u, t, id)
    BY <1>3, <2>2 DEF Then, HasRow, Row, IsWrites
  <2>3. QED
    BY <2>1, <2>2
<1>4. QED
  BY <1>1, <1>2, <1>3 DEF IsWrites

\* No writes.
LEMMA EmptyIsWrites ==
    ASSUME NEW n, NEW ix
    PROVE  IsWrites(Empty, n, ix) /\ IsMap(Empty, n, ix) /\ DOMAIN Empty = {}
BY DEF IsWrites, IsMap, Empty, HasRow

----------------------------------------------------------------------------
(* What the writes of a row do: they move rows, with their entries.        *)

Current(m, t, id) == IF HasRow(m, t, id) THEN Row(m, t, id) ELSE Deleted
Has(row, i, v) == row # Deleted /\ v = get_index_values(i, row)

\* Row id of table t goes from old to new, its index entries with it.
Moves(u, t, id, old, new, ix) ==
    /\ HasRow(u, t, id) /\ Row(u, t, id) = new
    /\ \A i \in ix[t] : \A v \in V0 :
          /\ EntryKey(t, i, v, id) \in DOMAIN u <=> Has(old, i, v) \/ Has(new, i, v)
          /\ EntryKey(t, i, v, id) \in DOMAIN u => (u[EntryKey(t, i, v, id)] = Deleted <=> ~Has(new, i, v))
OneRow(u, t, id, ix) == u = [x \in DOMAIN u |-> u[x]] /\ \A x \in DOMAIN u : KeyOf(x, t, id, ix)

\* The children ids go to the rows of g, and nothing else is written.
Family(u, m, ids, g, ix) ==
    /\ u = [x \in DOMAIN u |-> u[x]]
    /\ \A id \in ids : Moves(u, "C", id, Row(m, "C", id), g[id], ix)
    /\ \A x \in DOMAIN u : \E id \in ids : KeyOf(x, "C", id, ix)

Leaves(u, t, id, ix) == \A x \in DOMAIN u : ~KeyOf(x, t, id, ix)
Edits(u, m, ix) == \A t \in Tables : \A id \in Nat :
    Leaves(u, t, id, ix) \/ \E new \in Rows(t) \cup {Deleted} : Moves(u, t, id, Current(m, t, id), new, ix)

\* An exact index, in terms of what each row is at present.
LEMMA IndexedHas ==
    ASSUME NEW n, NEW ix, NEW m, IsMap(m, n, ix), NEW t \in Tables, NEW i
    PROVE  Indexed(m, t, i, {}) <=>
             \A id \in Nat : \A v \in V0 : EntryKey(t, i, v, id) \in DOMAIN m <=> Has(Current(m, t, id), i, v)
<1>1. \A id \in Nat : HasRow(m, t, id) => Row(m, t, id) # Deleted
  BY RowParts DEF IsMap
<1>2. QED
  BY <1>1 DEF Indexed, Has, Current

\* A row in a view is what was written last, or what the snapshot has.
LEMMA CurrentOverlay ==
    ASSUME NEW m, NEW u, NEW t, NEW id
    PROVE  /\ HasRow(u, t, id) => Current(Overlay(m, u), t, id) = Row(u, t, id)
           /\ ~HasRow(u, t, id) => /\ Current(Overlay(m, u), t, id) = Current(m, t, id)
                                   /\ HasRow(Overlay(m, u), t, id) <=> HasRow(m, t, id)
                                   /\ HasRow(m, t, id) => Row(Overlay(m, u), t, id) = Row(m, t, id)
           /\ HasRow(u, t, id) => /\ HasRow(Overlay(m, u), t, id) <=> Row(u, t, id) # Deleted
                                  /\ Row(u, t, id) # Deleted => Row(Overlay(m, u), t, id) = Row(u, t, id)
BY DEF Overlay, Current, HasRow, Row

\* Writes that take the entries along with every row keep an index exact.
LEMMA EditsKeepIndexes ==
    ASSUME NEW n, NEW ix, ShapeOK(n, ix), NEW m, IsMap(m, n, ix), NEW u, IsMap(Overlay(m, u), n, ix),
           Edits(u, m, ix),
           NEW t \in Tables, NEW i \in ix[t], Indexed(m, t, i, {})
    PROVE  Indexed(Overlay(m, u), t, i, {})
<1> SUFFICES ASSUME NEW id \in Nat, NEW v \in V0
             PROVE  EntryKey(t, i, v, id) \in DOMAIN Overlay(m, u) <=> Has(Current(Overlay(m, u), t, id), i, v)
  BY IndexedHas
<1>1. EntryKey(t, i, v, id) \in DOMAIN m <=> Has(Current(m, t, id), i, v)
  BY IndexedHas
<1>2. CASE Leaves(u, t, id, ix)
  <2>1. ~HasRow(u, t, id) /\ EntryKey(t, i, v, id) \notin DOMAIN u
    BY <1>2 DEF Leaves, KeyOf, HasRow
  <2>2. EntryKey(t, i, v, id) \in DOMAIN Overlay(m, u) <=> EntryKey(t, i, v, id) \in DOMAIN m
    BY <2>1 DEF Overlay
  <2>3. QED
    BY <1>1, <2>1, <2>2, CurrentOverlay
<1>3. CASE \E new \in Rows(t) \cup {Deleted} : Moves(u, t, id, Current(m, t, id), new, ix)
  <2>1. PICK new \in Rows(t) \cup {Deleted} : Moves(u, t, id, Current(m, t, id), new, ix)
    BY <1>3
  <2>2. Current(Overlay(m, u), t, id) = new
    BY <2>1, CurrentOverlay DEF Moves
  <2>3. EntryKey(t, i, v, id) \in DOMAIN Overlay(m, u) <=> Has(new, i, v)
    BY <2>1, <1>1 DEF Moves, Overlay
  <2>4. QED
    BY <2>2, <2>3
<1>4. QED
  BY <1>2, <1>3 DEF Edits

\* The entries of a row, one in each index.
LEMMA KeysOfRow ==
    ASSUME NEW n, ShapeOK(n, indexes), NEW t \in Tables, NEW row \in Rows(t), NEW id
    PROVE  /\ \A x \in IndexKeys(t, row, id) : KeyOf(x, t, id, indexes) /\ x[2] # "row"
           /\ \A i \in indexes[t] : \A v : EntryKey(t, i, v, id) \in IndexKeys(t, row, id) <=> v = get_index_values(i, row)
           /\ RowKey(t, id) \notin IndexKeys(t, row, id)
<1>1. \A i \in indexes[t] : i \in {"pk", "fk"} /\ get_index_values(i, row) \in V0
  BY IndexValue DEF ShapeOK
<1>2. \A x \in IndexKeys(t, row, id) : \E i \in indexes[t] : x = EntryKey(t, i, get_index_values(i, row), id)
  BY DEF IndexKeys, encode_index_key
<1>3. \A i \in indexes[t] : EntryKey(t, i, get_index_values(i, row), id) \in IndexKeys(t, row, id)
  BY DEF IndexKeys, encode_index_key
<1>4. \A x \in IndexKeys(t, row, id) : KeyOf(x, t, id, indexes) /\ x[2] # "row"
  BY <1>1, <1>2, KeyParts DEF KeyOf
<1>5. \A i \in indexes[t] : \A v : EntryKey(t, i, v, id) \in IndexKeys(t, row, id) => v = get_index_values(i, row)
  BY <1>2, KeysDiffer
<1>6. RowKey(t, id) \notin IndexKeys(t, row, id)
  BY <1>4, KeyParts
<1>7. QED
  BY <1>3, <1>4, <1>5, <1>6

\* An inserted row brings its entries,
LEMMA InsertMoves ==
    ASSUME NEW n, ShapeOK(n, indexes), NEW t \in Tables, NEW row \in Rows(t), NEW id
    PROVE  Moves(InsertWrites(t, row, id), t, id, Deleted, row, indexes) /\ OneRow(InsertWrites(t, row, id), t, id, indexes)
<1> DEFINE u == InsertWrites(t, row, id)
           K == IndexKeys(t, row, id)
<1>1. u = [x \in K \cup {RowKey(t, id)} |-> IF x[2] = "row" THEN row ELSE [entry |-> TRUE]]
  BY DEF InsertWrites, Put
<1>2. DOMAIN u = K \cup {RowKey(t, id)} /\ u = [x \in DOMAIN u |-> u[x]]
  BY <1>1
<1>3. u[RowKey(t, id)] = row /\ \A x \in K : u[x] = [entry |-> TRUE]
  BY <1>1, KeysOfRow, KeyParts
<1>4. \A i \in indexes[t] : \A v : EntryKey(t, i, v, id) # RowKey(t, id)
  BY KeysDiffer DEF ShapeOK
<1> HIDE DEF u, K
<1>5. \A i \in indexes[t] : \A v : EntryKey(t, i, v, id) \in DOMAIN u <=> v = get_index_values(i, row)
  BY <1>2, <1>4, KeysOfRow DEF K
<1>6. \A i \in indexes[t] : \A v : EntryKey(t, i, v, id) \in DOMAIN u => u[EntryKey(t, i, v, id)] # Deleted
  BY <1>2, <1>3, <1>4, EntryValue
<1>7. row # Deleted
  BY RowParts
<1>8. Moves(u, t, id, Deleted, row, indexes)
  BY <1>2, <1>3, <1>5, <1>6, <1>7 DEF Moves, HasRow, Row, Has
<1>9. OneRow(u, t, id, indexes)
  BY <1>2, KeysOfRow DEF OneRow, KeyOf, K
<1>10. QED
  BY <1>8, <1>9 DEF u

\* a deleted one takes them with it,
LEMMA DeleteMoves ==
    ASSUME NEW n, ShapeOK(n, indexes), NEW t \in Tables, NEW row \in Rows(t), NEW id
    PROVE  Moves(DeleteWrites(t, row, id), t, id, row, Deleted, indexes) /\ OneRow(DeleteWrites(t, row, id), t, id, indexes)
<1> DEFINE u == DeleteWrites(t, row, id)
           K == IndexKeys(t, row, id)
<1>1. u = [x \in K \cup {RowKey(t, id)} |-> Deleted]
  BY DEF DeleteWrites, Remove
<1>2. DOMAIN u = K \cup {RowKey(t, id)} /\ u = [x \in DOMAIN u |-> u[x]]
  BY <1>1
<1>3. \A x \in DOMAIN u : u[x] = Deleted
  BY <1>1
<1>4. \A i \in indexes[t] : \A v : EntryKey(t, i, v, id) # RowKey(t, id)
  BY KeysDiffer DEF ShapeOK
<1> HIDE DEF u, K
<1>5. \A i \in indexes[t] : \A v : EntryKey(t, i, v, id) \in DOMAIN u <=> v = get_index_values(i, row)
  BY <1>2, <1>4, KeysOfRow DEF K
<1>7. row # Deleted
  BY RowParts
<1>8. Moves(u, t, id, row, Deleted, indexes)
  BY <1>2, <1>3, <1>5, <1>7 DEF Moves, HasRow, Row, Has
<1>9. OneRow(u, t, id, indexes)
  BY <1>2, KeysOfRow DEF OneRow, KeyOf, K
<1>10. QED
  BY <1>8, <1>9 DEF u

\* and an updated one exchanges those that change.
LEMMA UpdateMoves ==
    ASSUME NEW n, ShapeOK(n, indexes), NEW t \in Tables, NEW old \in Rows(t), NEW new \in Rows(t), NEW id
    PROVE  Moves(UpdateWrites(t, old, new, id), t, id, old, new, indexes) /\ OneRow(UpdateWrites(t, old, new, id), t, id, indexes)
<1> DEFINE u == UpdateWrites(t, old, new, id)
           w == InsertWrites(t, new, id)
           K == IndexKeys(t, old, id)
           L == IndexKeys(t, new, id)
<1>1. u = [x \in (K \ L) \cup DOMAIN w |-> IF x \in DOMAIN w THEN w[x] ELSE Deleted]
  BY DEF UpdateWrites, Then, Remove
<1>2. Moves(w, t, id, Deleted, new, indexes) /\ OneRow(w, t, id, indexes)
  BY InsertMoves
<1>3. DOMAIN u = (K \ L) \cup DOMAIN w /\ u = [x \in DOMAIN u |-> u[x]]
  BY <1>1
<1>4. \A x \in DOMAIN u : u[x] = IF x \in DOMAIN w THEN w[x] ELSE Deleted
  BY <1>1
<1> HIDE DEF u, w, K, L
<1>5. \A i \in indexes[t] : \A v : EntryKey(t, i, v, id) \in K <=> v = get_index_values(i, old)
  BY KeysOfRow DEF K
<1>6. \A i \in indexes[t] : \A v : EntryKey(t, i, v, id) \in L <=> v = get_index_values(i, new)
  BY KeysOfRow DEF L
<1>7. old # Deleted /\ new # Deleted
  BY RowParts
<1>8. Moves(u, t, id, old, new, indexes)
  <2>1. HasRow(u, t, id) /\ Row(u, t, id) = new
    BY <1>2, <1>3, <1>4 DEF Moves, HasRow, Row
  <2>2. ASSUME NEW i \in indexes[t], NEW v \in V0
        PROVE  /\ EntryKey(t, i, v, id) \in DOMAIN u <=> Has(old, i, v) \/ Has(new, i, v)
               /\ EntryKey(t, i, v, id) \in DOMAIN u => (u[EntryKey(t, i, v, id)] = Deleted <=> ~Has(new, i, v))
    <3>1. EntryKey(t, i, v, id) \in DOMAIN w <=> Has(new, i, v)
      BY <1>2 DEF Moves, Has
    <3>2. EntryKey(t, i, v, id) \in DOMAIN w => w[EntryKey(t, i, v, id)] # Deleted
      BY <1>2, <3>1 DEF Moves
    <3>3. EntryKey(t, i, v, id) \in DOMAIN u <=> Has(old, i, v) \/ Has(new, i, v)
      BY <1>3, <1>5, <1>6, <1>7, <3>1 DEF Has
    <3>4. QED
      BY <3>1, <3>2, <3>3, <1>4
  <2>3. QED
    BY <2>1, <2>2 DEF Moves
<1>9. OneRow(u, t, id, indexes)
  <2>1. \A x \in K : KeyOf(x, t, id, indexes)
    BY KeysOfRow DEF K
  <2>2. QED
    BY <2>1, <1>2, <1>3 DEF OneRow
<1>10. QED
  BY <1>8, <1>9 DEF u

\* The writes of several children are each those of its own.
LEMMA MergedMoves ==
    ASSUME NEW n, NEW ix, ShapeOK(n, ix), NEW m, NEW ids, NEW f, NEW g,
           \A id \in ids : OneRow(f[id], "C", id, ix) /\ Moves(f[id], "C", id, Row(m, "C", id), g[id], ix)
    PROVE  Family(Merged(f, ids), m, ids, g, ix)
<1> DEFINE u == Merged(f, ids)
<1>1. DOMAIN u = UNION {DOMAIN f[id] : id \in ids} /\ u = [x \in DOMAIN u |-> u[x]]
  BY DEF Merged
<1>2. \A x \in DOMAIN u : u[x] = f[CHOOSE id \in ids : x \in DOMAIN f[id]][x]
  BY DEF Merged
<1>3. ASSUME NEW x, NEW id \in ids, NEW jd \in ids, KeyOf(x, "C", id, ix), x \in DOMAIN f[jd] PROVE jd = id
  <2>1. KeyOf(x, "C", jd, ix)
    BY <1>3 DEF OneRow
  <2>2. QED
    BY <2>1, <1>3, KeysDiffer DEF KeyOf, ShapeOK, Tables
<1>4. ASSUME NEW x, NEW id \in ids, KeyOf(x, "C", id, ix)
      PROVE  (x \in DOMAIN u <=> x \in DOMAIN f[id]) /\ (x \in DOMAIN u => u[x] = f[id][x])
  <2>1. x \in DOMAIN u <=> x \in DOMAIN f[id]
    BY <1>1, <1>3, <1>4
  <2>2. ASSUME x \in DOMAIN u PROVE (CHOOSE jd \in ids : x \in DOMAIN f[jd]) = id
    BY <2>1, <2>2, <1>3, <1>4
  <2>3. QED
    BY <2>1, <2>2, <1>2
<1> HIDE DEF u
<1>5. ASSUME NEW id \in ids PROVE Moves(u, "C", id, Row(m, "C", id), g[id], ix)
  <2>1. KeyOf(RowKey("C", id), "C", id, ix)
    BY DEF KeyOf
  <2>2. \A i \in ix["C"] : \A v \in V0 : KeyOf(EntryKey("C", i, v, id), "C", id, ix)
    BY DEF KeyOf
  <2>3. Moves(f[id], "C", id, Row(m, "C", id), g[id], ix)
    OBVIOUS
  <2>4. HasRow(u, "C", id) /\ Row(u, "C", id) = g[id]
    BY <2>1, <2>3, <1>4 DEF Moves, HasRow, Row
  <2>5. ASSUME NEW i \in ix["C"], NEW v \in V0
        PROVE  /\ EntryKey("C", i, v, id) \in DOMAIN u <=> EntryKey("C", i, v, id) \in DOMAIN f[id]
               /\ EntryKey("C", i, v, id) \in DOMAIN u => u[EntryKey("C", i, v, id)] = f[id][EntryKey("C", i, v, id)]
    BY <2>2, <1>4
  <2>6. QED
    BY <2>3, <2>4, <2>5 DEF Moves
<1>6. \A x \in DOMAIN u : \E id \in ids : KeyOf(x, "C", id, ix)
  BY <1>1 DEF OneRow
<1>7. QED
  BY <1>1, <1>5, <1>6 DEF Family, u

----------------------------------------------------------------------------
(* The plan of a row: row id of table t goes to new, its children to g.    *)

MovedOn(m, t, old, new) == IF t = "P" /\ old.k # new.k THEN Children(m, old.k) ELSE {}
DroppedOn(m, t, row) == IF t = "P" THEN Children(m, row.k) ELSE {}
NewParent(new) == IF fk = "cascade" THEN new.k ELSE Null
MovedTo(m, ids, v) == [id \in ids |-> [Row(m, "C", id) EXCEPT !.f = v]]
DroppedTo(m, ids) == [id \in ids |-> IF fk = "cascade" THEN Deleted ELSE [Row(m, "C", id) EXCEPT !.f = Null]]

Plan(u, m, t, id, new, ids, g, ix) ==
    /\ u = [x \in DOMAIN u |-> u[x]]
    /\ new \in Rows(t) \cup {Deleted} /\ ids \subseteq Ids(m, "C") /\ (t = "C" => ids = {})
    /\ \A jd \in ids : g[jd] \in Rows("C") \cup {Deleted}
    /\ Moves(u, t, id, Current(m, t, id), new, ix)
    /\ \A jd \in ids : Moves(u, "C", jd, Row(m, "C", jd), g[jd], ix)
    /\ \A x \in DOMAIN u : KeyOf(x, t, id, ix) \/ \E jd \in ids : KeyOf(x, "C", jd, ix)

\* The children of a key are rows of C.
LEMMA ChildrenRows ==
    ASSUME NEW n, NEW ix, ShapeOK(n, ix), NEW m, IsMap(m, n, ix), NEW v
    PROVE  /\ Children(m, v) \subseteq Ids(m, "C")
           /\ \A id \in Children(m, v) : Row(m, "C", id) \in Rows("C")
BY IdsAreRows DEF Children, Tables

\* A row without children.
LEMMA NoFamily ==
    ASSUME NEW m, NEW g, NEW ix
    PROVE  Family(Empty, m, {}, g, ix)
BY EmptyIsWrites DEF Family, Empty

\* What ON DELETE does to the children: they go, or lose their parent, or the
\* deletion is refused.
LEMMA DeleteCascade ==
    ASSUME NEW n, ShapeOK(n, indexes), NEW m, IsMap(m, n, indexes), NEW t \in Tables, NEW row
    PROVE  /\ Family(OnDelete(m, t, row).writes, m, DroppedOn(m, t, row), DroppedTo(m, DroppedOn(m, t, row)), indexes)
           /\ OnDelete(m, t, row).refused <=> fk = "restrict" /\ DroppedOn(m, t, row) # {}
<1>1. CASE t = "P"
  <2> DEFINE ids == Children(m, row.k)
             f == [id \in ids |-> IF fk = "cascade" THEN DeleteWrites("C", Row(m, "C", id), id)
                            ELSE UpdateWrites("C", Row(m, "C", id), [Row(m, "C", id) EXCEPT !.f = Null], id)]
             g == DroppedTo(m, ids)
  <2>1. OnDelete(m, t, row) = [refused |-> fk = "restrict" /\ ids # {}, writes |-> Merged(f, ids)]
    BY <1>1 DEF OnDelete, handle_foreign_keys_on_delete
  <2>2. ASSUME NEW id \in ids PROVE OneRow(f[id], "C", id, indexes) /\ Moves(f[id], "C", id, Row(m, "C", id), g[id], indexes)
    <3>1. Row(m, "C", id) \in Rows("C") /\ "C" \in Tables /\ Null \in V0
      BY ChildrenRows DEF Tables, V0
    <3>2. CASE fk = "cascade"
      <4>1. f[id] = DeleteWrites("C", Row(m, "C", id), id) /\ g[id] = Deleted
        BY <3>2 DEF DroppedTo
      <4>2. QED
        BY <3>1, <4>1, DeleteMoves
    <3>3. CASE fk # "cascade"
      <4>1. PICK new : new = [Row(m, "C", id) EXCEPT !.f = Null]
        OBVIOUS
      <4>2. f[id] = UpdateWrites("C", Row(m, "C", id), new, id) /\ g[id] = new
        BY <3>3, <4>1 DEF DroppedTo
      <4>3. new \in Rows("C")
        BY <3>1, <4>1, RowWithF
      <4>4. QED
        BY <3>1, <4>2, <4>3, UpdateMoves
    <3>4. QED
      BY <3>2, <3>3
  <2>4. DroppedOn(m, t, row) = ids
    BY <1>1 DEF DroppedOn
  <2> HIDE DEF f, g, ids
  <2>6. OnDelete(m, t, row).writes = Merged(f, ids)
    BY <2>1
  <2>7. OnDelete(m, t, row).refused = (fk = "restrict" /\ ids # {})
    BY <2>1
  <2>3. Family(Merged(f, ids), m, ids, g, indexes)
    BY <2>2, MergedMoves
  <2>5. QED
    BY <2>6, <2>7, <2>3, <2>4 DEF g
<1>2. CASE t # "P"
  <2>1. OnDelete(m, t, row) = NoCascade /\ DroppedOn(m, t, row) = {}
    BY <1>2 DEF OnDelete, DroppedOn
  <2>2. NoCascade.writes = Empty /\ NoCascade.refused = FALSE
    BY DEF NoCascade
  <2>3. QED
    BY <2>1, <2>2, NoFamily
<1>3. QED
  BY <1>1, <1>2

\* What ON UPDATE does to the children: they follow, or lose their parent, or
\* the update is refused.
LEMMA UpdateCascade ==
    ASSUME NEW n, ShapeOK(n, indexes), NEW m, IsMap(m, n, indexes), NEW t \in Tables, NEW old, NEW new \in Rows(t)
    PROVE  /\ Family(OnUpdate(m, t, old, new).writes, m, MovedOn(m, t, old, new),
                     MovedTo(m, MovedOn(m, t, old, new), NewParent(new)), indexes)
           /\ OnUpdate(m, t, old, new).refused <=> fk = "restrict" /\ MovedOn(m, t, old, new) # {}
<1>1. CASE t = "P"
  <2> DEFINE ids == MovedOn(m, t, old, new)
             to == NewParent(new)
             f == [id \in ids |-> UpdateWrites("C", Row(m, "C", id), [Row(m, "C", id) EXCEPT !.f = to], id)]
             g == MovedTo(m, ids, to)
  <2>0. ids = IF old.k = new.k THEN {} ELSE Children(m, old.k)
    BY <1>1 DEF MovedOn
  <2>1. OnUpdate(m, t, old, new) = [refused |-> fk = "restrict" /\ ids # {}, writes |-> Merged(f, ids)]
    BY <1>1, <2>0 DEF OnUpdate, handle_foreign_keys_on_update, NewParent
  <2>2. ASSUME NEW id \in ids PROVE OneRow(f[id], "C", id, indexes) /\ Moves(f[id], "C", id, Row(m, "C", id), g[id], indexes)
    <3>1. Row(m, "C", id) \in Rows("C") /\ "C" \in Tables
      BY <2>0, ChildrenRows DEF Tables
    <3>2. to \in V0
      BY RowParts DEF NewParent, V0
    <3>3. PICK row : row = [Row(m, "C", id) EXCEPT !.f = to]
      OBVIOUS
    <3>4. f[id] = UpdateWrites("C", Row(m, "C", id), row, id) /\ g[id] = row
      BY <3>3 DEF MovedTo
    <3>5. row \in Rows("C")
      BY <3>1, <3>2, <3>3, RowWithF
    <3>6. QED
      BY <3>1, <3>4, <3>5, UpdateMoves
  <2> HIDE DEF f, g, ids
  <2>6. OnUpdate(m, t, old, new).writes = Merged(f, ids)
    BY <2>1
  <2>7. OnUpdate(m, t, old, new).refused = (fk = "restrict" /\ ids # {})
    BY <2>1
  <2>3. Family(Merged(f, ids), m, ids, g, indexes)
    BY <2>2, MergedMoves
  <2>5. QED
    BY <2>6, <2>7, <2>3 DEF g, ids
<1>2. CASE t # "P"
  <2>1. OnUpdate(m, t, old, new) = NoCascade /\ MovedOn(m, t, old, new) = {}
    BY <1>2 DEF OnUpdate, MovedOn
  <2>2. NoCascade.writes = Empty /\ NoCascade.refused = FALSE
    BY DEF NoCascade
  <2>3. QED
    BY <2>1, <2>2, NoFamily
<1>3. QED
  BY <1>1, <1>2

\* A cascade and the row itself write different rows.
LEMMA PlanOf ==
    ASSUME NEW n, NEW ix, ShapeOK(n, ix), NEW m, NEW t \in Tables, NEW id, NEW new \in Rows(t) \cup {Deleted},
           NEW ids \in SUBSET Ids(m, "C"), t = "C" => ids = {}, NEW g, \A jd \in ids : g[jd] \in Rows("C") \cup {Deleted},
           NEW c, Family(c, m, ids, g, ix), NEW w, OneRow(w, t, id, ix), Moves(w, t, id, Current(m, t, id), new, ix)
    PROVE  Plan(Then(c, w), m, t, id, new, ids, g, ix)
<1> DEFINE u == Then(c, w)
<1>1. DOMAIN u = DOMAIN c \cup DOMAIN w /\ u = [x \in DOMAIN u |-> u[x]]
  BY DEF Then
<1>2. \A x \in DOMAIN u : u[x] = IF x \in DOMAIN w THEN w[x] ELSE c[x]
  BY DEF Then
<1> HIDE DEF u
<1>3. ASSUME NEW x, KeyOf(x, t, id, ix) PROVE x \notin DOMAIN c
  <2>1. ASSUME x \in DOMAIN c PROVE FALSE
    <3>1. PICK jd \in ids : KeyOf(x, "C", jd, ix)
      BY <2>1 DEF Family
    <3>2. t = "C"
      BY <3>1, <1>3, KeysDiffer DEF KeyOf, ShapeOK, Tables
    <3>3. QED
      BY <3>1, <3>2
  <2>2. QED
    BY <2>1
<1>4. Moves(u, t, id, Current(m, t, id), new, ix)
  <2>1. KeyOf(RowKey(t, id), t, id, ix) /\ \A i \in ix[t] : \A v \in V0 : KeyOf(EntryKey(t, i, v, id), t, id, ix)
    BY DEF KeyOf
  <2>2. \A x : KeyOf(x, t, id, ix) => (x \in DOMAIN u <=> x \in DOMAIN w) /\ (x \in DOMAIN u => u[x] = w[x])
    BY <1>1, <1>2, <1>3
  <2>3. HasRow(u, t, id) /\ Row(u, t, id) = new
    BY <2>1, <2>2 DEF Moves, HasRow, Row
  <2>4. ASSUME NEW i \in ix[t], NEW v \in V0
        PROVE  /\ EntryKey(t, i, v, id) \in DOMAIN u <=> EntryKey(t, i, v, id) \in DOMAIN w
               /\ EntryKey(t, i, v, id) \in DOMAIN u => u[EntryKey(t, i, v, id)] = w[EntryKey(t, i, v, id)]
    BY <2>1, <2>2
  <2>5. QED
    BY <2>3, <2>4 DEF Moves
<1>5. ASSUME NEW jd \in ids PROVE Moves(u, "C", jd, Row(m, "C", jd), g[jd], ix)
  <2>0. t # "C"
    OBVIOUS
  <2>1. ASSUME NEW x, KeyOf(x, "C", jd, ix) PROVE x \notin DOMAIN w
    <3>1. ASSUME x \in DOMAIN w PROVE FALSE
      <4>1. KeyOf(x, t, id, ix)
        BY <3>1 DEF OneRow
      <4>2. QED
        BY <4>1, <2>0, <2>1, KeysDiffer DEF KeyOf, ShapeOK, Tables
    <3>2. QED
      BY <3>1
  <2>2. \A x : KeyOf(x, "C", jd, ix) => (x \in DOMAIN u <=> x \in DOMAIN c) /\ (x \in DOMAIN u => u[x] = c[x])
    BY <1>1, <1>2, <2>1
  <2>3. KeyOf(RowKey("C", jd), "C", jd, ix) /\ \A i \in ix["C"] : \A v \in V0 : KeyOf(EntryKey("C", i, v, jd), "C", jd, ix)
    BY DEF KeyOf
  <2>4. Moves(c, "C", jd, Row(m, "C", jd), g[jd], ix)
    BY DEF Family
  <2>5. HasRow(u, "C", jd) /\ Row(u, "C", jd) = g[jd]
    BY <2>2, <2>3, <2>4 DEF Moves, HasRow, Row
  <2>6. ASSUME NEW i \in ix["C"], NEW v \in V0
        PROVE  /\ EntryKey("C", i, v, jd) \in DOMAIN u <=> EntryKey("C", i, v, jd) \in DOMAIN c
               /\ EntryKey("C", i, v, jd) \in DOMAIN u => u[EntryKey("C", i, v, jd)] = c[EntryKey("C", i, v, jd)]
    BY <2>2, <2>3
  <2>7. QED
    BY <2>4, <2>5, <2>6 DEF Moves
<1>6. \A x \in DOMAIN u : KeyOf(x, t, id, ix) \/ \E jd \in ids : KeyOf(x, "C", jd, ix)
  BY <1>1 DEF OneRow, Family
<1>7. QED
  BY <1>1, <1>4, <1>5, <1>6 DEF Plan, u

\* What a plan leaves of the rows.
LEMMA PlanLeaves ==
    ASSUME NEW n, NEW ix, ShapeOK(n, ix), NEW m, NEW t \in Tables, NEW id, NEW new, NEW ids, NEW g,
           NEW u, Plan(u, m, t, id, new, ids, g, ix), NEW s \in Tables, NEW jd,
           ~(s = t /\ jd = id), ~(s = "C" /\ jd \in ids)
    PROVE  Leaves(u, s, jd, ix)
<1> SUFFICES ASSUME NEW x \in DOMAIN u, KeyOf(x, s, jd, ix) PROVE FALSE
  BY DEF Leaves
<1>1. CASE KeyOf(x, t, id, ix)
  BY <1>1, KeysDiffer DEF KeyOf, ShapeOK
<1>2. ASSUME NEW kd \in ids, KeyOf(x, "C", kd, ix) PROVE FALSE
  BY <1>2, KeysDiffer DEF KeyOf, ShapeOK, Tables
<1>3. QED
  BY <1>1, <1>2 DEF Plan

\* A plan writes the row and the children it names, and no other row,
LEMMA PlanRows ==
    ASSUME NEW n, NEW ix, ShapeOK(n, ix), NEW m, NEW t \in Tables, NEW id, NEW new, NEW ids, NEW g,
           NEW u, Plan(u, m, t, id, new, ids, g, ix), NEW s \in Tables, NEW jd
    PROVE  /\ s = t /\ jd = id => HasRow(u, s, jd) /\ Row(u, s, jd) = new
           /\ s = "C" /\ jd \in ids => HasRow(u, s, jd) /\ Row(u, s, jd) = g[jd]
           /\ ~(s = t /\ jd = id) /\ ~(s = "C" /\ jd \in ids) => ~HasRow(u, s, jd)
<1>1. Leaves(u, s, jd, ix) => ~HasRow(u, s, jd)
  BY DEF Leaves, KeyOf, HasRow
<1>2. QED
  BY <1>1, PlanLeaves DEF Plan, Moves

\* each of them with its entries.
LEMMA PlanEdits ==
    ASSUME NEW n, NEW ix, ShapeOK(n, ix), NEW m, IsMap(m, n, ix), NEW t \in Tables, NEW id, NEW new, NEW ids, NEW g,
           NEW u, Plan(u, m, t, id, new, ids, g, ix)
    PROVE  Edits(u, m, ix)
<1> SUFFICES ASSUME NEW s \in Tables, NEW jd \in Nat
             PROVE  Leaves(u, s, jd, ix) \/ \E r \in Rows(s) \cup {Deleted} : Moves(u, s, jd, Current(m, s, jd), r, ix)
  BY DEF Edits
<1>1. CASE s = t /\ jd = id
  BY <1>1 DEF Plan
<1>2. CASE s = "C" /\ jd \in ids
  <2>1. Current(m, "C", jd) = Row(m, "C", jd)
    BY <1>2, IdsAreRows DEF Plan, Current
  <2>2. QED
    BY <1>2, <2>1 DEF Plan
<1>3. CASE ~(s = t /\ jd = id) /\ ~(s = "C" /\ jd \in ids)
  <2>1. Leaves(u, s, jd, ix)
    BY <1>3, PlanLeaves
  <2>2. QED
    BY <2>1
<1>4. QED
  BY <1>1, <1>2, <1>3

\* The writes of a plan are writes, of keys below the counters.
LEMMA PlanIsWrites ==
    ASSUME NEW n, NEW ix, ShapeOK(n, ix), NEW m, IsMap(m, n, ix), NEW t \in Tables, NEW id, NEW new, NEW ids, NEW g,
           NEW u, Plan(u, m, t, id, new, ids, g, ix), NEW b, ShapeOK(b, ix), \A s \in Tables : n[s] =< b[s], id \in Bound(b, t)
    PROVE  IsWrites(u, b, ix)
<1>1. ASSUME NEW x \in DOMAIN u PROVE IsKey(x, b, ix)
  <2>1. CASE KeyOf(x, t, id, ix)
    BY <2>1 DEF IsKey
  <2>2. ASSUME NEW jd \in ids, KeyOf(x, "C", jd, ix) PROVE IsKey(x, b, ix)
    <3>1. jd \in Bound(n, "C") /\ "C" \in Tables
      BY IdsAreRows DEF Plan, Tables
    <3>2. n["C"] \in Int /\ b["C"] \in Int /\ n["C"] =< b["C"]
      BY DEF ShapeOK, Tables
    <3>3. jd \in Bound(b, "C")
      BY <3>1, <3>2 DEF Bound
    <3>4. QED
      BY <2>2, <3>1, <3>3 DEF IsKey
  <2>3. QED
    BY <2>1, <2>2 DEF Plan
<1>2. ASSUME NEW s \in Tables, NEW jd \in Nat, HasRow(u, s, jd) PROVE Row(u, s, jd) \in Rows(s) \cup {Deleted}
  <2>0. new \in Rows(t) \cup {Deleted} /\ \A kd \in ids : g[kd] \in Rows("C") \cup {Deleted}
    BY DEF Plan
  <2>1. CASE s = t /\ jd = id
    <3>1. Row(u, s, jd) = new
      BY <2>1, PlanRows
    <3>2. QED
      BY <2>0, <2>1, <3>1
  <2>2. CASE s = "C" /\ jd \in ids
    <3>1. Row(u, s, jd) = g[jd]
      BY <2>2, PlanRows
    <3>2. QED
      BY <2>0, <2>2, <3>1
  <2>3. QED
    BY <1>2, <2>1, <2>2, PlanRows
<1>3. QED
  BY <1>1, <1>2 DEF IsWrites, Plan

\* So are those of the children alone.
LEMMA FamilyIsWrites ==
    ASSUME NEW n, NEW ix, ShapeOK(n, ix), NEW m, IsMap(m, n, ix), NEW ids \in SUBSET Ids(m, "C"), NEW g,
           \A jd \in ids : g[jd] \in Rows("C") \cup {Deleted}, NEW c, Family(c, m, ids, g, ix)
    PROVE  IsWrites(c, n, ix)
<1>0. "C" \in Tables
  BY DEF Tables
<1>1. ASSUME NEW x \in DOMAIN c PROVE IsKey(x, n, ix)
  <2>1. PICK jd \in ids : KeyOf(x, "C", jd, ix)
    BY DEF Family
  <2>2. jd \in Bound(n, "C")
    BY <1>0, IdsAreRows
  <2>3. QED
    BY <1>0, <2>1, <2>2 DEF IsKey
<1>2. ASSUME NEW s \in Tables, NEW jd \in Nat, HasRow(c, s, jd) PROVE Row(c, s, jd) \in Rows(s) \cup {Deleted}
  <2>1. PICK kd \in ids : KeyOf(RowKey(s, jd), "C", kd, ix)
    BY <1>2 DEF Family, HasRow
  <2>2. s = "C" /\ jd = kd
    BY <1>0, <2>1, KeysDiffer DEF KeyOf, ShapeOK
  <2>3. QED
    BY <2>2 DEF Family, Moves
<1>3. QED
  BY <1>1, <1>2 DEF IsWrites, Family

----------------------------------------------------------------------------
(* The results of a row. *)

\* The results of a row.
LEMMA ResultParts ==
    \A w : /\ Ok(w).error = FALSE /\ Ok(w).writes = w /\ Ok(w).ids = 0
           /\ Error(w).error = TRUE /\ Error(w).writes = w /\ Error(w).ids = 0
BY DEF Ok, Error

\* A row that a scan finds.
LEMMA CurrentRow ==
    ASSUME NEW n, NEW ix, ShapeOK(n, ix), NEW m, IsMap(m, n, ix), NEW t \in Tables, NEW id \in Ids(m, t)
    PROVE  Current(m, t, id) = Row(m, t, id) /\ Row(m, t, id) \in Rows(t) /\ id \in Bound(n, t)
BY IdsAreRows DEF Current

\* An update with its cascade is a plan.
LEMMA UpdatePlan ==
    ASSUME NEW n, ShapeOK(n, indexes), NEW m, IsMap(m, n, indexes), NEW t \in Tables, NEW id \in Ids(m, t),
           NEW new \in Rows(t),
           NEW old, old = Row(m, t, id), NEW c, c = OnUpdate(m, t, old, new).writes
    PROVE  /\ Plan(Then(c, UpdateWrites(t, old, new, id)), m, t, id, new, MovedOn(m, t, old, new),
                   MovedTo(m, MovedOn(m, t, old, new), NewParent(new)), indexes)
           /\ IsWrites(c, n, indexes)
           /\ IsWrites(Then(c, UpdateWrites(t, old, new, id)), n, indexes)
<1> DEFINE ids == MovedOn(m, t, old, new)
           g == MovedTo(m, ids, NewParent(new))
           w == UpdateWrites(t, old, new, id)
<1>1. old = Current(m, t, id) /\ old \in Rows(t) /\ id \in Bound(n, t)
  BY CurrentRow
<1>2. Family(c, m, ids, g, indexes)
  BY UpdateCascade
<1>3. Moves(w, t, id, old, new, indexes) /\ OneRow(w, t, id, indexes)
  BY <1>1, UpdateMoves
<1>4. ids \in SUBSET Ids(m, "C") /\ \A jd \in ids : Row(m, "C", jd) \in Rows("C")
  BY ChildrenRows DEF MovedOn
<1>5. t = "C" => ids = {}
  BY DEF MovedOn
<1>6. NewParent(new) \in V0
  BY RowParts DEF NewParent, V0
<1>7. \A jd \in ids : g[jd] \in Rows("C")
  BY <1>4, <1>6, RowWithF DEF MovedTo
<1> HIDE DEF ids, g, w
<1>8. Plan(Then(c, w), m, t, id, new, ids, g, indexes)
  BY <1>1, <1>2, <1>3, <1>4, <1>5, <1>7, PlanOf
<1>9. IsWrites(c, n, indexes)
  BY <1>2, <1>4, <1>7, FamilyIsWrites
<1>10. \A s \in Tables : n[s] =< n[s]
  BY DEF ShapeOK
<1>11. IsWrites(Then(c, w), n, indexes)
  BY <1>1, <1>8, <1>10, PlanIsWrites
<1>12. QED
  BY <1>8, <1>9, <1>11 DEF ids, g, w

\* UPDATE makes the plan when the foreign keys and the unique index let it.
LEMMA UpdatedPlan ==
    ASSUME NEW n, ShapeOK(n, indexes), NEW m, IsMap(m, n, indexes), NEW t \in Tables, NEW id \in Ids(m, t),
           NEW new \in Rows(t),
           NEW old, old = Row(m, t, id), NEW r, r = Updated(m, t, id, new)
    PROVE  /\ r.ids = 0 /\ IsWrites(r.writes, n, indexes)
           /\ ~r.error =>
                /\ Plan(r.writes, m, t, id, new, MovedOn(m, t, old, new), MovedTo(m, MovedOn(m, t, old, new), NewParent(new)), indexes)
                /\ ~(fk = "restrict" /\ MovedOn(m, t, old, new) # {})
                /\ validate_foreign_keys_for_row(Overlay(m, OnUpdate(m, t, old, new).writes), t, new)
                /\ new.k # old.k => ~Duplicate(m, t, new.k, id)
<1> DEFINE c == OnUpdate(m, t, old, new)
           w == UpdateWrites(t, old, new, id)
<1>1. r = IF c.refused THEN Error(Empty)
          ELSE IF ~validate_foreign_keys_for_row(Overlay(m, c.writes), t, new) THEN Error(c.writes)
          ELSE IF new.k # old.k /\ Duplicate(m, t, new.k, id) THEN Error(c.writes)
          ELSE Ok(Then(c.writes, w))
  BY DEF Updated
<1>2. Plan(Then(c.writes, w), m, t, id, new, MovedOn(m, t, old, new), MovedTo(m, MovedOn(m, t, old, new), NewParent(new)), indexes)
  BY UpdatePlan
<1>3. IsWrites(c.writes, n, indexes) /\ IsWrites(Then(c.writes, w), n, indexes) /\ IsWrites(Empty, n, indexes)
  BY UpdatePlan, EmptyIsWrites
<1>4. c.refused <=> fk = "restrict" /\ MovedOn(m, t, old, new) # {}
  BY UpdateCascade
<1>5. OnUpdate(m, t, old, new).writes = c.writes
  OBVIOUS
<1> HIDE DEF c, w
<1>6. CASE c.refused
  BY <1>1, <1>3, <1>6, ResultParts
<1>7. CASE ~c.refused /\ ~validate_foreign_keys_for_row(Overlay(m, c.writes), t, new)
  BY <1>1, <1>3, <1>7, ResultParts
<1>8. CASE ~c.refused /\ validate_foreign_keys_for_row(Overlay(m, c.writes), t, new) /\ new.k # old.k /\ Duplicate(m, t, new.k, id)
  BY <1>1, <1>3, <1>8, ResultParts
<1>9. CASE ~c.refused /\ validate_foreign_keys_for_row(Overlay(m, c.writes), t, new) /\ ~(new.k # old.k /\ Duplicate(m, t, new.k, id))
  <2>1. r = Ok(Then(c.writes, w))
    BY <1>1, <1>9
  <2>2. r.error = FALSE /\ r.writes = Then(c.writes, w) /\ r.ids = 0
    BY <2>1, ResultParts
  <2>3. QED
    BY <1>2, <1>3, <1>4, <1>5, <1>9, <2>2
<1>10. QED
  BY <1>6, <1>7, <1>8, <1>9

\* ON DUPLICATE KEY makes it whatever the unique index says.
LEMMA OverwrittenPlan ==
    ASSUME NEW n, ShapeOK(n, indexes), NEW m, IsMap(m, n, indexes), NEW t \in Tables, NEW id \in Ids(m, t),
           NEW new \in Rows(t),
           NEW old, old = Row(m, t, id), NEW r, r = Overwritten(m, t, id, old, new)
    PROVE  /\ r.ids = 0 /\ IsWrites(r.writes, n, indexes)
           /\ ~r.error =>
                Plan(r.writes, m, t, id, new, MovedOn(m, t, old, new), MovedTo(m, MovedOn(m, t, old, new), NewParent(new)), indexes)
<1> DEFINE c == OnUpdate(m, t, old, new)
           w == UpdateWrites(t, old, new, id)
<1>1. r = IF c.refused \/ ~validate_foreign_keys_for_row(Overlay(m, c.writes), t, new) THEN Error(c.writes)
          ELSE Ok(Then(c.writes, w))
  BY DEF Overwritten
<1>2. Plan(Then(c.writes, w), m, t, id, new, MovedOn(m, t, old, new), MovedTo(m, MovedOn(m, t, old, new), NewParent(new)), indexes)
  BY UpdatePlan
<1>3. IsWrites(c.writes, n, indexes) /\ IsWrites(Then(c.writes, w), n, indexes)
  BY UpdatePlan
<1> HIDE DEF c, w
<1>4. r = Error(c.writes) \/ r = Ok(Then(c.writes, w))
  BY <1>1
<1>5. QED
  BY <1>2, <1>3, <1>4, ResultParts

\* DELETE makes its plan when no child restricts it.
LEMMA RemovedPlan ==
    ASSUME NEW n, ShapeOK(n, indexes), NEW m, IsMap(m, n, indexes), NEW t \in Tables, NEW id \in Ids(m, t),
           NEW row, row = Row(m, t, id), NEW r, r = Removed(m, t, id)
    PROVE  /\ r.ids = 0 /\ IsWrites(r.writes, n, indexes)
           /\ ~r.error =>
                /\ Plan(r.writes, m, t, id, Deleted, DroppedOn(m, t, row), DroppedTo(m, DroppedOn(m, t, row)), indexes)
                /\ ~(fk = "restrict" /\ DroppedOn(m, t, row) # {})
<1> DEFINE c == OnDelete(m, t, row)
           ids == DroppedOn(m, t, row)
           g == DroppedTo(m, ids)
           w == DeleteWrites(t, row, id)
<1>1. r = IF c.refused THEN Error(Empty) ELSE Ok(Then(c.writes, w))
  BY DEF Removed
<1>2. row = Current(m, t, id) /\ row \in Rows(t) /\ id \in Bound(n, t)
  BY CurrentRow
<1>3. Family(c.writes, m, ids, g, indexes) /\ (c.refused <=> fk = "restrict" /\ ids # {})
  BY DeleteCascade
<1>4. Moves(w, t, id, row, Deleted, indexes) /\ OneRow(w, t, id, indexes)
  BY <1>2, DeleteMoves
<1>5. ids \in SUBSET Ids(m, "C") /\ \A jd \in ids : Row(m, "C", jd) \in Rows("C")
  BY ChildrenRows DEF DroppedOn
<1>6. t = "C" => ids = {}
  BY DEF DroppedOn
<1>7. \A jd \in ids : g[jd] \in Rows("C") \cup {Deleted}
  BY <1>5, RowWithF DEF DroppedTo, V0
<1> HIDE DEF c, ids, g, w
<1>8. Plan(Then(c.writes, w), m, t, id, Deleted, ids, g, indexes)
  BY <1>2, <1>3, <1>4, <1>5, <1>6, <1>7, PlanOf
<1>9. \A s \in Tables : n[s] =< n[s]
  BY DEF ShapeOK
<1>10. IsWrites(Then(c.writes, w), n, indexes) /\ IsWrites(Empty, n, indexes)
  BY <1>2, <1>8, <1>9, PlanIsWrites, EmptyIsWrites
<1>11. CASE c.refused
  BY <1>1, <1>10, <1>11, ResultParts
<1>12. CASE ~c.refused
  <2>1. r.error = FALSE /\ r.writes = Then(c.writes, w) /\ r.ids = 0
    BY <1>1, <1>12, ResultParts
  <2>2. QED
    BY <2>1, <1>3, <1>8, <1>10, <1>12 DEF ids, g
<1>13. QED
  BY <1>11, <1>12

\* The counters after a row that allocates ids.
Allocated(n, t, k) == [n EXCEPT ![t] = @ + k]

\* Counters only grow.
LEMMA AllocatedShape ==
    ASSUME NEW n, NEW ix, ShapeOK(n, ix), NEW t \in Tables, NEW k \in Nat
    PROVE  /\ ShapeOK(Allocated(n, t, k), ix) /\ \A s \in Tables : n[s] =< Allocated(n, t, k)[s]
           /\ Allocated(n, t, k)[t] = n[t] + k
BY DEF ShapeOK, Allocated

\* An inserted row takes the next id, which no map has.
LEMMA InsertedPlan ==
    ASSUME NEW n, n = next_row_id, ShapeOK(n, indexes), NEW m, IsMap(m, n, indexes), NEW t \in Tables,
           NEW row \in Rows(t),
           NEW r, r = Inserted(t, row)
    PROVE  /\ r.ids = 1 /\ r.error = FALSE
           /\ Plan(r.writes, m, t, n[t], row, {}, Empty, indexes)
           /\ IsWrites(r.writes, Allocated(n, t, 1), indexes)
           /\ \A x \in DOMAIN r.writes : ~IsKey(x, n, indexes)
           /\ ~HasRow(m, t, n[t])
<1> DEFINE w == InsertWrites(t, row, n[t])
<1>1. r.ids = 1 /\ r.error = FALSE /\ r.writes = w
  BY DEF Inserted
<1>2. n[t] \in Nat /\ n[t] > 0
  BY DEF ShapeOK
<1>3. ASSUME NEW x, KeyOf(x, t, n[t], indexes) PROVE ~IsKey(x, n, indexes)
  <2>1. ASSUME IsKey(x, n, indexes) PROVE FALSE
    <3>1. x = RowKey(t, n[t]) \/ \E i \in {"pk", "fk"} : \E v : x = EntryKey(t, i, v, n[t])
      BY <1>3 DEF KeyOf, ShapeOK
    <3>2. n[t] \in Bound(n, t)
      BY <2>1, <3>1, KeyInBound
    <3>3. QED
      BY <1>2, <3>2 DEF Bound
  <2>2. QED
    BY <2>1
<1>4. ~HasRow(m, t, n[t])
  <2>1. KeyOf(RowKey(t, n[t]), t, n[t], indexes)
    BY DEF KeyOf
  <2>2. QED
    BY <1>3, <2>1 DEF HasRow, IsMap
<1>5. Moves(w, t, n[t], Deleted, row, indexes) /\ OneRow(w, t, n[t], indexes)
  BY InsertMoves
<1>6. Current(m, t, n[t]) = Deleted
  BY <1>4 DEF Current
<1> HIDE DEF w
<1>7. Plan(w, m, t, n[t], row, {}, Empty, indexes)
  BY <1>5, <1>6 DEF Plan, OneRow
<1>8. n[t] \in Bound(Allocated(n, t, 1), t)
  BY <1>2, AllocatedShape DEF Bound
<1>9. IsWrites(w, Allocated(n, t, 1), indexes)
  <2>1. ShapeOK(Allocated(n, t, 1), indexes) /\ \A s \in Tables : n[s] =< Allocated(n, t, 1)[s]
    BY AllocatedShape
  <2>2. QED
    BY <2>1, <1>7, <1>8, PlanIsWrites
<1>10. \A x \in DOMAIN w : ~IsKey(x, n, indexes)
  BY <1>3, <1>5 DEF OneRow
<1>11. QED
  BY <1>1, <1>4, <1>7, <1>9, <1>10

----------------------------------------------------------------------------
(* Sequences of rows still to do. *)

Elems(q) == {q[i] : i \in 1 .. Len(q)}
Distinct(q) == \A i, j \in 1 .. Len(q) : q[i] = q[j] => i = j

\* A function on 1 .. k is a sequence.
LEMMA ListOf ==
    ASSUME NEW S, NEW k \in Nat, NEW q \in [1 .. k -> S]
    PROVE  q \in Seq(S)
OBVIOUS

\* The first row of a list, and those that are left.
LEMMA TodoStep ==
    ASSUME NEW q, q \in Seq(Elems(q)), q # <<>>
    PROVE  /\ Head(q) \in Elems(q) /\ Tail(q) \in Seq(Elems(Tail(q)))
           /\ Elems(q) = {Head(q)} \cup Elems(Tail(q))
           /\ Distinct(q) => Distinct(Tail(q)) /\ Head(q) \notin Elems(Tail(q))
<1>1. Len(q) \in Nat \ {0}
  BY EmptySeq
<1>2. /\ Tail(q) \in Seq(Elems(q)) /\ Len(Tail(q)) = Len(q) - 1
      /\ \A i \in 1 .. Len(Tail(q)) : Tail(q)[i] = q[i + 1]
  BY HeadTailProperties
<1>3. Head(q) = q[1]
  BY <1>1
<1>4. Tail(q) \in [1 .. Len(Tail(q)) -> Elems(q)] /\ Len(Tail(q)) \in Nat
  BY <1>2, LenProperties
<1>5. Tail(q) \in Seq(Elems(Tail(q)))
  <2>1. Tail(q) \in [1 .. Len(Tail(q)) -> Elems(Tail(q))]
    BY <1>4 DEF Elems
  <2>2. QED
    BY <2>1, <1>4, ListOf
<1>6. Elems(Tail(q)) \subseteq Elems(q) /\ Head(q) \in Elems(q)
  BY <1>1, <1>2, <1>3 DEF Elems
<1>7. ASSUME NEW x \in Elems(q), x # Head(q) PROVE x \in Elems(Tail(q))
  <2>1. PICK i \in 1 .. Len(q) : x = q[i]
    BY DEF Elems
  <2>2. i # 1
    BY <1>3, <1>7, <2>1
  <2>3. i - 1 \in 1 .. Len(Tail(q)) /\ Tail(q)[i - 1] = q[(i - 1) + 1]
    BY <1>1, <1>2, <2>1, <2>2
  <2>4. (i - 1) + 1 = i
    BY <2>1
  <2>5. QED
    BY <2>1, <2>3, <2>4 DEF Elems
<1>8. ASSUME Distinct(q) PROVE Distinct(Tail(q)) /\ Head(q) \notin Elems(Tail(q))
  <2>1. ASSUME NEW i \in 1 .. Len(Tail(q)), NEW j \in 1 .. Len(Tail(q)), Tail(q)[i] = Tail(q)[j] PROVE i = j
    <3>1. i + 1 \in 1 .. Len(q) /\ j + 1 \in 1 .. Len(q) /\ q[i + 1] = q[j + 1]
      BY <1>1, <1>2, <2>1
    <3>2. i + 1 = j + 1
      BY <3>1, <1>8 DEF Distinct
    <3>3. QED
      BY <3>2
  <2>2. ASSUME NEW i \in 1 .. Len(Tail(q)), Tail(q)[i] = Head(q) PROVE FALSE
    <3>1. i + 1 \in 1 .. Len(q) /\ q[i + 1] = q[1] /\ 1 \in 1 .. Len(q)
      BY <1>1, <1>2, <1>3, <2>2
    <3>2. i + 1 = 1
      BY <3>1, <1>8 DEF Distinct
    <3>3. QED
      BY <3>2
  <2>3. QED
    BY <2>1, <2>2 DEF Distinct, Elems
<1>9. QED
  BY <1>5, <1>6, <1>7, <1>8

\* A finite set in some order: a list of it that names nothing twice.
LEMMA OrderLists ==
    ASSUME NEW S, IsFiniteSet(S), NEW q \in Orders(S)
    PROVE  q \in Seq(Elems(q)) /\ Distinct(q) /\ Elems(q) = S
<1> DEFINE c == Cardinality(S)
<1>1. c \in Nat
  BY FS_CardinalityType
<1>2. q \in [1 .. c -> S] /\ \A i, j \in 1 .. c : q[i] = q[j] => i = j
  BY DEF Orders
<1>3. q \in Seq(S) /\ Len(q) = c
  BY <1>1, <1>2
<1>4. q \in Injection(1 .. c, S)
  BY <1>2 DEF Injection, IsInjective
<1>5. Cardinality(1 .. c) = c
  <2>1. 1 \in Int /\ c \in Int
    BY <1>1
  <2>2. Cardinality(1 .. c) = IF 1 > c THEN 0 ELSE c - 1 + 1
    BY <2>1, FS_Interval
  <2>3. QED
    BY <2>2, <1>1
<1>6. q \in Surjection(1 .. c, S)
  BY <1>4, <1>5, FS_Injection
<1>7. Elems(q) = S
  BY <1>2, <1>3, <1>6 DEF Surjection, Elems
<1>8. q \in Seq(Elems(q))
  BY <1>3, <1>7
<1>9. QED
  BY <1>2, <1>3, <1>7, <1>8 DEF Distinct

\* A table has finitely many rows, as many as its counter allows.
LEMMA FiniteIds ==
    ASSUME NEW n, NEW ix, ShapeOK(n, ix), NEW m, IsMap(m, n, ix), NEW t \in Tables
    PROVE  IsFiniteSet(Ids(m, t)) /\ \A S \in SUBSET Ids(m, t) : IsFiniteSet(S)
<1>1. 1 \in Int /\ n[t] - 1 \in Int
  BY DEF ShapeOK
<1>2. IsFiniteSet(Bound(n, t))
  BY <1>1, FS_Interval DEF Bound
<1>3. Ids(m, t) \subseteq Bound(n, t)
  BY IdsAreRows
<1>4. \A S \in SUBSET Ids(m, t) : S \in SUBSET Bound(n, t)
  BY <1>3
<1>5. QED
  BY <1>2, <1>3, <1>4, FS_Subset

----------------------------------------------------------------------------
(* Statements in progress. *)

\* MERGE: a row found at the start is as it was while its parent is to come.
MergeOK(st, m, n) ==
    /\ Elems(st.todo) \subseteq Rows("P") /\ Distinct(st.todo) /\ st.set \in Values
    /\ \A e \in st.seen : e.id \in Bound(n, "C")
    /\ \A d, e \in st.seen : d.id = e.id => d = e
    /\ \A e \in st.seen : (\E p \in Elems(st.todo) : p.k = e.row.f) =>
          HasRow(m, "C", e.id) /\ Row(m, "C", e.id) = e.row

StmtRec(st) == st = [kind |-> st.kind, t |-> st.t, todo |-> st.todo, set |-> st.set, col |-> st.col, on |-> st.on,
                     seen |-> st.seen, def |-> st.def]

\* A statement of a session that sees map m.
StmtOK(st, m, n, ix) ==
    /\ StmtRec(st)
    /\ st.t \in Tables /\ st.def \in Nat /\ st.todo \in Seq(Elems(st.todo))
    /\ st.kind \in {"none", "done", "insert", "copy", "update", "delete", "create_index", "merge"}
    /\ st.kind \in {"none", "done"} => st.todo = <<>>
    /\ st.kind \in {"insert", "copy"} => Elems(st.todo) \subseteq Rows(st.t)
    /\ st.kind = "insert" => st.on \in {"error", "nothing", "update", "duplicate"} /\ (st.on = "duplicate" => st.set \in Values)
    /\ st.kind = "update" => st.set \in Values /\ (st.col = "k" \/ st.t = "C")
    /\ st.kind \in {"update", "delete", "create_index"} =>
          Distinct(st.todo) /\ \A id \in Elems(st.todo) : id \in Nat /\ HasRow(m, st.t, id)
    /\ st.kind \in {"copy", "create_index", "merge"} => st.t = "C"
    /\ st.kind = "create_index" => "fk" \in ix["C"]
    /\ st.kind = "merge" => MergeOK(st, m, n)

\* What a row may come to.
Outcome(r, m, t, n, ix) ==
    /\ r.ids \in {0, 1}
    /\ r.ids = 0 => IsWrites(r.writes, n, ix)
    /\ r.ids = 1 => ~r.error /\ \A x \in DOMAIN r.writes : ~IsKey(x, n, ix)
    /\ IsWrites(r.writes, Allocated(n, t, r.ids), ix)
    /\ ~r.error => Edits(r.writes, m, ix)

\* No id is taken.
LEMMA NoneAllocated ==
    ASSUME NEW n, NEW ix, ShapeOK(n, ix), NEW t \in Tables
    PROVE  Allocated(n, t, 0) = n
BY DEF ShapeOK, Allocated

\* To write nothing moves no row.
LEMMA EmptyEdits ==
    ASSUME NEW m, NEW ix
    PROVE  Edits(Empty, m, ix)
BY EmptyIsWrites DEF Edits, Leaves

\* A plan is a proper outcome of a row.
LEMMA PlanOutcome ==
    ASSUME NEW n, NEW ix, ShapeOK(n, ix), NEW m, IsMap(m, n, ix), NEW t \in Tables, NEW r,
           r.ids = 0, IsWrites(r.writes, n, ix),
           ~r.error => \E id, new, ids, g : Plan(r.writes, m, t, id, new, ids, g, ix)
    PROVE  Outcome(r, m, t, n, ix)
<1>1. ASSUME ~r.error PROVE Edits(r.writes, m, ix)
  <2>1. PICK id, new, ids, g : Plan(r.writes, m, t, id, new, ids, g, ix)
    BY <1>1
  <2>2. QED
    BY <2>1, PlanEdits
<1>2. Allocated(n, t, r.ids) = n
  BY NoneAllocated
<1>3. QED
  BY <1>1, <1>2 DEF Outcome

\* The outcomes of an inserted row,
LEMMA InsertedOutcome ==
    ASSUME NEW n, n = next_row_id, ShapeOK(n, indexes), NEW m, IsMap(m, n, indexes), NEW t \in Tables,
           NEW row \in Rows(t)
    PROVE  Outcome(Inserted(t, row), m, t, n, indexes)
<1> DEFINE r == Inserted(t, row)
<1>1. r.ids = 1 /\ r.error = FALSE /\ Plan(r.writes, m, t, n[t], row, {}, Empty, indexes)
  BY InsertedPlan
<1>2. IsWrites(r.writes, Allocated(n, t, 1), indexes) /\ \A x \in DOMAIN r.writes : ~IsKey(x, n, indexes)
  BY InsertedPlan
<1> HIDE DEF r
<1>3. Edits(r.writes, m, indexes)
  BY <1>1, PlanEdits
<1>4. QED
  BY <1>1, <1>2, <1>3 DEF Outcome, r

\* What an INSERT comes to, with the row that it met.
LEMMA InsertCases ==
    ASSUME NEW m, NEW st, NEW row, NEW r, r = insert_row(m, st, row)
    PROVE  \/ r = Error(Empty)
           \/ st.on = "nothing" /\ r = Ok(Empty)
           \/ /\ validate_foreign_keys_for_row(m, st.t, row)
              /\ row.k = Null \/ scan_prefix_visible(m, st.t, "pk", row.k) = {}
              /\ r = Inserted(st.t, row)
           \/ \E id \in Ids(m, st.t) : st.on = "update" /\ r = Updated(m, st.t, id, [Row(m, st.t, id) EXCEPT !.f = row.f])
           \/ \E id \in Ids(m, st.t) : st.on \notin {"error", "nothing", "update"}
                 /\ r = Overwritten(m, st.t, id, Row(m, st.t, id), [Row(m, st.t, id) EXCEPT !.k = st.set])
<1> DEFINE conflicts == IF row.k = Null THEN {} ELSE scan_prefix_visible(m, st.t, "pk", row.k)
           id == CHOOSE x \in conflicts : TRUE
<1>1. r = IF ~validate_foreign_keys_for_row(m, st.t, row) THEN Error(Empty)
          ELSE IF conflicts = {} THEN Inserted(st.t, row)
          ELSE IF st.on = "error" THEN Error(Empty)
          ELSE IF st.on = "nothing" THEN Ok(Empty)
          ELSE IF st.on = "update" THEN Updated(m, st.t, id, [Row(m, st.t, id) EXCEPT !.f = row.f])
          ELSE Overwritten(m, st.t, id, Row(m, st.t, id), [Row(m, st.t, id) EXCEPT !.k = st.set])
  BY DEF insert_row
<1>2. conflicts # {} => id \in conflicts
  OBVIOUS
<1>3. conflicts \subseteq Ids(m, st.t)
  BY DEF scan_prefix_visible
<1>4. conflicts = {} => row.k = Null \/ scan_prefix_visible(m, st.t, "pk", row.k) = {}
  OBVIOUS
<1> HIDE DEF conflicts, id
<1>5. QED
  BY <1>1, <1>2, <1>3, <1>4

\* of a row of INSERT, with ON CONFLICT and ON DUPLICATE KEY,
LEMMA InsertOutcome ==
    ASSUME NEW n, n = next_row_id, ShapeOK(n, indexes), NEW m, IsMap(m, n, indexes),
           NEW st, StmtOK(st, m, n, indexes), st.kind = "insert", NEW row \in Rows(st.t)
    PROVE  Outcome(insert_row(m, st, row), m, st.t, n, indexes)
<1> DEFINE r == insert_row(m, st, row)
<1>1. st.t \in Tables /\ st.on \in {"error", "nothing", "update", "duplicate"} /\ (st.on = "duplicate" => st.set \in Values)
  BY DEF StmtOK
<1>2. PICK t \in Tables : t = st.t
  BY <1>1
<1>3. \/ r = Error(Empty)
      \/ r = Ok(Empty)
      \/ r = Inserted(t, row)
      \/ \E id \in Ids(m, t) : r = Updated(m, t, id, [Row(m, t, id) EXCEPT !.f = row.f])
      \/ \E id \in Ids(m, t) : st.on = "duplicate" /\ r = Overwritten(m, t, id, Row(m, t, id), [Row(m, t, id) EXCEPT !.k = st.set])
  BY <1>1, <1>2, InsertCases
<1> HIDE DEF r
<1>4. ASSUME r = Error(Empty) \/ r = Ok(Empty) PROVE Outcome(r, m, t, n, indexes)
  <2>1. r.ids = 0 /\ r.writes = Empty
    BY <1>4, ResultParts
  <2>2. QED
    BY <2>1, EmptyIsWrites, EmptyEdits, NoneAllocated DEF Outcome
<1>5. ASSUME r = Inserted(t, row) PROVE Outcome(r, m, t, n, indexes)
  BY <1>2, <1>5, InsertedOutcome
<1>6. ASSUME NEW id \in Ids(m, t), r = Updated(m, t, id, [Row(m, t, id) EXCEPT !.f = row.f]) PROVE Outcome(r, m, t, n, indexes)
  <2>1. PICK old, new : old = Row(m, t, id) /\ new = [old EXCEPT !.f = row.f]
    OBVIOUS
  <2>2. old \in Rows(t)
    BY <2>1, CurrentRow
  <2>3. new \in Rows(t)
    BY <1>2, <2>1, <2>2 DEF Rows, Tables
  <2>4. /\ r.ids = 0 /\ IsWrites(r.writes, n, indexes)
        /\ ~r.error => Plan(r.writes, m, t, id, new, MovedOn(m, t, old, new), MovedTo(m, MovedOn(m, t, old, new), NewParent(new)), indexes)
    BY <1>6, <2>1, <2>3, UpdatedPlan
  <2>5. QED
    BY <2>4, PlanOutcome
<1>7. ASSUME NEW id \in Ids(m, t), st.on = "duplicate",
             r = Overwritten(m, t, id, Row(m, t, id), [Row(m, t, id) EXCEPT !.k = st.set])
      PROVE  Outcome(r, m, t, n, indexes)
  <2>1. PICK old, new : old = Row(m, t, id) /\ new = [old EXCEPT !.k = st.set]
    OBVIOUS
  <2>2. old \in Rows(t)
    BY <2>1, CurrentRow
  <2>3. new \in Rows(t)
    BY <1>1, <1>7, <2>1, <2>2, RowParts
  <2>4. /\ r.ids = 0 /\ IsWrites(r.writes, n, indexes)
        /\ ~r.error => Plan(r.writes, m, t, id, new, MovedOn(m, t, old, new), MovedTo(m, MovedOn(m, t, old, new), NewParent(new)), indexes)
    BY <1>7, <2>1, <2>3, OverwrittenPlan
  <2>5. QED
    BY <2>4, PlanOutcome
<1>8. QED
  BY <1>2, <1>3, <1>4, <1>5, <1>6, <1>7 DEF r

\* The rows that are still to do are not written.
Spares(u, t, id) == \A jd : jd # id => ~HasRow(u, t, jd)

\* A plan for a row of a table leaves its other rows alone.
LEMMA PlanSpares ==
    ASSUME NEW n, NEW ix, ShapeOK(n, ix), NEW m, NEW t \in Tables, NEW id, NEW new, NEW ids, NEW g,
           NEW u, Plan(u, m, t, id, new, ids, g, ix)
    PROVE  Spares(u, t, id)
<1>1. t = "C" => ids = {}
  BY DEF Plan
<1>2. QED
  BY <1>1, PlanRows DEF Spares

\* A row with a column assigned is a row.
LEMMA AssignedRow ==
    ASSUME NEW t \in Tables, NEW old \in Rows(t), NEW st, st.set \in Values, st.col = "k" \/ t = "C"
    PROVE  Assigned(st, old) \in Rows(t)
<1>1. CASE st.col = "k"
  BY <1>1, RowParts DEF Assigned
<1>2. CASE st.col # "k"
  <2>1. Assigned(st, old) = [old EXCEPT !.f = st.set] /\ t = "C" /\ st.set \in V0
    BY <1>2 DEF Assigned, V0
  <2>2. QED
    BY <2>1, RowWithF
<1>3. QED
  BY <1>1, <1>2

\* of a row of UPDATE,
LEMMA UpdateOutcome ==
    ASSUME NEW n, n = next_row_id, ShapeOK(n, indexes), NEW m, IsMap(m, n, indexes),
           NEW st, StmtOK(st, m, n, indexes), st.kind = "update", NEW id \in Ids(m, st.t), NEW r, r = update_row(m, st, id)
    PROVE  Outcome(r, m, st.t, n, indexes) /\ r.ids = 0 /\ (~r.error => Spares(r.writes, st.t, id))
<1>1. PICK t \in Tables : t = st.t
  BY DEF StmtOK
<1>2. PICK old, new : old = Row(m, t, id) /\ new = Assigned(st, old)
  OBVIOUS
<1>3. old \in Rows(t)
  BY <1>1, <1>2, CurrentRow
<1>4. new \in Rows(t)
  BY <1>1, <1>2, <1>3, AssignedRow DEF StmtOK
<1>5. /\ r.ids = 0 /\ IsWrites(r.writes, n, indexes)
      /\ ~r.error => Plan(r.writes, m, t, id, new, MovedOn(m, t, old, new), MovedTo(m, MovedOn(m, t, old, new), NewParent(new)), indexes)
  <2>1. r = Updated(m, t, id, new)
    BY <1>1, <1>2 DEF update_row
  <2>2. QED
    BY <2>1, <1>1, <1>2, <1>4, UpdatedPlan
<1>6. QED
  BY <1>1, <1>5, PlanOutcome, PlanSpares

\* of a row of DELETE,
LEMMA DeleteOutcome ==
    ASSUME NEW n, n = next_row_id, ShapeOK(n, indexes), NEW m, IsMap(m, n, indexes),
           NEW st, StmtOK(st, m, n, indexes), NEW id \in Ids(m, st.t), NEW r, r = delete_row(m, st, id)
    PROVE  Outcome(r, m, st.t, n, indexes) /\ r.ids = 0 /\ (~r.error => Spares(r.writes, st.t, id))
<1>1. PICK t \in Tables : t = st.t
  BY DEF StmtOK
<1>2. PICK row : row = Row(m, t, id)
  OBVIOUS
<1>3. r = Removed(m, t, id)
  BY <1>1 DEF delete_row
<1>5. /\ r.ids = 0 /\ IsWrites(r.writes, n, indexes)
      /\ ~r.error => Plan(r.writes, m, t, id, Deleted, DroppedOn(m, t, row), DroppedTo(m, DroppedOn(m, t, row)), indexes)
  BY <1>1, <1>2, <1>3, RemovedPlan
<1>6. QED
  BY <1>1, <1>5, PlanOutcome, PlanSpares

\* A MERGE writes the child it has matched, or a new one.
LEMMA MergeOutcome ==
    ASSUME NEW n, n = next_row_id, ShapeOK(n, indexes), NEW m, IsMap(m, n, indexes),
           NEW st, StmtOK(st, m, n, indexes), st.kind = "merge", NEW p \in Elems(st.todo), NEW r, r = merge_row(m, st, p)
    PROVE  /\ Outcome(r, m, "C", n, indexes)
           /\ ~r.error => \/ \E e \in st.seen : e.row.f = p.k /\ Spares(r.writes, "C", e.id)
                          \/ Spares(r.writes, "C", n["C"])
<1> DEFINE matches == {e \in st.seen : e.row.f = p.k}
           new == [k |-> p.k, f |-> p.k]
<1>0. "C" \in Tables /\ "P" \in Tables /\ p \in Rows("P")
  BY DEF StmtOK, MergeOK, Tables
<1>1. \/ \E e \in matches : r = Overwritten(m, "C", e.id, e.row, [e.row EXCEPT !.k = st.set])
      \/ r = Inserted("C", new)
      \/ r = Error(Empty)
  BY DEF merge_row
<1>2. ASSUME NEW e \in matches, r = Overwritten(m, "C", e.id, e.row, [e.row EXCEPT !.k = st.set])
      PROVE  Outcome(r, m, "C", n, indexes) /\ (~r.error => Spares(r.writes, "C", e.id))
  <2>1. e.id \in Bound(n, "C") /\ HasRow(m, "C", e.id) /\ Row(m, "C", e.id) = e.row
    BY DEF StmtOK, MergeOK
  <2>2. n["C"] \in Int
    BY <1>0 DEF ShapeOK
  <2>3. e.id \in Ids(m, "C")
    BY <1>0, <2>1, <2>2, IdsAreRows DEF Bound
  <2>4. PICK new2, id, old : new2 = [e.row EXCEPT !.k = st.set] /\ id = e.id /\ old = e.row
    OBVIOUS
  <2>5. new2 \in Rows("C")
    BY <1>0, <2>1, <2>3, <2>4, CurrentRow, RowParts DEF StmtOK, MergeOK
  <2>6. /\ r.ids = 0 /\ IsWrites(r.writes, n, indexes)
        /\ ~r.error => Plan(r.writes, m, "C", id, new2, MovedOn(m, "C", old, new2), MovedTo(m, MovedOn(m, "C", old, new2), NewParent(new2)), indexes)
    BY <1>0, <1>2, <2>1, <2>3, <2>4, <2>5, OverwrittenPlan
  <2>7. QED
    BY <1>0, <2>4, <2>6, PlanOutcome, PlanSpares
<1>3. ASSUME r = Inserted("C", new) PROVE Outcome(r, m, "C", n, indexes) /\ Spares(r.writes, "C", n["C"])
  <2>1. p.k \in Values
    BY <1>0, RowParts
  <2>2. new \in Rows("C")
    BY <2>1 DEF Rows
  <2> HIDE DEF new
  <2>3. Plan(r.writes, m, "C", n["C"], new, {}, Empty, indexes)
    BY <1>0, <1>3, <2>2, InsertedPlan
  <2>4. QED
    BY <1>0, <1>3, <2>2, <2>3, InsertedOutcome, PlanSpares
<1>4. ASSUME r = Error(Empty) PROVE Outcome(r, m, "C", n, indexes) /\ r.error
  <2>1. r.ids = 0 /\ r.writes = Empty /\ r.error
    BY <1>4, ResultParts
  <2>2. QED
    BY <1>0, <2>1, EmptyIsWrites, NoneAllocated DEF Outcome
<1>5. QED
  BY <1>1, <1>2, <1>3, <1>4

\* An entry of the index that is being built.
ForeignEntry(m, id) == EntryKey("C", "fk", get_index_values("fk", Row(m, "C", id)), id)

\* CREATE INDEX writes one entry for a row,
LEMMA IndexEntry ==
    ASSUME NEW m, NEW st, st.t = "C", NEW id
    PROVE  DOMAIN index_row(m, st, id).writes = {ForeignEntry(m, id)}
BY DEF index_row, Ok, Put, ForeignEntry, get_index_values

\* and touches no row.
LEMMA IndexOutcome ==
    ASSUME NEW n, NEW ix, ShapeOK(n, ix), NEW m, IsMap(m, n, ix), NEW st, StmtOK(st, m, n, ix),
           st.kind = "create_index", NEW id \in Ids(m, "C"), NEW r, r = index_row(m, st, id)
    PROVE  /\ r.ids = 0 /\ r.error = FALSE /\ IsWrites(r.writes, n, ix)
           /\ \A x \in DOMAIN r.writes : r.writes[x] # Deleted
           /\ \A t, jd : ~HasRow(r.writes, t, jd)
<1> DEFINE key == EntryKey("C", "fk", Row(m, "C", id).f, id)
<1>0. st.t = "C" /\ "fk" \in ix["C"] /\ "C" \in Tables /\ key = ForeignEntry(m, id)
  BY DEF StmtOK, Tables, get_index_values, ForeignEntry
<1>1. r.ids = 0 /\ r.error = FALSE /\ r.writes = Put({key}, Null)
  BY <1>0 DEF index_row, Ok
<1>2. key[2] = "fk"
  BY KeyParts
<1>3. r.writes = [x \in {key} |-> [entry |-> TRUE]]
  BY <1>1, <1>2 DEF Put
<1>4. DOMAIN r.writes = {key} /\ r.writes[key] = [entry |-> TRUE] /\ r.writes = [x \in DOMAIN r.writes |-> r.writes[x]]
  BY <1>3
<1>5. \A t, jd : ~HasRow(r.writes, t, jd)
  BY <1>4, KeysDiffer DEF HasRow
<1>6. IsKey(key, n, ix)
  <2>1. id \in Bound(n, "C") /\ Row(m, "C", id) \in Rows("C")
    BY <1>0, CurrentRow
  <2>2. Row(m, "C", id).f \in V0
    BY <1>0, <2>1, RowParts
  <2>3. QED
    BY <1>0, <2>1, <2>2 DEF IsKey, KeyOf
<1> HIDE DEF key
<1>7. IsWrites(r.writes, n, ix)
  BY <1>4, <1>5, <1>6 DEF IsWrites
<1>8. QED
  BY <1>0, <1>1, <1>4, <1>5, <1>7, EntryValue

----------------------------------------------------------------------------
(* Sessions. *)

ViewOf(c) == Overlay(c.snap, c.w)
SessRec(c) == c = [tx |-> c.tx, auto |-> c.auto, snap |-> c.snap, w |-> c.w, failed |-> c.failed, overlaps |-> c.overlaps,
                   builds |-> c.builds, stmt |-> c.stmt]

SessOK(c, n, ix) ==
    /\ SessRec(c) /\ c.tx \in {"none", "open", "closed"}
    /\ IsMap(c.snap, n, ix) /\ IsWrites(c.w, n, ix) /\ StmtOK(c.stmt, ViewOf(c), n, ix)
    /\ c.tx # "open" => c.w = Empty /\ ~c.builds /\ c.stmt.kind = "none"
    /\ c.stmt.kind = "create_index" => c.builds

\* The rows that have no entry yet in the index the session creates.
Hidden(c) == IF c.stmt.kind = "create_index" THEN Elems(c.stmt.todo) ELSE {}
Fine(c) == c.tx = "open" /\ ~c.overlaps /\ ~c.failed

\* A transaction that nothing overlapped sees the committed map d with its own
\* writes, and the entries of its rows.
ViewOK(c, d, ix) ==
    /\ c.tx = "open" /\ ~c.overlaps => c.snap = d
    /\ Fine(c) => \A t \in Tables : Indexed(ViewOf(c), t, "pk", {})
    /\ Fine(c) /\ "fk" \in ix["C"] /\ (c.builds \/ Indexed(d, "C", "fk", {})) => Indexed(ViewOf(c), "C", "fk", Hidden(c))

Grows(n, ix, b, jx) ==
    /\ ShapeOK(n, ix) /\ ShapeOK(b, jx)
    /\ \A t \in Tables : n[t] =< b[t] /\ ix[t] \subseteq jx[t]

\* As counters and indexes grow, keys stay keys,
LEMMA KeysGrow ==
    ASSUME NEW n, NEW ix, NEW b, NEW jx, Grows(n, ix, b, jx)
    PROVE  /\ \A t \in Tables : Bound(n, t) \subseteq Bound(b, t)
           /\ \A x : IsKey(x, n, ix) => IsKey(x, b, jx)
<1>1. ASSUME NEW t \in Tables PROVE Bound(n, t) \subseteq Bound(b, t)
  <2>1. n[t] \in Int /\ b[t] \in Int /\ n[t] =< b[t]
    BY DEF Grows, ShapeOK
  <2>2. QED
    BY <2>1 DEF Bound
<1>2. \A t \in Tables : ix[t] \subseteq jx[t]
  BY DEF Grows
<1>3. QED
  BY <1>1, <1>2 DEF IsKey, KeyOf

\* maps stay maps,
LEMMA MapsGrow ==
    ASSUME NEW n, NEW ix, NEW b, NEW jx, Grows(n, ix, b, jx), NEW m
    PROVE  /\ IsMap(m, n, ix) => IsMap(m, b, jx)
           /\ IsWrites(m, n, ix) => IsWrites(m, b, jx)
BY KeysGrow DEF IsMap, IsWrites

\* statements may go on,
LEMMA StmtGrows ==
    ASSUME NEW n, NEW ix, NEW b, NEW jx, Grows(n, ix, b, jx), NEW m, NEW st, StmtOK(st, m, n, ix)
    PROVE  StmtOK(st, m, b, jx)
<1>1. Bound(n, "C") \subseteq Bound(b, "C") /\ ix["C"] \subseteq jx["C"]
  BY KeysGrow DEF Grows, Tables
<1>2. MergeOK(st, m, n) => MergeOK(st, m, b)
  BY <1>1 DEF MergeOK
<1>3. QED
  BY <1>1, <1>2 DEF StmtOK

\* and so may their sessions.
LEMMA SessGrows ==
    ASSUME NEW n, NEW ix, NEW b, NEW jx, Grows(n, ix, b, jx), NEW c, SessOK(c, n, ix)
    PROVE  SessOK(c, b, jx)
BY MapsGrow, StmtGrows DEF SessOK

\* A statement that has done a row goes on with the others.
LEMMA StmtTodo ==
    ASSUME NEW n, NEW ix, NEW m, NEW st, StmtOK(st, m, n, ix), st.todo # <<>>
    PROVE  /\ Tail(st.todo) \in Seq(Elems(Tail(st.todo))) /\ Elems(Tail(st.todo)) \subseteq Elems(st.todo)
           /\ Distinct(st.todo) => Distinct(Tail(st.todo))
<1>1. PICK q : q = st.todo
  OBVIOUS
<1>2. q \in Seq(Elems(q)) /\ q # <<>>
  BY <1>1 DEF StmtOK
<1>3. /\ Tail(q) \in Seq(Elems(Tail(q))) /\ Elems(q) = {Head(q)} \cup Elems(Tail(q))
      /\ Distinct(q) => Distinct(Tail(q))
  BY <1>2, TodoStep
<1>4. QED
  BY <1>1, <1>3

\* The statement goes on with the rest of its rows.
LEMMA StmtTail ==
    ASSUME NEW n, NEW ix, NEW m, NEW st, StmtOK(st, m, n, ix), st.todo # <<>>,
           NEW nn, NEW mm, NEW rest, rest = [st EXCEPT !.todo = Tail(@)],
           st.kind \in {"update", "delete", "create_index"} => \A id \in Elems(Tail(st.todo)) : HasRow(mm, st.t, id),
           st.kind = "merge" => MergeOK(rest, mm, nn)
    PROVE  StmtOK(rest, mm, nn, ix)
<1>1. StmtRec(rest) /\ rest.todo = Tail(st.todo)
  BY DEF StmtOK, StmtRec
<1>2. rest.kind = st.kind /\ rest.t = st.t /\ rest.set = st.set /\ rest.col = st.col /\ rest.on = st.on /\ rest.seen = st.seen /\ rest.def = st.def
  BY DEF StmtOK, StmtRec
<1>3. /\ Tail(st.todo) \in Seq(Elems(Tail(st.todo))) /\ Elems(Tail(st.todo)) \subseteq Elems(st.todo)
      /\ Distinct(st.todo) => Distinct(Tail(st.todo))
  BY StmtTodo
<1>4. st.kind \notin {"none", "done"}
  BY DEF StmtOK
<1>5. st.kind \in {"update", "delete", "create_index"} =>
          Distinct(rest.todo) /\ \A id \in Elems(rest.todo) : id \in Nat /\ HasRow(mm, st.t, id)
  BY <1>1, <1>3 DEF StmtOK
<1>6. st.kind \in {"insert", "copy"} => Elems(rest.todo) \subseteq Rows(st.t)
  BY <1>1, <1>3 DEF StmtOK
<1>7. QED
  BY <1>1, <1>2, <1>3, <1>4, <1>5, <1>6 DEF StmtOK

\* What a row of a statement does.
RowDone(r, m, st, n, ix) ==
    /\ r.ids \in {0, 1}
    /\ r.ids = 0 => IsWrites(r.writes, n, ix)
    /\ r.ids = 1 => ~r.error /\ \A x \in DOMAIN r.writes : ~IsKey(x, n, ix)
    /\ IsWrites(r.writes, Allocated(n, st.t, r.ids), ix)
    /\ ~r.error => StmtOK([st EXCEPT !.todo = Tail(@)], Overlay(m, r.writes), Allocated(n, st.t, r.ids), ix)
    /\ ~r.error /\ st.kind # "create_index" => Edits(r.writes, m, ix)
    /\ st.kind = "create_index" =>
          /\ r.ids = 0 /\ r.error = FALSE
          /\ DOMAIN r.writes = {ForeignEntry(m, Head(st.todo))}
          /\ \A x \in DOMAIN r.writes : r.writes[x] # Deleted
          /\ \A t, jd : ~HasRow(r.writes, t, jd)

\* A row that the writes leave alone.
LEMMA SparedRows ==
    ASSUME NEW m, NEW u, NEW t, NEW id, Spares(u, t, id), NEW jd, jd # id
    PROVE  /\ HasRow(Overlay(m, u), t, jd) <=> HasRow(m, t, jd)
           /\ HasRow(m, t, jd) => Row(Overlay(m, u), t, jd) = Row(m, t, jd)
BY CurrentOverlay DEF Spares

\* MERGE goes on with what it saw at its start: the rows it has still to touch
\* are there as they were, for each row of the source touches one of its own.
LEMMA MergeTail ==
    ASSUME NEW n, n = next_row_id, ShapeOK(n, indexes), NEW m, IsMap(m, n, indexes), NEW st,
           StmtOK(st, m, n, indexes),
           st.kind = "merge", st.todo # <<>>, NEW u, NEW b, Bound(n, "C") \subseteq Bound(b, "C"),
           \/ \E e \in st.seen : e.row.f = Head(st.todo).k /\ Spares(u, "C", e.id)
           \/ Spares(u, "C", n["C"]),
           NEW rest, rest = [st EXCEPT !.todo = Tail(@)]
    PROVE  MergeOK(rest, Overlay(m, u), b)
<1> DEFINE p == Head(st.todo)
<1>0. MergeOK(st, m, n)
  BY DEF StmtOK
<1>1. rest.todo = Tail(st.todo) /\ rest.set = st.set /\ rest.seen = st.seen
  BY DEF StmtOK, StmtRec
<1>2. p \in Elems(st.todo) /\ Elems(Tail(st.todo)) \subseteq Elems(st.todo) /\ Distinct(Tail(st.todo)) /\ p \notin Elems(Tail(st.todo))
  BY <1>0, TodoStep DEF StmtOK, MergeOK
<1>3. ASSUME NEW q \in Elems(Tail(st.todo)) PROVE q.k # p.k
  <2>1. p \in Rows("P") /\ q \in Rows("P")
    BY <1>0, <1>2 DEF MergeOK
  <2>2. p = [k |-> p.k, f |-> Null] /\ q = [k |-> q.k, f |-> Null]
    BY <2>1, RowParts DEF Tables
  <2>3. QED
    BY <1>2, <2>2
<1> HIDE DEF p
<1>4. ASSUME NEW d \in st.seen, NEW q \in Elems(Tail(st.todo)), q.k = d.row.f
      PROVE  HasRow(Overlay(m, u), "C", d.id) /\ Row(Overlay(m, u), "C", d.id) = d.row
  <2>1. HasRow(m, "C", d.id) /\ Row(m, "C", d.id) = d.row /\ d.id \in Bound(n, "C")
    BY <1>0, <1>2, <1>4 DEF MergeOK
  <2>2. ASSUME NEW e \in st.seen, e.row.f = p.k, Spares(u, "C", e.id) PROVE d.id # e.id
    BY <1>0, <1>3, <1>4, <2>2 DEF MergeOK
  <2>3. d.id # n["C"]
    BY <2>1 DEF Bound, ShapeOK, Tables
  <2>4. QED
    BY <2>1, <2>2, <2>3, SparedRows DEF p
<1>5. QED
  BY <1>0, <1>1, <1>2, <1>4 DEF MergeOK

\* Every row of every statement has a proper outcome.
LEMMA RowsAreDone ==
    ASSUME NEW n, n = next_row_id, ShapeOK(n, indexes), NEW m, IsMap(m, n, indexes), NEW st,
           StmtOK(st, m, n, indexes),
           st.todo # <<>>, NEW r, r = StatementRow(m, st)
    PROVE  RowDone(r, m, st, n, indexes)
<1> DEFINE item == Head(st.todo)
           rest == [st EXCEPT !.todo = Tail(@)]
           b == Allocated(n, st.t, r.ids)
           mm == Overlay(m, r.writes)
<1>0. st.t \in Tables /\ st.kind \in {"insert", "copy", "update", "delete", "create_index", "merge"}
  BY DEF StmtOK
<1>1. item \in Elems(st.todo) /\ Elems(Tail(st.todo)) \subseteq Elems(st.todo)
  BY TodoStep DEF StmtOK
<1>2. Distinct(st.todo) => item \notin Elems(Tail(st.todo))
  BY TodoStep DEF StmtOK
<1>3. ASSUME st.kind \in {"insert", "copy"} PROVE RowDone(r, m, st, n, indexes)
  <2>1. item \in Rows(st.t)
    BY <1>1, <1>3 DEF StmtOK
  <2>2. Outcome(r, m, st.t, n, indexes)
    <3>1. CASE st.kind = "insert"
      BY <3>1, <2>1, InsertOutcome DEF StatementRow
    <3>2. CASE st.kind = "copy"
      <4>1. r = Inserted(st.t, item)
        BY <3>2 DEF StatementRow, copy_row
      <4>2. QED
        BY <4>1, <1>0, <2>1, InsertedOutcome
    <3>3. QED
      BY <1>3, <3>1, <3>2
  <2>3. StmtOK(rest, mm, b, indexes)
    BY <1>3, StmtTail
  <2>4. QED
    BY <1>3, <2>2, <2>3 DEF Outcome, RowDone
<1>4. ASSUME st.kind \in {"update", "delete"} PROVE RowDone(r, m, st, n, indexes)
  <2>1. Distinct(st.todo) /\ \A id \in Elems(st.todo) : id \in Nat /\ HasRow(m, st.t, id)
    BY <1>4 DEF StmtOK
  <2>2. item \in Ids(m, st.t)
    BY <1>0, <1>1, <2>1, IdsAreRows
  <2>3. Outcome(r, m, st.t, n, indexes) /\ r.ids = 0 /\ (~r.error => Spares(r.writes, st.t, item))
    <3>1. CASE st.kind = "update"
      BY <3>1, <2>2, UpdateOutcome DEF StatementRow
    <3>2. CASE st.kind = "delete"
      BY <3>2, <2>2, DeleteOutcome DEF StatementRow
    <3>3. QED
      BY <1>4, <3>1, <3>2
  <2>4. ASSUME ~r.error PROVE StmtOK(rest, mm, b, indexes)
    <3>1. \A id \in Elems(Tail(st.todo)) : HasRow(mm, st.t, id)
      BY <1>1, <1>2, <2>1, <2>3, <2>4, SparedRows
    <3>2. QED
      BY <1>4, <3>1, StmtTail
  <2>5. QED
    BY <1>4, <2>3, <2>4 DEF Outcome, RowDone
<1>5. ASSUME st.kind = "merge" PROVE RowDone(r, m, st, n, indexes)
  <2>0. st.t = "C"
    BY <1>5 DEF StmtOK
  <2>1. /\ Outcome(r, m, "C", n, indexes)
        /\ ~r.error => \/ \E e \in st.seen : e.row.f = item.k /\ Spares(r.writes, "C", e.id)
                       \/ Spares(r.writes, "C", n["C"])
    BY <1>1, <1>5, MergeOutcome DEF StatementRow
  <2>2. ASSUME ~r.error PROVE StmtOK(rest, mm, b, indexes)
    <3>1. Grows(n, indexes, b, indexes)
      BY <1>0, <2>1, AllocatedShape DEF Outcome, Grows
    <3>2. Bound(n, "C") \subseteq Bound(b, "C")
      BY <3>1, KeysGrow DEF Tables
    <3>3. MergeOK(rest, mm, b)
      BY <1>5, <2>1, <2>2, <3>2, MergeTail
    <3>4. QED
      BY <1>5, <3>3, StmtTail
  <2>3. QED
    BY <1>5, <2>0, <2>1, <2>2 DEF Outcome, RowDone
<1>6. ASSUME st.kind = "create_index" PROVE RowDone(r, m, st, n, indexes)
  <2>0. st.t = "C" /\ Distinct(st.todo) /\ \A id \in Elems(st.todo) : id \in Nat /\ HasRow(m, "C", id)
    BY <1>6 DEF StmtOK
  <2>1. item \in Ids(m, "C")
    BY <1>0, <1>1, <2>0, IdsAreRows
  <2>2. r = index_row(m, st, item)
    BY <1>6 DEF StatementRow
  <2>3. /\ r.ids = 0 /\ r.error = FALSE /\ IsWrites(r.writes, n, indexes)
        /\ DOMAIN r.writes = {ForeignEntry(m, item)}
        /\ \A x \in DOMAIN r.writes : r.writes[x] # Deleted
        /\ \A t, jd : ~HasRow(r.writes, t, jd)
    <3>1. PICK id \in Ids(m, "C") : id = item
      BY <2>1
    <3>2. r = index_row(m, st, id)
      BY <2>2, <3>1
    <3>3. /\ r.ids = 0 /\ r.error = FALSE /\ IsWrites(r.writes, n, indexes)
      BY <1>6, <3>2, IndexOutcome
    <3>4. \A x \in DOMAIN r.writes : r.writes[x] # Deleted
      BY <1>6, <3>2, IndexOutcome
    <3>5. \A t, jd : ~HasRow(r.writes, t, jd)
      BY <1>6, <3>2, IndexOutcome
    <3>7. DOMAIN r.writes = {ForeignEntry(m, id)}
      BY <2>0, <3>2, IndexEntry
    <3>6. QED
      BY <3>1, <3>3, <3>4, <3>5, <3>7
  <2>4. b = n
    BY <1>0, <2>3, NoneAllocated
  <2>5. \A id \in Elems(Tail(st.todo)) : HasRow(mm, st.t, id)
    BY <1>1, <2>0, <2>3, CurrentOverlay
  <2>6. StmtOK(rest, mm, b, indexes)
    BY <1>6, <2>5, StmtTail
  <2>7. QED
    BY <1>6, <2>3, <2>4, <2>6 DEF RowDone
<1>7. QED
  BY <1>0, <1>3, <1>4, <1>5, <1>6

\* A session at rest.
LEMMA IdleOK ==
    ASSUME NEW n, NEW ix, NEW d, NEW m
    PROVE  /\ StmtOK(NoStmt, m, n, ix) /\ StmtOK([NoStmt EXCEPT !.kind = "done"], m, n, ix)
           /\ SessOK(Idle, n, ix) /\ ViewOK(Idle, d, ix)
           /\ SessOK([Idle EXCEPT !.tx = "closed"], n, ix) /\ ViewOK([Idle EXCEPT !.tx = "closed"], d, ix)
           /\ ~Idle.builds /\ ~[Idle EXCEPT !.tx = "closed"].builds
<1>1. ASSUME NEW k \in {"none", "done"}, NEW st, st = [NoStmt EXCEPT !.kind = k] PROVE \A mm : StmtOK(st, mm, n, ix)
  <2>1. /\ st.kind = k /\ st.t = "P" /\ st.todo = <<>> /\ st.set = Null /\ st.col = "k" /\ st.on = "error" /\ st.seen = {} /\ st.def = 0
        /\ StmtRec(st)
    BY <1>1 DEF NoStmt, StmtRec
  <2>2. <<>> \in Seq(Elems(<<>>))
    OBVIOUS
  <2>3. QED
    BY <2>1, <2>2 DEF StmtOK, Tables
<1>2. NoStmt = [NoStmt EXCEPT !.kind = "none"] /\ NoStmt.kind = "none"
  BY DEF NoStmt
<1>3. ASSUME NEW c, SessRec(c), c.tx \in {"none", "closed"}, c.snap = Empty, c.w = Empty, c.stmt = NoStmt,
             c.builds = FALSE
      PROVE  SessOK(c, n, ix) /\ ViewOK(c, d, ix)
  <2>1. StmtOK(NoStmt, ViewOf(c), n, ix)
    BY <1>1, <1>2
  <2>2. QED
    BY <1>2, <1>3, <2>1, EmptyIsWrites DEF SessOK, ViewOK, Fine
<1>4. SessRec(Idle) /\ Idle.tx = "none" /\ Idle.snap = Empty /\ Idle.w = Empty /\ Idle.stmt = NoStmt /\ Idle.builds = FALSE
  BY DEF Idle, SessRec
<1>5. ASSUME NEW c, c = [Idle EXCEPT !.tx = "closed"]
      PROVE  SessRec(c) /\ c.tx = "closed" /\ c.snap = Empty /\ c.w = Empty /\ c.stmt = NoStmt /\ c.builds = FALSE
  BY <1>5 DEF Idle, SessRec
<1>6. QED
  BY <1>1, <1>2, <1>3, <1>4, <1>5

\* What a statement writes for a row is on top of what its session sees.
LEMMA EntryBuilt ==
    ASSUME NEW n, NEW ix, ShapeOK(n, ix), NEW m, IsMap(m, n, ix), NEW u, NEW id \in Ids(m, "C"),
           DOMAIN u = {ForeignEntry(m, id)}, \A x \in DOMAIN u : u[x] # Deleted, \A t, jd : ~HasRow(u, t, jd)
    PROVE  /\ \A t \in Tables : Indexed(m, t, "pk", {}) => Indexed(Overlay(m, u), t, "pk", {})
           /\ \A hidden : id \in hidden /\ Indexed(m, "C", "fk", hidden) => Indexed(Overlay(m, u), "C", "fk", hidden \ {id})
<1> DEFINE mm == Overlay(m, u)
<1>0. "C" \in Tables /\ id \in Nat /\ HasRow(m, "C", id) /\ Row(m, "C", id) \in Rows("C")
  BY IdsAreRows DEF Tables
<1>1. DOMAIN mm = DOMAIN m \cup {ForeignEntry(m, id)}
  BY DEF Overlay
<1>2. \A t, jd : (HasRow(mm, t, jd) <=> HasRow(m, t, jd)) /\ (HasRow(m, t, jd) => Row(mm, t, jd) = Row(m, t, jd))
  BY CurrentOverlay
<1>3. get_index_values("fk", Row(m, "C", id)) \in V0
  BY <1>0, IndexValue
<1> HIDE DEF mm
<1>4. ASSUME NEW t \in Tables, Indexed(m, t, "pk", {}) PROVE Indexed(mm, t, "pk", {})
  <2>1. \A jd, v : EntryKey(t, "pk", v, jd) # ForeignEntry(m, id)
    BY KeysDiffer DEF ForeignEntry
  <2>2. QED
    BY <1>1, <1>2, <1>4, <2>1 DEF Indexed
<1>5. ASSUME NEW hidden, id \in hidden, Indexed(m, "C", "fk", hidden) PROVE Indexed(mm, "C", "fk", hidden \ {id})
  <2> SUFFICES ASSUME NEW jd \in Nat, NEW v \in V0
               PROVE  EntryKey("C", "fk", v, jd) \in DOMAIN mm <=>
                        HasRow(mm, "C", jd) /\ jd \notin hidden \ {id} /\ v = get_index_values("fk", Row(mm, "C", jd))
    BY DEF Indexed
  <2>1. EntryKey("C", "fk", v, jd) = ForeignEntry(m, id) <=> jd = id /\ v = get_index_values("fk", Row(m, "C", id))
    BY KeysDiffer DEF ForeignEntry
  <2>2. EntryKey("C", "fk", v, jd) \in DOMAIN m <=>
          HasRow(m, "C", jd) /\ jd \notin hidden /\ v = get_index_values("fk", Row(m, "C", jd))
    BY <1>5 DEF Indexed
  <2>3. QED
    BY <1>0, <1>1, <1>2, <1>5, <2>1, <2>2
<1>6. QED
  BY <1>4, <1>5 DEF mm

AfterRow(c, u) == [c EXCEPT !.w = Then(c.w, u), !.stmt = [c.stmt EXCEPT !.todo = Tail(@)]]

\* A session that does a row: what it would commit keeps its indexes exact.
LEMMA RowStep ==
    ASSUME NEW n, n = next_row_id, ShapeOK(n, indexes), NEW c, SessOK(c, n, indexes), NEW d, ViewOK(c, d, indexes),
           c.tx = "open", c.stmt.todo # <<>>, NEW m, m = ViewOf(c), NEW r, r = StatementRow(m, c.stmt), ~r.error,
           NEW b, b = Allocated(n, c.stmt.t, r.ids),
           NEW e, e = AfterRow(c, r.writes)
    PROVE  /\ SessOK(e, b, indexes) /\ ViewOK(e, d, indexes) /\ Grows(n, indexes, b, indexes)
           /\ Hidden(c) # {} \/ DOMAIN c.w # {} => DOMAIN e.w # {}
<1> DEFINE u == r.writes
           rest == [c.stmt EXCEPT !.todo = Tail(@)]
<1>1. IsMap(m, n, indexes)
  BY OverlayIsMap DEF SessOK, ViewOf
<1>2. RowDone(r, m, c.stmt, n, indexes)
  BY <1>1, RowsAreDone DEF SessOK
<1>3. Grows(n, indexes, b, indexes)
  <2>1. c.stmt.t \in Tables /\ r.ids \in Nat
    BY <1>2 DEF SessOK, StmtOK, RowDone
  <2>2. QED
    BY <2>1, AllocatedShape DEF Grows
<1>4. SessRec(e) /\ e.tx = c.tx /\ e.snap = c.snap /\ e.w = Then(c.w, u) /\ e.stmt = rest
      /\ e.failed = c.failed /\ e.overlaps = c.overlaps /\ e.builds = c.builds
  BY DEF SessOK, SessRec, AfterRow
<1>5. rest.kind = c.stmt.kind /\ rest.todo = Tail(c.stmt.todo)
  BY DEF SessOK, StmtOK, StmtRec
<1>6. ViewOf(e) = Overlay(m, u)
  BY <1>4, OverlayThen DEF ViewOf
<1>7. IsWrites(u, b, indexes) /\ StmtOK(rest, Overlay(m, u), b, indexes)
  BY <1>2 DEF RowDone
<1> HIDE DEF rest
<1>8. IsMap(c.snap, b, indexes) /\ IsWrites(c.w, b, indexes) /\ IsMap(m, b, indexes)
  BY <1>1, <1>3, MapsGrow DEF SessOK
<1>9. IsWrites(e.w, b, indexes)
  BY <1>4, <1>7, <1>8, ThenIsWrites
<1>10. SessOK(e, b, indexes)
  BY <1>4, <1>5, <1>6, <1>7, <1>8, <1>9 DEF SessOK
<1>11. IsMap(Overlay(m, u), b, indexes)
  BY <1>3, <1>7, <1>8, OverlayIsMap DEF Grows
<1>12. DOMAIN c.w \subseteq DOMAIN e.w /\ DOMAIN u \subseteq DOMAIN e.w
  BY <1>4 DEF Then
<1>13. Fine(e) <=> Fine(c)
  BY <1>4 DEF Fine
<1>14. CASE c.stmt.kind # "create_index"
  <2>1. Hidden(c) = {} /\ Hidden(e) = {}
    BY <1>4, <1>5, <1>14 DEF Hidden
  <2>2. Edits(u, m, indexes)
    BY <1>2, <1>14 DEF RowDone
  <2>3. ShapeOK(b, indexes)
    BY <1>3 DEF Grows
  <2>4. \A t \in Tables : \A i \in indexes[t] : Indexed(m, t, i, {}) => Indexed(Overlay(m, u), t, i, {})
    BY <1>8, <1>11, <2>2, <2>3, EditsKeepIndexes
  <2>5. \A t \in Tables : "pk" \in indexes[t]
    BY DEF ShapeOK, Tables
  <2>6. "C" \in Tables
    BY DEF Tables
  <2>7. ViewOK(e, d, indexes)
    BY <1>4, <1>6, <1>13, <2>1, <2>4, <2>5, <2>6 DEF ViewOK
  <2>8. QED
    BY <1>3, <1>10, <1>12, <2>1, <2>7
<1>15. CASE c.stmt.kind = "create_index"
  <2>1. PICK id : id = Head(c.stmt.todo)
    OBVIOUS
  <2>2. DOMAIN u = {ForeignEntry(m, id)} /\ (\A x \in DOMAIN u : u[x] # Deleted) /\ \A t, jd : ~HasRow(u, t, jd)
    BY <1>2, <1>15, <2>1 DEF RowDone
  <2>3. /\ c.stmt.todo \in Seq(Elems(c.stmt.todo)) /\ c.stmt.t = "C" /\ Distinct(c.stmt.todo)
        /\ \A jd \in Elems(c.stmt.todo) : jd \in Nat /\ HasRow(m, "C", jd)
    BY <1>15 DEF SessOK, StmtOK
  <2>4. id \in Elems(c.stmt.todo) /\ Elems(Tail(c.stmt.todo)) = Elems(c.stmt.todo) \ {id}
    <3>1. PICK q : q = c.stmt.todo
      OBVIOUS
    <3>2. id \in Elems(q) /\ Elems(q) = {id} \cup Elems(Tail(q)) /\ id \notin Elems(Tail(q))
      BY <2>1, <2>3, <3>1, TodoStep
    <3>3. QED
      BY <3>1, <3>2
  <2>5. id \in Ids(m, "C")
    BY <1>1, <2>3, <2>4, IdsAreRows DEF Tables
  <2>6. Hidden(c) = Elems(c.stmt.todo) /\ Hidden(e) = Hidden(c) \ {id}
    BY <1>4, <1>5, <1>15, <2>4 DEF Hidden
  <2>7. /\ \A t \in Tables : Indexed(m, t, "pk", {}) => Indexed(Overlay(m, u), t, "pk", {})
        /\ Indexed(m, "C", "fk", Hidden(c)) => Indexed(Overlay(m, u), "C", "fk", Hidden(e))
    BY <1>1, <2>2, <2>4, <2>5, <2>6, EntryBuilt
  <2>8. ViewOK(e, d, indexes)
    BY <1>4, <1>6, <1>13, <2>7 DEF ViewOK
  <2>9. QED
    BY <1>3, <1>10, <1>12, <2>2, <2>8
<1>16. QED
  BY <1>14, <1>15

----------------------------------------------------------------------------
(* The invariant of the indexes. *)

Covered == excused \subseteq {"unchecked"}

\* The transaction that creates the index on C.f, before it has committed.
Builds(c) == c.builds /\ (Hidden(c) # {} \/ DOMAIN c.w # {})

DbOK ==
    /\ ShapeOK(next_row_id, indexes) /\ IsMap(db, next_row_id, indexes)
    /\ \A t \in Tables : Indexed(db, t, "pk", {})
    /\ "fk" \in indexes["C"] => Indexed(db, "C", "fk", {}) \/ \E o \in Sessions : Builds(sess[o])
SessionsOK ==
    /\ sess = [s \in Sessions |-> sess[s]]
    /\ \A s \in Sessions : SessOK(sess[s], next_row_id, indexes) /\ ViewOK(sess[s], db, indexes)
    /\ \A a, o \in Sessions : sess[a].builds /\ sess[o].builds => a = o
IndexInv == Covered => DbOK /\ SessionsOK

\* One session moves on; the committed maps and the indexes stay.
LEMMA SessionStep ==
    ASSUME DbOK, SessionsOK, NEW s \in Sessions, NEW e, sess' = [sess EXCEPT ![s] = e], db' = db, indexes' = indexes,
           Grows(next_row_id, indexes, next_row_id', indexes), SessOK(e, next_row_id', indexes), ViewOK(e, db, indexes),
           e.builds => sess[s].builds, Builds(sess[s]) => Builds(e)
    PROVE  IndexInv'
<1>1. sess'[s] = e /\ sess' = [o \in Sessions |-> sess'[o]] /\ \A o \in Sessions \ {s} : sess'[o] = sess[o]
  BY DEF SessionsOK
<1>2. ShapeOK(next_row_id', indexes) /\ IsMap(db, next_row_id', indexes)
  BY MapsGrow DEF DbOK, Grows
<1>3. \A o \in Sessions : Builds(sess[o]) => Builds(sess'[o])
  BY <1>1
<1>4. DbOK'
  BY <1>2, <1>3 DEF DbOK
<1>5. \A o \in Sessions : SessOK(sess[o], next_row_id', indexes) /\ ViewOK(sess[o], db, indexes)
  BY SessGrows DEF SessionsOK
<1>6. \A o \in Sessions : SessOK(sess'[o], next_row_id', indexes) /\ ViewOK(sess'[o], db, indexes)
  BY <1>1, <1>5
<1>7. \A o \in Sessions : sess'[o].builds => sess[o].builds
  BY <1>1
<1>8. SessionsOK'
  BY <1>1, <1>6, <1>7 DEF SessionsOK
<1>9. QED
  BY <1>4, <1>8 DEF IndexInv

\* Nothing changes.
LEMMA SameCounters ==
    ASSUME DbOK
    PROVE  Grows(next_row_id, indexes, next_row_id, indexes)
BY DEF DbOK, Grows, ShapeOK

\* A transaction begins with the committed maps,
LEMMA BegunOK ==
    ASSUME DbOK, NEW auto \in BOOLEAN, NEW c, c = Begun(auto)
    PROVE  /\ SessOK(c, next_row_id, indexes) /\ ViewOK(c, db, indexes)
           /\ c.tx = "open" /\ c.stmt = NoStmt /\ c.stmt.kind = "none" /\ c.builds = FALSE /\ c.w = Empty /\ c.snap = db
           /\ c.overlaps = FALSE /\ ViewOf(c) = db
<1>1. SessRec(c) /\ c.tx = "open" /\ c.stmt = NoStmt /\ c.builds = FALSE /\ c.w = Empty /\ c.snap = db /\ c.overlaps = FALSE
  BY DEF Begun, Idle, SessRec
<1>2. NoStmt.kind = "none"
  BY DEF NoStmt
<1>3. ViewOf(c) = db
  BY <1>1, OverlayEmpty DEF ViewOf, DbOK, IsMap
<1>4. StmtOK(NoStmt, ViewOf(c), next_row_id, indexes)
  BY IdleOK
<1>5. SessOK(c, next_row_id, indexes)
  BY <1>1, <1>2, <1>4, EmptyIsWrites DEF SessOK, DbOK
<1>6. ViewOK(c, db, indexes)
  BY <1>1, <1>2, <1>3 DEF ViewOK, DbOK, Hidden
<1>7. QED
  BY <1>1, <1>2, <1>3, <1>5, <1>6

\* and a statement in the transaction of its session, or in one of its own.
LEMMA OpenedOK ==
    ASSUME DbOK, SessionsOK, NEW s \in Sessions, sess[s].tx \in {"none", "open"}, sess[s].stmt.kind = "none",
           NEW c, c = Opened(s)
    PROVE  /\ SessOK(c, next_row_id, indexes) /\ ViewOK(c, db, indexes)
           /\ c.tx = "open" /\ c.stmt.kind = "none" /\ ViewOf(c) = Sees(s)
           /\ c.builds => c = sess[s]
           /\ sess[s].builds => c = sess[s]
           /\ IsMap(Sees(s), next_row_id, indexes)
<1>1. ViewOf(c) = Sees(s)
  BY DEF ViewOf, Sees
<1>2. CASE sess[s].tx = "none"
  <2>1. c = Begun(TRUE) /\ ~sess[s].builds
    BY <1>2 DEF Opened, SessionsOK, SessOK
  <2>2. QED
    BY <1>1, <2>1, BegunOK DEF DbOK
<1>3. CASE sess[s].tx = "open"
  <2>1. c = sess[s]
    BY <1>3 DEF Opened
  <2>2. SessOK(c, next_row_id, indexes) /\ ViewOK(c, db, indexes)
    BY <2>1 DEF SessionsOK
  <2>3. IsMap(ViewOf(c), next_row_id, indexes)
    BY <2>2, OverlayIsMap DEF SessOK, DbOK, ViewOf
  <2>4. QED
    BY <1>1, <1>3, <2>1, <2>2, <2>3
<1>4. QED
  BY <1>2, <1>3

\* The statement as it starts.
Started(s, st, todo) == [st EXCEPT !.todo = todo,
    !.seen = {[id |-> id, row |-> Row(Sees(s), "C", id)] : id \in IF st.kind = "merge" THEN Ids(Sees(s), "C") ELSE {}}]

\* A statement starts with the rows it is to do.
LEMMA StartStep ==
    ASSUME DbOK, SessionsOK, NEW s \in Sessions, NEW st, NEW todo, Start(s, st, todo), indexes' = indexes,
           st.kind # "create_index", NEW st2, st2 = Started(s, st, todo), st2.kind = st.kind,
           StmtOK(st2, Sees(s), next_row_id, indexes)
    PROVE  IndexInv'
<1>1. PICK c : c = Opened(s)
  OBVIOUS
<1>2. sess[s].tx \in {"none", "open"} /\ sess[s].stmt.kind = "none" /\ db' = db /\ next_row_id' = next_row_id
  BY DEF Start
<1>3. PICK e : e = [c EXCEPT !.builds = c.builds \/ st.kind = "create_index", !.stmt = st2]
  OBVIOUS
<1>4. sess' = [sess EXCEPT ![s] = e]
  BY <1>1, <1>3 DEF Start, Started
<1>5. /\ SessOK(c, next_row_id, indexes) /\ ViewOK(c, db, indexes)
      /\ c.tx = "open" /\ c.stmt.kind = "none" /\ ViewOf(c) = Sees(s)
      /\ c.builds => c = sess[s]
      /\ sess[s].builds => c = sess[s]
  BY <1>1, <1>2, OpenedOK
<1>6. /\ SessRec(e) /\ e.tx = c.tx /\ e.snap = c.snap /\ e.w = c.w /\ e.stmt = st2
      /\ e.overlaps = c.overlaps /\ e.failed = c.failed /\ (e.builds <=> c.builds)
  BY <1>3, <1>5 DEF SessOK, SessRec
<1>7. ViewOf(e) = ViewOf(c) /\ (Fine(e) <=> Fine(c)) /\ Hidden(e) = {} /\ Hidden(c) = {}
  BY <1>5, <1>6 DEF ViewOf, Fine, Hidden
<1>8. SessOK(e, next_row_id, indexes)
  BY <1>5, <1>6, <1>7 DEF SessOK
<1>9. ViewOK(e, db, indexes)
  BY <1>5, <1>6, <1>7 DEF ViewOK
<1>10. (e.builds => sess[s].builds) /\ (Builds(sess[s]) => Builds(e))
  BY <1>5, <1>6, <1>7 DEF Builds
<1>11. Grows(next_row_id, indexes, next_row_id', indexes)
  BY <1>2, SameCounters
<1>12. QED
  BY <1>2, <1>4, <1>8, <1>9, <1>10, <1>11, SessionStep

\* The steps that start a transaction or a statement keep the invariant.
LEMMA BeginStep ==
    ASSUME DbOK, SessionsOK, NEW s \in Sessions, begin(s)
    PROVE  IndexInv'
<1>1. PICK e : e = Begun(FALSE)
  OBVIOUS
<1>2. sess' = [sess EXCEPT ![s] = e] /\ db' = db /\ indexes' = indexes /\ next_row_id' = next_row_id /\ sess[s].tx = "none"
  BY <1>1 DEF begin
<1>3. SessOK(e, next_row_id, indexes) /\ ViewOK(e, db, indexes) /\ e.builds = FALSE
  BY <1>1, BegunOK
<1>4. ~sess[s].builds
  BY <1>2 DEF SessionsOK, SessOK
<1>5. QED
  BY <1>2, <1>3, <1>4, SameCounters, SessionStep DEF Builds

\* A statement as it starts.
LEMMA StartedParts ==
    ASSUME NEW s, NEW st, StmtRec(st), NEW todo, NEW st2, st2 = Started(s, st, todo)
    PROVE  /\ StmtRec(st2) /\ st2.kind = st.kind /\ st2.t = st.t /\ st2.set = st.set /\ st2.col = st.col /\ st2.on = st.on
           /\ st2.def = st.def /\ st2.todo = todo
<1>1. PICK x : x = {[id |-> id, row |-> Row(Sees(s), "C", id)] : id \in IF st.kind = "merge" THEN Ids(Sees(s), "C") ELSE {}}
  OBVIOUS
<1>2. st2 = [st EXCEPT !.todo = todo, !.seen = x]
  BY <1>1 DEF Started
<1>3. QED
  BY <1>2 DEF StmtRec

\* MERGE has read the target table as it starts.
LEMMA StartedSeen ==
    ASSUME NEW s, NEW st, StmtRec(st), st.kind = "merge", NEW todo, NEW st2, st2 = Started(s, st, todo)
    PROVE  st2.seen = {[id |-> id, row |-> Row(Sees(s), "C", id)] : id \in Ids(Sees(s), "C")}
<1>1. PICK x : x = {[id |-> id, row |-> Row(Sees(s), "C", id)] : id \in Ids(Sees(s), "C")}
  OBVIOUS
<1>2. st2 = [st EXCEPT !.todo = todo, !.seen = x]
  BY <1>1 DEF Started
<1>3. st2.seen = x
  BY <1>2 DEF StmtRec
<1>4. QED
  BY <1>1, <1>3

\* Lists of one and of two.
LEMMA ShortLists ==
    /\ \A a : Elems(<<a>>) = {a} /\ <<a>> \in Seq(Elems(<<a>>))
    /\ \A a, b : Elems(<<a, b>>) = {a, b} /\ <<a, b>> \in Seq(Elems(<<a, b>>))
<1>1. ASSUME NEW a PROVE Elems(<<a>>) = {a} /\ <<a>> \in Seq(Elems(<<a>>))
  <2>1. Len(<<a>>) = 1 /\ <<a>>[1] = a /\ <<a>> \in Seq({a})
    OBVIOUS
  <2>2. Elems(<<a>>) = {a}
    BY <2>1 DEF Elems
  <2>3. QED
    BY <2>1, <2>2
<1>2. ASSUME NEW a, NEW b PROVE Elems(<<a, b>>) = {a, b} /\ <<a, b>> \in Seq(Elems(<<a, b>>))
  <2>1. Len(<<a, b>>) = 2 /\ <<a, b>>[1] = a /\ <<a, b>>[2] = b /\ <<a, b>> \in Seq({a, b})
    OBVIOUS
  <2>2. Elems(<<a, b>>) = {a, b}
    BY <2>1 DEF Elems
  <2>3. QED
    BY <2>1, <2>2
<1>3. QED
  BY <1>1, <1>2

\* INSERT and COPY are given rows of the table.
LEMMA RowListsAreRows ==
    ASSUME NEW t, NEW q \in RowLists(t)
    PROVE  Elems(q) \subseteq Rows(t) /\ q \in Seq(Elems(q))
<1>1. ASSUME NEW r \in Rows(t), q = <<r>> PROVE Elems(q) \subseteq Rows(t) /\ q \in Seq(Elems(q))
  BY <1>1, ShortLists
<1>2. ASSUME NEW r \in Rows(t), NEW o \in Rows(t), q = <<r, o>>
      PROVE Elems(q) \subseteq Rows(t) /\ q \in Seq(Elems(q))
  BY <1>2, ShortLists
<1>3. (\E r \in Rows(t) : q = <<r>>) \/ \E r, o \in Rows(t) : q = <<r, o>>
  <2>1. q \in {<<r>> : r \in Rows(t)} \/ q \in Rows(t) \X Rows(t)
    BY DEF RowLists
  <2>2. QED
    BY <2>1
<1>4. QED
  BY <1>1, <1>2, <1>3

\* INSERT starts.
LEMMA InsertStep ==
    ASSUME DbOK, SessionsOK, NEW s \in Sessions, insert(s)
    PROVE  IndexInv'
<1>1. PICK t \in Tables, on \in {"error", "nothing", "update", "duplicate"}, v \in Values \cup {Null} :
        \E rows \in RowLists(t) :
            /\ v = Null <=> on # "duplicate"
            /\ Start(s, [NoStmt EXCEPT !.kind = "insert", !.t = t, !.on = on, !.set = v], rows)
            /\ indexes' = indexes
  BY DEF insert
<1>2. PICK rows \in RowLists(t) :
            /\ v = Null <=> on # "duplicate"
            /\ Start(s, [NoStmt EXCEPT !.kind = "insert", !.t = t, !.on = on, !.set = v], rows)
            /\ indexes' = indexes
  BY <1>1
<1>3. PICK st : st = [NoStmt EXCEPT !.kind = "insert", !.t = t, !.on = on, !.set = v]
  OBVIOUS
<1>4. StmtRec(st) /\ st.kind = "insert" /\ st.t = t /\ st.on = on /\ st.set = v /\ st.def = 0
  BY <1>3 DEF NoStmt, StmtRec
<1>5. Elems(rows) \subseteq Rows(t) /\ rows \in Seq(Elems(rows))
  BY RowListsAreRows
<1>6. PICK st2 : st2 = Started(s, st, rows)
  OBVIOUS
<1>a. StmtRec(st2) /\ st2.kind = st.kind /\ st2.t = st.t /\ st2.set = st.set /\ st2.on = st.on /\ st2.def = st.def /\ st2.todo = rows
  BY <1>4, <1>6, StartedParts
<1>7. StmtRec(st2) /\ st2.kind = "insert" /\ st2.t = t /\ st2.set = v /\ st2.on = on /\ st2.def = 0 /\ st2.todo = rows
  BY <1>4, <1>a
<1>8. StmtOK(st2, Sees(s), next_row_id, indexes)
  BY <1>2, <1>5, <1>7 DEF StmtOK
<1>9. QED
  BY <1>2, <1>3, <1>4, <1>6, <1>7, <1>8, StartStep

\* COPY starts.
LEMMA CopyStep ==
    ASSUME DbOK, SessionsOK, NEW s \in Sessions, copy(s)
    PROVE  IndexInv'
<1>1. PICK r \in Rows("C") : Start(s, [NoStmt EXCEPT !.kind = "copy", !.t = "C"], <<r>>) /\ indexes' = indexes
  BY DEF copy
<1>2. PICK st : st = [NoStmt EXCEPT !.kind = "copy", !.t = "C"]
  OBVIOUS
<1>3. StmtRec(st) /\ st.kind = "copy" /\ st.t = "C" /\ st.def = 0
  BY <1>2 DEF NoStmt, StmtRec
<1>4. PICK q : q = <<r>>
  OBVIOUS
<1>5. Elems(q) \subseteq Rows("C") /\ q \in Seq(Elems(q))
  BY <1>4, ShortLists
<1>6. PICK st2 : st2 = Started(s, st, q)
  OBVIOUS
<1>a. StmtRec(st2) /\ st2.kind = st.kind /\ st2.t = st.t /\ st2.def = st.def /\ st2.todo = q
  BY <1>3, <1>6, StartedParts
<1>7. StmtRec(st2) /\ st2.kind = "copy" /\ st2.t = "C" /\ st2.def = 0 /\ st2.todo = q
  BY <1>3, <1>a
<1>8. StmtOK(st2, Sees(s), next_row_id, indexes)
  BY <1>5, <1>7 DEF StmtOK, Tables
<1>9. QED
  BY <1>1, <1>2, <1>3, <1>4, <1>6, <1>7, <1>8, StartStep

\* Rows are found among those that the session sees, each once.
LEMMA FoundLists ==
    ASSUME DbOK, NEW m, IsMap(m, next_row_id, indexes), NEW t \in Tables, NEW v, NEW q \in Orders(Found(m, t, v))
    PROVE  q \in Seq(Elems(q)) /\ Distinct(q) /\ Elems(q) \subseteq Ids(m, t) /\ \A id \in Elems(q) : id \in Nat /\ HasRow(m, t, id)
<1>1. Found(m, t, v) \subseteq Ids(m, t)
  BY DEF Found, scan_prefix_visible
<1>2. IsFiniteSet(Found(m, t, v))
  BY <1>1, FiniteIds DEF DbOK
<1>3. q \in Seq(Elems(q)) /\ Distinct(q) /\ Elems(q) = Found(m, t, v)
  BY <1>2, OrderLists
<1>4. \A id \in Ids(m, t) : id \in Nat /\ HasRow(m, t, id)
  BY IdsAreRows DEF DbOK
<1>5. QED
  BY <1>1, <1>3, <1>4

\* UPDATE starts, with the rows a scan has found.
LEMMA UpdateStep ==
    ASSUME DbOK, SessionsOK, NEW s \in Sessions, update(s)
    PROVE  IndexInv'
<1>1. PICK t \in Tables, col \in {"k", "f"}, v \in Values, where \in Values :
        \E order \in Orders(Found(Sees(s), t, where)) :
            /\ col = "f" => t = "C"
            /\ Start(s, [NoStmt EXCEPT !.kind = "update", !.t = t, !.col = col, !.set = v], order)
            /\ indexes' = indexes
  BY DEF update
<1>2. PICK order \in Orders(Found(Sees(s), t, where)) :
            /\ col = "f" => t = "C"
            /\ Start(s, [NoStmt EXCEPT !.kind = "update", !.t = t, !.col = col, !.set = v], order)
            /\ indexes' = indexes
  BY <1>1
<1>3. PICK st : st = [NoStmt EXCEPT !.kind = "update", !.t = t, !.col = col, !.set = v]
  OBVIOUS
<1>4. StmtRec(st) /\ st.kind = "update" /\ st.t = t /\ st.col = col /\ st.set = v /\ st.def = 0
  BY <1>3 DEF NoStmt, StmtRec
<1>5. IsMap(Sees(s), next_row_id, indexes)
  BY <1>2, OpenedOK DEF Start
<1>6. order \in Seq(Elems(order)) /\ Distinct(order) /\ \A id \in Elems(order) : id \in Nat /\ HasRow(Sees(s), t, id)
  BY <1>5, FoundLists
<1>7. PICK st2 : st2 = Started(s, st, order)
  OBVIOUS
<1>8. StmtRec(st2) /\ st2.kind = "update" /\ st2.t = t /\ st2.set = v /\ st2.col = col /\ st2.def = 0 /\ st2.todo = order
  BY <1>4, <1>7, StartedParts
<1>9. StmtOK(st2, Sees(s), next_row_id, indexes)
  BY <1>2, <1>6, <1>8 DEF StmtOK
<1>10. QED
  BY <1>2, <1>3, <1>4, <1>7, <1>8, <1>9, StartStep

\* DELETE starts, with the rows a scan has found.
LEMMA DeleteStep ==
    ASSUME DbOK, SessionsOK, NEW s \in Sessions, delete(s)
    PROVE  IndexInv'
<1>1. PICK t \in Tables, where \in Values \cup {Null} :
        \E order \in Orders(Found(Sees(s), t, where)) :
            Start(s, [NoStmt EXCEPT !.kind = "delete", !.t = t], order) /\ indexes' = indexes
  BY DEF delete
<1>2. PICK order \in Orders(Found(Sees(s), t, where)) :
            Start(s, [NoStmt EXCEPT !.kind = "delete", !.t = t], order) /\ indexes' = indexes
  BY <1>1
<1>3. PICK st : st = [NoStmt EXCEPT !.kind = "delete", !.t = t]
  OBVIOUS
<1>4. StmtRec(st) /\ st.kind = "delete" /\ st.t = t /\ st.def = 0
  BY <1>3 DEF NoStmt, StmtRec
<1>5. IsMap(Sees(s), next_row_id, indexes)
  BY <1>2, OpenedOK DEF Start
<1>6. order \in Seq(Elems(order)) /\ Distinct(order) /\ \A id \in Elems(order) : id \in Nat /\ HasRow(Sees(s), t, id)
  BY <1>5, FoundLists
<1>7. PICK st2 : st2 = Started(s, st, order)
  OBVIOUS
<1>8. StmtRec(st2) /\ st2.kind = "delete" /\ st2.t = t /\ st2.def = 0 /\ st2.todo = order
  BY <1>4, <1>7, StartedParts
<1>9. StmtOK(st2, Sees(s), next_row_id, indexes)
  BY <1>6, <1>8 DEF StmtOK
<1>10. QED
  BY <1>2, <1>3, <1>4, <1>7, <1>8, <1>9, StartStep

\* MERGE starts.
LEMMA MergeStep ==
    ASSUME DbOK, SessionsOK, NEW s \in Sessions, merge(s)
    PROVE  IndexInv'
<1> DEFINE m == Sees(s)
           parents == {Row(m, "P", id) : id \in Ids(m, "P")}
<1>1. PICK v \in Values, order \in Orders(parents) :
        Start(s, [NoStmt EXCEPT !.kind = "merge", !.t = "C", !.set = v], order) /\ indexes' = indexes
  BY DEF merge
<1>2. PICK st : st = [NoStmt EXCEPT !.kind = "merge", !.t = "C", !.set = v]
  OBVIOUS
<1>3. StmtRec(st) /\ st.kind = "merge" /\ st.t = "C" /\ st.set = v /\ st.def = 0
  BY <1>2 DEF NoStmt, StmtRec
<1>4. IsMap(m, next_row_id, indexes) /\ ShapeOK(next_row_id, indexes) /\ "P" \in Tables /\ "C" \in Tables
  BY <1>1, OpenedOK DEF Start, DbOK, Tables
<1>5. parents \subseteq Rows("P")
  BY <1>4, IdsAreRows
<1>6. IsFiniteSet(parents)
  <2> DEFINE f == [id \in Ids(m, "P") |-> Row(m, "P", id)]
  <2>1. f \in Surjection(Ids(m, "P"), parents)
    BY DEF Surjection
  <2>2. IsFiniteSet(Ids(m, "P"))
    BY <1>4, FiniteIds
  <2>3. QED
    BY <2>1, <2>2, FS_Surjection
<1>7. order \in Seq(Elems(order)) /\ Distinct(order) /\ Elems(order) = parents
  BY <1>6, OrderLists
<1>8. PICK st2 : st2 = Started(s, st, order)
  OBVIOUS
<1>9. StmtRec(st2) /\ st2.kind = "merge" /\ st2.t = "C" /\ st2.set = v /\ st2.def = 0 /\ st2.todo = order
  BY <1>3, <1>8, StartedParts
<1>10. st2.seen = {[id |-> id, row |-> Row(m, "C", id)] : id \in Ids(m, "C")}
  BY <1>3, <1>8, StartedSeen
<1> HIDE DEF parents, m
<1>11. \A e \in st2.seen : e.id \in Bound(next_row_id, "C") /\ HasRow(m, "C", e.id) /\ e.row = Row(m, "C", e.id)
                                /\ e = [id |-> e.id, row |-> Row(m, "C", e.id)]
  BY <1>4, <1>10, IdsAreRows
<1>12. \A d, e \in st2.seen : d.id = e.id => d = e
  BY <1>11
<1>13. MergeOK(st2, m, next_row_id)
  BY <1>5, <1>7, <1>9, <1>11, <1>12 DEF MergeOK
<1>14. StmtOK(st2, m, next_row_id, indexes)
  BY <1>4, <1>7, <1>9, <1>13 DEF StmtOK
<1>15. QED
  BY <1>1, <1>2, <1>3, <1>8, <1>9, <1>14, StartStep DEF m

----------------------------------------------------------------------------
(* The steps of a statement. *)

\* A row is done.
LEMMA RowDoneStep ==
    ASSUME DbOK, SessionsOK, NEW s \in Sessions, row_done(s)
    PROVE  IndexInv'
<1>1. PICK c : c = sess[s]
  OBVIOUS
<1>2. PICK m : m = ViewOf(c)
  OBVIOUS
<1>3. PICK r : r = StatementRow(m, c.stmt)
  OBVIOUS
<1>4. r = Result(s)
  BY <1>1, <1>2, <1>3 DEF Result, View, ViewOf
<1>5. /\ c.tx = "open" /\ c.stmt.todo # <<>> /\ ~r.error /\ db' = db /\ indexes' = indexes
      /\ next_row_id' = [next_row_id EXCEPT ![c.stmt.t] = @ + r.ids]
      /\ sess' = [sess EXCEPT ![s].w = Then(@, r.writes), ![s].stmt.todo = Tail(@)]
  BY <1>1, <1>4 DEF row_done, Running
<1>6. PICK e : e = AfterRow(c, r.writes)
  OBVIOUS
<1>7. SessOK(c, next_row_id, indexes) /\ ViewOK(c, db, indexes) /\ SessRec(c) /\ StmtRec(c.stmt)
  BY <1>1 DEF SessionsOK, SessOK, StmtOK
<1>8. sess' = [sess EXCEPT ![s] = e]
  BY <1>1, <1>5, <1>6, <1>7 DEF SessionsOK, SessRec, AfterRow
<1>9. next_row_id' = Allocated(next_row_id, c.stmt.t, r.ids)
  BY <1>5 DEF Allocated
<1>10. ShapeOK(next_row_id, indexes)
  BY DEF DbOK
<1>11. PICK b : b = Allocated(next_row_id, c.stmt.t, r.ids)
  OBVIOUS
<1>12. /\ SessOK(e, b, indexes) /\ ViewOK(e, db, indexes) /\ Grows(next_row_id, indexes, b, indexes)
       /\ Hidden(c) # {} \/ DOMAIN c.w # {} => DOMAIN e.w # {}
  BY <1>2, <1>3, <1>5, <1>6, <1>7, <1>10, <1>11, RowStep
<1>13. e.builds = c.builds
  BY <1>6, <1>7 DEF SessRec, AfterRow
<1>14. QED
  BY <1>1, <1>5, <1>8, <1>9, <1>11, <1>12, <1>13, SessionStep DEF Builds

\* A statement that fails leaves its session open, with writes, or idle.
LEMMA FailedStep ==
    ASSUME DbOK, SessionsOK, Covered', NEW s \in Sessions, sess[s].tx = "open", NEW w, IsWrites(w, next_row_id, indexes),
           Failed(s, w)
    PROVE  IndexInv'
<1>1. PICK c : c = sess[s]
  OBVIOUS
<1>2. /\ sess' = [sess EXCEPT ![s] = IF c.auto THEN Idle ELSE [c EXCEPT !.w = w, !.failed = TRUE, !.stmt = NoStmt]]
      /\ db' = db /\ next_row_id' = next_row_id /\ indexes' = indexes
      /\ excused' = excused \cup IF c.builds THEN {"torn"} ELSE {}
  BY <1>1 DEF Failed
<1>3. ~c.builds
  BY <1>2 DEF Covered
<1>4. SessOK(c, next_row_id, indexes) /\ ViewOK(c, db, indexes) /\ SessRec(c)
  BY <1>1 DEF SessionsOK, SessOK
<1>5. CASE c.auto
  <2>1. sess' = [sess EXCEPT ![s] = Idle]
    BY <1>2, <1>5
  <2>2. SessOK(Idle, next_row_id, indexes) /\ ViewOK(Idle, db, indexes) /\ ~Idle.builds
    BY IdleOK
  <2>3. QED
    BY <1>1, <1>2, <1>3, <2>1, <2>2, SameCounters, SessionStep DEF Builds
<1>6. CASE ~c.auto
  <2>1. PICK e : e = [c EXCEPT !.w = w, !.failed = TRUE, !.stmt = NoStmt]
    OBVIOUS
  <2>2. sess' = [sess EXCEPT ![s] = e]
    BY <1>2, <1>6, <2>1
  <2>3. /\ SessRec(e) /\ e.tx = "open" /\ e.snap = c.snap /\ e.w = w /\ e.failed = TRUE /\ e.overlaps = c.overlaps
        /\ e.builds = c.builds /\ e.stmt = NoStmt
    BY <1>1, <1>4, <2>1 DEF SessRec
  <2>4. StmtOK(NoStmt, ViewOf(e), next_row_id, indexes) /\ NoStmt.kind = "none"
    BY IdleOK DEF NoStmt
  <2>5. SessOK(e, next_row_id, indexes)
    BY <1>4, <2>3, <2>4 DEF SessOK
  <2>6. ViewOK(e, db, indexes)
    BY <1>1, <1>4, <2>3 DEF ViewOK, Fine
  <2>7. QED
    BY <1>1, <1>2, <1>3, <2>2, <2>3, <2>5, <2>6, SameCounters, SessionStep DEF Builds
<1>7. QED
  BY <1>5, <1>6

\* The row that a session does next has a proper outcome.
LEMMA ResultDone ==
    ASSUME DbOK, SessionsOK, NEW s \in Sessions, sess[s].stmt.todo # <<>>
    PROVE  RowDone(Result(s), View(s), sess[s].stmt, next_row_id, indexes)
<1>1. SessOK(sess[s], next_row_id, indexes) /\ ShapeOK(next_row_id, indexes)
  BY DEF SessionsOK, DbOK
<1>2. PICK m : m = ViewOf(sess[s])
  OBVIOUS
<1>3. m = View(s)
  BY <1>2 DEF View, ViewOf
<1>4. IsMap(m, next_row_id, indexes) /\ StmtOK(sess[s].stmt, m, next_row_id, indexes)
  BY <1>1, <1>2, OverlayIsMap DEF SessOK, ViewOf
<1>5. Result(s) = StatementRow(m, sess[s].stmt)
  BY <1>3 DEF Result
<1>6. RowDone(StatementRow(m, sess[s].stmt), m, sess[s].stmt, next_row_id, indexes)
  BY <1>1, <1>4, RowsAreDone
<1>7. QED
  BY <1>3, <1>5, <1>6

\* A row is refused: the transaction has failed, and what it wrote is not what
\* the invariant speaks of until it is rolled back.
LEMMA RowRefusedStep ==
    ASSUME DbOK, SessionsOK, Covered', NEW s \in Sessions, row_refused(s)
    PROVE  IndexInv'
<1>1. PICK r : r = Result(s)
  OBVIOUS
<1>2. sess[s].tx = "open" /\ sess[s].stmt.todo # <<>> /\ r.error /\ Failed(s, Then(sess[s].w, r.writes))
  BY <1>1 DEF row_refused, Running
<1>3. RowDone(r, View(s), sess[s].stmt, next_row_id, indexes)
  BY <1>1, <1>2, ResultDone
<1>4. IsWrites(r.writes, next_row_id, indexes)
  BY <1>2, <1>3 DEF RowDone
<1>5. IsWrites(sess[s].w, next_row_id, indexes)
  BY DEF SessionsOK, SessOK
<1>6. IsWrites(Then(sess[s].w, r.writes), next_row_id, indexes)
  BY <1>4, <1>5, ThenIsWrites
<1>7. QED
  BY <1>2, <1>6, FailedStep

\* Part of the writes, of a row that waited in vain for a lock.
LEMMA SomeWrites ==
    ASSUME NEW n, NEW ix, NEW w, IsWrites(w, n, ix), NEW kept \in SUBSET DOMAIN w
    PROVE  IsWrites([x \in kept |-> w[x]], n, ix)
BY DEF IsWrites, HasRow, Row

\* Keys of a row that is being inserted are not locked by anyone.
LEMMA LockTimeoutStep ==
    ASSUME DbOK, SessionsOK, Covered', NEW s \in Sessions, lock_timeout(s)
    PROVE  IndexInv'
<1>1. PICK r : r = Result(s)
  OBVIOUS
<1>2. PICK w : w = r.writes
  OBVIOUS
<1>3. sess[s].tx = "open" /\ sess[s].stmt.todo # <<>>
  BY DEF lock_timeout, Running
<1>4. Locked(s, w) # {} /\ \E kept \in SUBSET DOMAIN w : Failed(s, Then(sess[s].w, [x \in kept |-> w[x]]))
  <2>1. PICK kept \in {{}, {x \in DOMAIN w \ Locked(s, w) : x[2] # "row"}} :
          Locked(s, w) # {} /\ Failed(s, Then(sess[s].w, [x \in kept |-> w[x]]))
    BY <1>1, <1>2 DEF lock_timeout
  <2>2. kept \in SUBSET DOMAIN w
    BY <2>1
  <2>3. QED
    BY <2>1, <2>2
<1>5. PICK kept \in SUBSET DOMAIN w : Failed(s, Then(sess[s].w, [x \in kept |-> w[x]]))
  BY <1>4
<1>6. RowDone(r, View(s), sess[s].stmt, next_row_id, indexes)
  BY <1>1, <1>3, ResultDone
<1>7. IsWrites(w, next_row_id, indexes)
  <2>1. CASE r.ids = 0
    BY <1>2, <1>6, <2>1 DEF RowDone
  <2>2. CASE r.ids # 0
    <3>1. \A x \in DOMAIN w : ~IsKey(x, next_row_id, indexes)
      BY <1>2, <1>6, <2>2 DEF RowDone
    <3>2. PICK x \in DOMAIN w, o \in Sessions : x \in DOMAIN sess[o].w
      BY <1>4 DEF Locked, Others
    <3>3. IsKey(x, next_row_id, indexes)
      BY <3>2 DEF SessionsOK, SessOK, IsWrites
    <3>4. QED
      BY <3>1, <3>3
  <2>3. QED
    BY <2>1, <2>2
<1>8. IsWrites(sess[s].w, next_row_id, indexes) /\ IsWrites([x \in kept |-> w[x]], next_row_id, indexes)
  BY <1>7, SomeWrites DEF SessionsOK, SessOK
<1>9. PICK ww : ww = Then(sess[s].w, [x \in kept |-> w[x]])
  OBVIOUS
<1>10. IsWrites(ww, next_row_id, indexes) /\ Failed(s, ww)
  BY <1>5, <1>8, <1>9, ThenIsWrites
<1>11. QED
  BY <1>3, <1>10, FailedStep

\* A session gives up its transaction.
LEMMA GivenUpStep ==
    ASSUME DbOK, SessionsOK, NEW s \in Sessions, ~sess[s].builds, NEW e, e = Idle \/ e = [Idle EXCEPT !.tx = "closed"],
           sess' = [sess EXCEPT ![s] = e], db' = db, next_row_id' = next_row_id, indexes' = indexes
    PROVE  IndexInv'
<1>1. SessOK(e, next_row_id, indexes) /\ ViewOK(e, db, indexes) /\ ~e.builds
  BY IdleOK
<1>2. QED
  BY <1>1, SameCounters, SessionStep DEF Builds

\* A deadlock ends the statement as well.
LEMMA DeadlockStep ==
    ASSUME DbOK, SessionsOK, Covered', NEW s \in Sessions, deadlock(s)
    PROVE  IndexInv'
<1>1. /\ sess' = [sess EXCEPT ![s] = IF sess[s].auto THEN Idle ELSE [Idle EXCEPT !.tx = "closed"]]
      /\ db' = db /\ next_row_id' = next_row_id /\ indexes' = indexes
      /\ excused' = excused \cup IF sess[s].builds THEN {"torn"} ELSE {}
  BY DEF deadlock
<1>2. ~sess[s].builds
  BY <1>1 DEF Covered
<1>3. PICK e : e = IF sess[s].auto THEN Idle ELSE [Idle EXCEPT !.tx = "closed"]
  OBVIOUS
<1>4. e = Idle \/ e = [Idle EXCEPT !.tx = "closed"]
  BY <1>3
<1>5. QED
  BY <1>1, <1>2, <1>3, <1>4, GivenUpStep

\* A rollback; that of a transaction that creates an index is excused.
LEMMA RollbackStep ==
    ASSUME DbOK, SessionsOK, Covered', NEW s \in Sessions, rollback(s)
    PROVE  IndexInv'
<1>1. /\ sess' = [sess EXCEPT ![s] = Idle]
      /\ db' = db /\ next_row_id' = next_row_id /\ indexes' = indexes
      /\ excused' = excused \cup IF sess[s].builds THEN {"torn"} ELSE {}
  BY DEF rollback
<1>2. ~sess[s].builds
  BY <1>1 DEF Covered
<1>3. QED
  BY <1>1, <1>2, GivenUpStep

\* Only the statement of a session changes, and it builds nothing.
LEMMA StatementStep ==
    ASSUME DbOK, SessionsOK, NEW s \in Sessions, Hidden(sess[s]) = {}, NEW st, st.kind # "create_index",
           sess' = [sess EXCEPT ![s] = [sess[s] EXCEPT !.stmt = st]], db' = db, indexes' = indexes,
           Grows(next_row_id, indexes, next_row_id', indexes), StmtOK(st, ViewOf(sess[s]), next_row_id', indexes),
           sess[s].tx = "open"
    PROVE  IndexInv'
<1>1. PICK c : c = sess[s]
  OBVIOUS
<1>2. PICK e : e = [c EXCEPT !.stmt = st]
  OBVIOUS
<1>3. SessOK(c, next_row_id', indexes) /\ ViewOK(c, db, indexes) /\ SessRec(c)
  BY <1>1, SessGrows DEF SessionsOK, SessOK
<1>4. /\ SessRec(e) /\ e.tx = c.tx /\ e.snap = c.snap /\ e.w = c.w /\ e.stmt = st
      /\ e.overlaps = c.overlaps /\ e.failed = c.failed /\ e.builds = c.builds
  BY <1>2, <1>3 DEF SessRec
<1>5. ViewOf(e) = ViewOf(c) /\ (Fine(e) <=> Fine(c)) /\ Hidden(e) = {} /\ Hidden(c) = {}
  BY <1>1, <1>4 DEF ViewOf, Fine, Hidden
<1>6. SessOK(e, next_row_id', indexes)
  BY <1>1, <1>3, <1>4, <1>5 DEF SessOK
<1>7. ViewOK(e, db, indexes)
  BY <1>3, <1>4, <1>5 DEF ViewOK
<1>8. (e.builds => sess[s].builds) /\ (Builds(sess[s]) => Builds(e))
  BY <1>1, <1>4, <1>5 DEF Builds
<1>9. QED
  BY <1>1, <1>2, <1>6, <1>7, <1>8, SessionStep

\* The counting of rows changes no map.
LEMMA ApproxGetStep ==
    ASSUME DbOK, SessionsOK, NEW s \in Sessions, approx_get(s)
    PROVE  IndexInv'
<1>1. PICK c, a : c = sess[s] /\ a = c.stmt
  OBVIOUS
<1>2. /\ c.tx = "open" /\ a.kind \in {"insert", "delete"}
      /\ sess' = [sess EXCEPT ![s].stmt.def = next_row_id[a.t]]
      /\ db' = db /\ indexes' = indexes /\ next_row_id' = next_row_id
  BY <1>1 DEF approx_get, Running, Counted
<1>3. SessRec(c) /\ StmtOK(a, ViewOf(c), next_row_id, indexes) /\ StmtRec(a)
  BY <1>1 DEF SessionsOK, SessOK, StmtOK
<1>4. PICK st : st = [a EXCEPT !.def = next_row_id[a.t]]
  OBVIOUS
<1>5. sess' = [sess EXCEPT ![s] = [sess[s] EXCEPT !.stmt = st]]
  BY <1>1, <1>2, <1>3, <1>4 DEF SessionsOK, SessRec
<1>6. /\ StmtRec(st) /\ st.kind = a.kind /\ st.t = a.t /\ st.todo = a.todo /\ st.set = a.set /\ st.col = a.col /\ st.on = a.on
      /\ st.seen = a.seen /\ st.def = next_row_id[a.t]
  BY <1>3, <1>4 DEF StmtRec
<1>7. st.def \in Nat
  BY <1>3, <1>6 DEF StmtOK, DbOK, ShapeOK
<1>8. StmtOK(st, ViewOf(c), next_row_id, indexes)
  BY <1>2, <1>3, <1>6, <1>7 DEF StmtOK
<1>9. Hidden(c) = {}
  BY <1>1, <1>2 DEF Hidden
<1>10. QED
  BY <1>1, <1>2, <1>5, <1>6, <1>8, <1>9, SameCounters, StatementStep

\* A definition that is written back as it was read, or newer.
LEMMA ApproxPutStep ==
    ASSUME DbOK, SessionsOK, Covered', NEW s \in Sessions, approx_put(s)
    PROVE  IndexInv'
<1>1. PICK c, a : c = sess[s] /\ a = c.stmt
  OBVIOUS
<1>2. /\ c.tx = "open" /\ a.kind \in {"insert", "delete"} /\ a.def # 0
      /\ sess' = [sess EXCEPT ![s].stmt = [NoStmt EXCEPT !.kind = "done"]]
      /\ excused' = excused \cup IF a.def < next_row_id[a.t] THEN {"regressed"} ELSE {}
      /\ db' = db /\ indexes' = indexes /\ next_row_id' = [next_row_id EXCEPT ![a.t] = a.def]
  BY <1>1 DEF approx_put, Running, Counted
<1>3. SessRec(c) /\ a.t \in Tables /\ a.def \in Nat
  BY <1>1 DEF SessionsOK, SessOK, StmtOK
<1>4. ~(a.def < next_row_id[a.t])
  BY <1>2 DEF Covered
<1>5. Grows(next_row_id, indexes, next_row_id', indexes)
  BY <1>2, <1>3, <1>4 DEF DbOK, ShapeOK, Grows
<1>6. PICK st : st = [NoStmt EXCEPT !.kind = "done"]
  OBVIOUS
<1>7. StmtOK(st, ViewOf(c), next_row_id', indexes) /\ st.kind = "done"
  BY <1>6, IdleOK DEF NoStmt
<1>8. sess' = [sess EXCEPT ![s] = [sess[s] EXCEPT !.stmt = st]]
  BY <1>1, <1>2, <1>3, <1>6 DEF SessionsOK, SessRec
<1>9. Hidden(c) = {}
  BY <1>1, <1>2 DEF Hidden
<1>10. QED
  BY <1>1, <1>2, <1>5, <1>7, <1>8, <1>9, StatementStep

\* A commit publishes what the transaction sees, and the others that are open
\* have been overlapped.
LEMMA CommittedStep ==
    ASSUME DbOK, SessionsOK, Covered', NEW s \in Sessions, sess[s].tx = "open", Hidden(sess[s]) = {}, Committed(s)
    PROVE  IndexInv'
<1>1. PICK c : c = sess[s]
  OBVIOUS
<1>2. PICK wrote \in BOOLEAN : wrote <=> DOMAIN c.w # {}
  OBVIOUS
<1>3. /\ db' = Overlay(db, c.w) /\ next_row_id' = next_row_id /\ indexes' = indexes
      /\ sess' = [o \in Sessions |-> IF o = s THEN Idle ELSE [sess[o] EXCEPT !.overlaps = @ \/ (wrote /\ sess[o].tx = "open")]]
      /\ wrote => ~c.overlaps /\ ~c.failed
  BY <1>1, <1>2 DEF Committed, Covered
<1>4. /\ sess'[s] = Idle
      /\ \A o \in Sessions \ {s} : sess'[o] = [sess[o] EXCEPT !.overlaps = @ \/ (wrote /\ sess[o].tx = "open")]
      /\ sess' = [o \in Sessions |-> sess'[o]]
  BY <1>3
<1>5. SessOK(c, next_row_id, indexes) /\ ViewOK(c, db, indexes)
  BY <1>1 DEF SessionsOK
<1>6. ShapeOK(next_row_id, indexes) /\ IsMap(db', next_row_id, indexes)
  BY <1>3, <1>5, OverlayIsMap DEF DbOK, SessOK
<1>7. ASSUME NEW o \in Sessions \ {s}, NEW e, e = sess'[o], NEW a, a = sess[o]
      PROVE  /\ SessOK(e, next_row_id, indexes) /\ (e.builds <=> a.builds) /\ (Builds(e) <=> Builds(a))
             /\ e.tx = a.tx /\ e.snap = a.snap /\ e.w = a.w /\ e.stmt = a.stmt /\ e.failed = a.failed
             /\ e.overlaps <=> a.overlaps \/ (wrote /\ a.tx = "open")
  <2>1. SessOK(a, next_row_id, indexes) /\ SessRec(a)
    BY <1>7 DEF SessionsOK, SessOK
  <2>2. PICK y : y = (a.overlaps \/ (wrote /\ a.tx = "open"))
    OBVIOUS
  <2>3. e = [a EXCEPT !.overlaps = y]
    BY <1>4, <1>7, <2>1, <2>2 DEF SessRec
  <2>4. /\ SessRec(e) /\ e.builds = a.builds /\ e.overlaps = y
        /\ e.tx = a.tx /\ e.snap = a.snap /\ e.w = a.w /\ e.stmt = a.stmt /\ e.failed = a.failed
    BY <2>1, <2>3 DEF SessRec
  <2>5. ViewOf(e) = ViewOf(a) /\ Hidden(e) = Hidden(a)
    BY <2>4 DEF ViewOf, Hidden
  <2>6. SessOK(e, next_row_id, indexes)
    BY <2>1, <2>4, <2>5 DEF SessOK
  <2>7. Builds(e) <=> Builds(a)
    BY <2>4, <2>5 DEF Builds
  <2>8. QED
    BY <2>2, <2>4, <2>6, <2>7
<1>8. SessOK(Idle, next_row_id, indexes) /\ ~Idle.builds /\ \A d : ViewOK(Idle, d, indexes)
  BY IdleOK
<1>9. /\ \A o \in Sessions : SessOK(sess'[o], next_row_id, indexes)
      /\ \A a, o \in Sessions : sess'[a].builds /\ sess'[o].builds => a = o
  BY <1>4, <1>7, <1>8 DEF SessionsOK
<1>10. CASE ~wrote
  <2>1. c.w = Empty
    BY <1>2, <1>5, <1>10 DEF SessOK, IsWrites, Empty
  <2>2. db' = db
    BY <1>3, <2>1, OverlayEmpty DEF DbOK, IsMap
  <2>3. ~Builds(c)
    BY <1>1, <1>2, <1>10 DEF Builds
  <2>4. (\E o \in Sessions : Builds(sess[o])) => \E o \in Sessions : Builds(sess'[o])
    BY <1>1, <1>7, <2>3
  <2>5. DbOK'
    BY <1>3, <2>2, <2>4 DEF DbOK
  <2>6. ASSUME NEW o \in Sessions \ {s} PROVE ViewOK(sess'[o], db, indexes)
    <3>1. PICK e, a : e = sess'[o] /\ a = sess[o]
      OBVIOUS
    <3>2. /\ e.builds <=> a.builds
          /\ e.tx = a.tx /\ e.snap = a.snap /\ e.w = a.w /\ e.stmt = a.stmt /\ e.failed = a.failed
          /\ e.overlaps <=> a.overlaps
      BY <1>7, <1>10, <3>1
    <3>3. ViewOf(e) = ViewOf(a) /\ Hidden(e) = Hidden(a) /\ (Fine(e) <=> Fine(a))
      BY <3>2 DEF ViewOf, Hidden, Fine
    <3>4. ViewOK(a, db, indexes)
      BY <3>1 DEF SessionsOK
    <3>5. ViewOK(e, db, indexes)
      BY <3>2, <3>3, <3>4 DEF ViewOK
    <3>6. QED
      BY <3>1, <3>5
  <2>7. \A o \in Sessions : ViewOK(sess'[o], db, indexes)
    BY <1>4, <1>8, <2>6
  <2>8. SessionsOK'
    BY <1>3, <1>4, <1>9, <2>2, <2>7 DEF SessionsOK
  <2>9. QED
    BY <2>5, <2>8 DEF IndexInv
<1>11. CASE wrote
  <2>1. Fine(c) /\ c.snap = db
    BY <1>1, <1>3, <1>5, <1>11 DEF Fine, ViewOK
  <2>2. db' = ViewOf(c)
    BY <1>3, <2>1 DEF ViewOf
  <2>3. \A t \in Tables : Indexed(db', t, "pk", {})
    BY <1>5, <2>1, <2>2 DEF ViewOK
  <2>4. ASSUME "fk" \in indexes["C"]
        PROVE  Indexed(db', "C", "fk", {}) \/ \E o \in Sessions : Builds(sess'[o])
    <3>1. CASE c.builds \/ Indexed(db, "C", "fk", {})
      BY <1>1, <1>5, <2>1, <2>2, <2>4, <3>1 DEF ViewOK
    <3>2. CASE ~c.builds /\ ~Indexed(db, "C", "fk", {})
      <4>1. PICK o \in Sessions : Builds(sess[o])
        BY <2>4, <3>2 DEF DbOK
      <4>2. o # s
        BY <1>1, <3>2, <4>1 DEF Builds
      <4>3. QED
        BY <1>7, <4>1, <4>2
    <3>3. QED
      BY <3>1, <3>2
  <2>5. DbOK'
    BY <1>3, <1>6, <2>3, <2>4 DEF DbOK
  <2>6. \A o \in Sessions : ViewOK(sess'[o], db', indexes)
    <3>1. ASSUME NEW o \in Sessions \ {s} PROVE ViewOK(sess'[o], db', indexes)
      <4>1. PICK e, a : e = sess'[o] /\ a = sess[o]
        OBVIOUS
      <4>2. e.tx = a.tx /\ (e.overlaps <=> a.overlaps \/ a.tx = "open")
        BY <1>7, <1>11, <4>1
      <4>3. ViewOK(e, db', indexes)
        BY <4>2 DEF ViewOK, Fine
      <4>4. QED
        BY <4>1, <4>3
    <3>2. QED
      BY <1>4, <1>8, <3>1
  <2>7. SessionsOK'
    BY <1>3, <1>4, <1>9, <2>6 DEF SessionsOK
  <2>8. QED
    BY <2>5, <2>7 DEF IndexInv
<1>12. QED
  BY <1>10, <1>11

\* A commit makes the view of the session the committed maps; it was exact when
\* nothing had overlapped it.
LEMMA CommitStep ==
    ASSUME DbOK, SessionsOK, Covered', NEW s \in Sessions, commit(s)
    PROVE  IndexInv'
<1>1. sess[s].tx = "open" /\ sess[s].stmt.kind = "none" /\ Committed(s)
  BY DEF commit
<1>2. Hidden(sess[s]) = {}
  BY <1>1 DEF Hidden
<1>3. QED
  BY <1>1, <1>2, CommittedStep

\* A statement ends, with a commit in auto-commit mode.
LEMMA StatementEndStep ==
    ASSUME DbOK, SessionsOK, Covered', NEW s \in Sessions, statement_end(s)
    PROVE  IndexInv'
<1>1. PICK c : c = sess[s]
  OBVIOUS
<1>2. c.tx = "open" /\ c.stmt.todo = <<>>
  BY <1>1 DEF statement_end, Running
<1>3. Elems(<<>>) = {}
  BY DEF Elems
<1>4. Hidden(c) = {}
  BY <1>2, <1>3 DEF Hidden
<1>5. CASE Committed(s)
  BY <1>1, <1>2, <1>4, <1>5, CommittedStep
<1>6. CASE ~Committed(s)
  <2>1. /\ sess' = [sess EXCEPT ![s].stmt = NoStmt]
        /\ db' = db /\ indexes' = indexes /\ next_row_id' = next_row_id
    BY <1>6 DEF statement_end
  <2>2. SessRec(c)
    BY <1>1 DEF SessionsOK, SessOK
  <2>3. PICK st : st = NoStmt
    OBVIOUS
  <2>4. sess' = [sess EXCEPT ![s] = [sess[s] EXCEPT !.stmt = st]]
    BY <1>1, <2>1, <2>2, <2>3 DEF SessionsOK, SessRec
  <2>5. StmtOK(st, ViewOf(c), next_row_id, indexes) /\ st.kind = "none"
    BY <2>3, IdleOK DEF NoStmt
  <2>6. QED
    BY <1>1, <1>2, <1>4, <2>1, <2>4, <2>5, SameCounters, StatementStep
<1>7. QED
  BY <1>5, <1>6

----------------------------------------------------------------------------
(* CREATE INDEX, DROP INDEX and TRUNCATE. *)

\* Without the index on C.f no map has entries of it.
LEMMA NoForeignEntry ==
    ASSUME NEW n, NEW ix, ShapeOK(n, ix), "fk" \notin ix["C"], NEW m, IsMap(m, n, ix), NEW v, NEW id
    PROVE  EntryKey("C", "fk", v, id) \notin DOMAIN m
<1>1. SUFFICES ASSUME EntryKey("C", "fk", v, id) \in DOMAIN m PROVE FALSE
  OBVIOUS
<1>2. PICK u \in Tables : \E jd \in Bound(n, u) : KeyOf(EntryKey("C", "fk", v, id), u, jd, ix)
  BY <1>1 DEF IsMap, IsKey
<1>3. PICK jd \in Bound(n, u) : KeyOf(EntryKey("C", "fk", v, id), u, jd, ix)
  BY <1>2
<1>4. PICK i \in ix[u], y \in V0 : EntryKey("C", "fk", v, id) = EntryKey(u, i, y, jd)
  BY <1>3, KeysDiffer DEF KeyOf
<1>5. QED
  BY <1>4, KeysDiffer

\* The index is in the catalog and the rows that are visible have no entry yet.
LEMMA CreateIndexStep ==
    ASSUME DbOK, SessionsOK, Covered', NEW s \in Sessions, create_index(s)
    PROVE  IndexInv'
<1>1. PICK c, m : c = Opened(s) /\ m = Sees(s)
  OBVIOUS
<1>2. PICK jx : jx = [indexes EXCEPT !["C"] = @ \cup {"fk"}]
  OBVIOUS
<1>3. PICK st : st = [NoStmt EXCEPT !.kind = "create_index", !.t = "C"]
  OBVIOUS
<1>4. "fk" \notin indexes["C"] /\ indexes' = jx /\ Others(s) = {} /\ ~c.overlaps
  BY <1>1, <1>2 DEF create_index, Covered
<1>5. PICK order \in Orders(Ids(m, "C")) : Start(s, st, order)
  BY <1>1, <1>3 DEF create_index
<1>6. PICK st2 : st2 = Started(s, st, order)
  OBVIOUS
<1>7. StmtRec(st) /\ st.kind = "create_index" /\ st.t = "C" /\ st.def = 0
  BY <1>3 DEF NoStmt, StmtRec
<1>8. StmtRec(st2) /\ st2.kind = "create_index" /\ st2.t = "C" /\ st2.def = 0 /\ st2.todo = order
  BY <1>6, <1>7, StartedParts
<1>9. PICK e : e = [c EXCEPT !.builds = c.builds \/ st.kind = "create_index", !.stmt = st2]
  OBVIOUS
<1>10. /\ sess' = [sess EXCEPT ![s] = e] /\ db' = db /\ next_row_id' = next_row_id
       /\ sess[s].tx \in {"none", "open"} /\ sess[s].stmt.kind = "none"
  BY <1>1, <1>5, <1>6, <1>9 DEF Start, Started
<1>11. /\ SessOK(c, next_row_id, indexes) /\ ViewOK(c, db, indexes)
       /\ c.tx = "open" /\ c.stmt.kind = "none" /\ ViewOf(c) = m
       /\ IsMap(m, next_row_id, indexes)
  BY <1>1, <1>10, OpenedOK
<1>12. "C" \in Tables /\ ShapeOK(next_row_id, indexes)
  BY DEF Tables, DbOK
<1>13. Grows(next_row_id, indexes, next_row_id, jx) /\ "fk" \in jx["C"]
  BY <1>2, <1>12 DEF Grows, ShapeOK, Tables
<1>14. order \in Seq(Elems(order)) /\ Distinct(order) /\ Elems(order) = Ids(m, "C")
  BY <1>11, <1>12, FiniteIds, OrderLists
<1>15. \A id : id \in Ids(m, "C") <=> id \in Nat /\ HasRow(m, "C", id)
  BY <1>11, <1>12, IdsAreRows
<1>16. /\ SessRec(e) /\ e.tx = c.tx /\ e.snap = c.snap /\ e.w = c.w /\ e.stmt = st2
       /\ e.overlaps = c.overlaps /\ e.failed = c.failed /\ e.builds
  BY <1>7, <1>9, <1>11 DEF SessOK, SessRec
<1>17. ViewOf(e) = m /\ (Fine(e) <=> Fine(c)) /\ Hidden(e) = Ids(m, "C")
  BY <1>8, <1>11, <1>14, <1>16 DEF ViewOf, Fine, Hidden
<1>18. StmtOK(st2, m, next_row_id, jx)
  BY <1>8, <1>12, <1>13, <1>14, <1>15 DEF StmtOK
<1>19. SessOK(e, next_row_id, jx)
  <2>1. SessOK(c, next_row_id, jx)
    BY <1>11, <1>13, SessGrows
  <2>2. QED
    BY <1>11, <1>16, <1>17, <1>18, <2>1 DEF SessOK
<1>20. Indexed(m, "C", "fk", Ids(m, "C"))
  BY <1>4, <1>11, <1>12, <1>15, NoForeignEntry DEF Indexed
<1>21. ViewOK(e, db, jx)
  BY <1>11, <1>16, <1>17, <1>20 DEF ViewOK
<1>22. ASSUME NEW o \in Sessions \ {s}
       PROVE  SessOK(sess[o], next_row_id, jx) /\ ViewOK(sess[o], db, jx) /\ ~sess[o].builds
  <2>1. sess[o].tx # "open" /\ SessOK(sess[o], next_row_id, indexes)
    BY <1>4 DEF Others, SessionsOK
  <2>2. QED
    BY <1>13, <2>1, SessGrows DEF ViewOK, Fine, SessOK
<1>23. sess'[s] = e /\ sess' = [o \in Sessions |-> sess'[o]] /\ \A o \in Sessions \ {s} : sess'[o] = sess[o]
  BY <1>10 DEF SessionsOK
<1>24. Indexed(db, "C", "fk", {}) \/ Builds(e)
  <2>1. SUFFICES ASSUME ~Builds(e) PROVE Indexed(db, "C", "fk", {})
    OBVIOUS
  <2>2. Ids(m, "C") = {} /\ DOMAIN c.w = {}
    BY <1>16, <1>17, <2>1 DEF Builds
  <2>3. c.w = Empty
    BY <1>11, <2>2 DEF SessOK, IsWrites, Empty
  <2>4. c.snap = db
    BY <1>4, <1>11 DEF ViewOK
  <2>5. m = db
    BY <1>11, <2>3, <2>4, OverlayEmpty DEF ViewOf, DbOK, IsMap
  <2>6. QED
    BY <1>20, <2>2, <2>5
<1>25. DbOK'
  <2>1. ShapeOK(next_row_id, jx) /\ IsMap(db, next_row_id, jx)
    BY <1>13, MapsGrow DEF DbOK, Grows
  <2>2. \A t \in Tables : Indexed(db, t, "pk", {})
    BY DEF DbOK
  <2>3. QED
    BY <1>4, <1>10, <1>23, <1>24, <2>1, <2>2 DEF DbOK
<1>26. SessionsOK'
  BY <1>4, <1>10, <1>19, <1>21, <1>22, <1>23 DEF SessionsOK
<1>27. QED
  BY <1>25, <1>26 DEF IndexInv

\* A session without a statement is at rest with any map.
LEMMA IdleStatement ==
    ASSUME NEW n, NEW ix, NEW m, NEW st, StmtOK(st, m, n, ix), st.kind = "none", NEW b, NEW jx, NEW mm
    PROVE  StmtOK(st, mm, b, jx)
BY DEF StmtOK

\* The map without the entries of the index on C.f.
WithoutFk(m) == [x \in {y \in DOMAIN m : ~(y[1] = "C" /\ y[2] = "fk")} |-> m[x]]

\* A map that loses the index on C.f keeps the others,
LEMMA WithoutFkMap ==
    ASSUME NEW n, NEW ix, ShapeOK(n, ix), NEW jx, jx = [ix EXCEPT !["C"] = @ \ {"fk"}], NEW m
    PROVE  /\ ShapeOK(n, jx) /\ "fk" \notin jx["C"]
           /\ IsMap(m, n, ix) => IsMap(WithoutFk(m), n, jx)
           /\ IsWrites(m, n, ix) => IsWrites(WithoutFk(m), n, jx)
           /\ \A t \in Tables : Indexed(m, t, "pk", {}) => Indexed(WithoutFk(m), t, "pk", {})
<1>1. ShapeOK(n, jx) /\ "fk" \notin jx["C"] /\ jx["P"] = ix["P"] /\ jx["C"] = ix["C"] \ {"fk"}
  BY DEF ShapeOK, Tables
<1>2. PICK w : w = WithoutFk(m)
  OBVIOUS
<1>3. w = [x \in DOMAIN w |-> w[x]] /\ (\A x \in DOMAIN w : x \in DOMAIN m /\ ~(x[1] = "C" /\ x[2] = "fk"))
  BY <1>2 DEF WithoutFk
<1>4. \A t, id : (HasRow(w, t, id) <=> HasRow(m, t, id)) /\ (HasRow(m, t, id) => Row(w, t, id) = Row(m, t, id))
  BY <1>2, KeyParts DEF WithoutFk, HasRow, Row
<1>5. \A t, v, id : EntryKey(t, "pk", v, id) \in DOMAIN w <=> EntryKey(t, "pk", v, id) \in DOMAIN m
  BY <1>2, KeyParts DEF WithoutFk
<1>6. ASSUME NEW x \in DOMAIN w, IsKey(x, n, ix) PROVE IsKey(x, n, jx)
  <2>1. PICK t \in Tables : \E id \in Bound(n, t) : KeyOf(x, t, id, ix)
    BY <1>6 DEF IsKey
  <2>2. PICK id \in Bound(n, t) : KeyOf(x, t, id, ix)
    BY <2>1
  <2>3. KeyOf(x, t, id, jx)
    <3>1. ASSUME NEW i \in ix[t], NEW v \in V0, x = EntryKey(t, i, v, id) PROVE i \in jx[t]
      <4>1. x[1] = t /\ x[2] = i
        BY <3>1, KeyParts
      <4>2. QED
        BY <1>1, <1>3, <4>1 DEF Tables
    <3>2. QED
      BY <2>2, <3>1 DEF KeyOf
  <2>4. QED
    BY <2>2, <2>3 DEF IsKey
<1>7. IsMap(m, n, ix) => IsMap(w, n, jx)
  BY <1>3, <1>4, <1>6 DEF IsMap
<1>8. IsWrites(m, n, ix) => IsWrites(w, n, jx)
  BY <1>3, <1>4, <1>6 DEF IsWrites
<1>9. \A t \in Tables : Indexed(m, t, "pk", {}) => Indexed(w, t, "pk", {})
  BY <1>4, <1>5 DEF Indexed
<1>10. QED
  BY <1>1, <1>2, <1>7, <1>8, <1>9

\* and so does a view.
LEMMA WithoutFkView ==
    ASSUME NEW m, NEW w
    PROVE  Overlay(WithoutFk(m), WithoutFk(w)) = WithoutFk(Overlay(m, w))
<1>1. PICK a, b : a = Overlay(WithoutFk(m), WithoutFk(w)) /\ b = WithoutFk(Overlay(m, w))
  OBVIOUS
<1>2. a = [x \in DOMAIN a |-> a[x]] /\ b = [x \in DOMAIN b |-> b[x]]
  BY <1>1 DEF Overlay, WithoutFk
<1>3. DOMAIN a = DOMAIN b
  BY <1>1 DEF Overlay, WithoutFk
<1>4. \A x \in DOMAIN a : a[x] = b[x]
  BY <1>1 DEF Overlay, WithoutFk
<1>5. QED
  BY <1>1, <1>2, <1>3, <1>4

\* DROP INDEX.
LEMMA DropIndexStep ==
    ASSUME DbOK, SessionsOK, NEW s \in Sessions, drop_index(s)
    PROVE  IndexInv'
<1>1. PICK jx : jx = [indexes EXCEPT !["C"] = @ \ {"fk"}]
  OBVIOUS
<1>2. /\ indexes' = jx /\ db' = WithoutFk(db) /\ next_row_id' = next_row_id
      /\ \A o \in Sessions : sess[o].stmt.kind = "none"
      /\ sess' = [o \in Sessions |-> [sess[o] EXCEPT !.snap = WithoutFk(@), !.w = WithoutFk(@)]]
  BY <1>1 DEF drop_index, Without, WithoutFk
<1>3. ShapeOK(next_row_id, indexes) /\ ShapeOK(next_row_id, jx) /\ "fk" \notin jx["C"]
  BY <1>1, WithoutFkMap DEF DbOK
<1>4. DbOK'
  BY <1>1, <1>2, <1>3, WithoutFkMap DEF DbOK
<1>5. ASSUME NEW o \in Sessions, NEW c, c = sess[o], NEW e, e = sess'[o]
      PROVE  SessOK(e, next_row_id, jx) /\ ViewOK(e, WithoutFk(db), jx) /\ e.builds = c.builds
  <2>1. SessOK(c, next_row_id, indexes) /\ ViewOK(c, db, indexes) /\ SessRec(c) /\ c.stmt.kind = "none"
    BY <1>2, <1>5 DEF SessionsOK, SessOK
  <2>2. PICK a, w : a = WithoutFk(c.snap) /\ w = WithoutFk(c.w)
    OBVIOUS
  <2>3. e = [c EXCEPT !.snap = a, !.w = w]
    BY <1>2, <1>5, <2>1, <2>2 DEF SessRec
  <2>4. /\ SessRec(e) /\ e.tx = c.tx /\ e.snap = a /\ e.w = w /\ e.stmt = c.stmt
        /\ e.overlaps = c.overlaps /\ e.failed = c.failed /\ e.builds = c.builds
    BY <2>1, <2>3 DEF SessRec
  <2>5. ViewOf(e) = WithoutFk(ViewOf(c)) /\ (Fine(e) <=> Fine(c))
    BY <2>2, <2>4, WithoutFkView DEF ViewOf, Fine
  <2>6. IsMap(a, next_row_id, jx) /\ IsWrites(w, next_row_id, jx)
    BY <1>1, <1>3, <2>1, <2>2, WithoutFkMap DEF SessOK
  <2>7. c.w = Empty => w = Empty
    BY <2>2 DEF WithoutFk, Empty
  <2>8. StmtOK(c.stmt, ViewOf(e), next_row_id, jx)
    BY <2>1, IdleStatement DEF SessOK
  <2>9. SessOK(e, next_row_id, jx)
    BY <2>1, <2>4, <2>6, <2>7, <2>8 DEF SessOK
  <2>10. Fine(c) => \A t \in Tables : Indexed(ViewOf(e), t, "pk", {})
    <3>1. Fine(c) => \A t \in Tables : Indexed(ViewOf(c), t, "pk", {})
      BY <2>1 DEF ViewOK
    <3>2. QED
      BY <1>1, <1>3, <2>5, <3>1, WithoutFkMap
  <2>11. c.tx = "open" /\ ~c.overlaps => a = WithoutFk(db)
    BY <2>1, <2>2 DEF ViewOK
  <2>12. ViewOK(e, WithoutFk(db), jx)
    BY <1>3, <2>4, <2>5, <2>10, <2>11 DEF ViewOK
  <2>13. QED
    BY <2>4, <2>9, <2>12
<1>6. sess' = [o \in Sessions |-> sess'[o]]
  BY <1>2
<1>7. \A a, o \in Sessions : sess'[a].builds /\ sess'[o].builds => a = o
  BY <1>5 DEF SessionsOK
<1>8. SessionsOK'
  BY <1>2, <1>5, <1>6, <1>7 DEF SessionsOK
<1>9. QED
  BY <1>4, <1>8 DEF IndexInv

\* The map without the rows and the entries of a table.
WithoutTable(m, t) == [x \in {y \in DOMAIN m : ~(y[1] = t)} |-> m[x]]

\* A map that loses all of a table keeps the other table, and every index exact.
LEMMA WithoutTableMap ==
    ASSUME NEW n, NEW ix, ShapeOK(n, ix), NEW t \in Tables, NEW b, b = [n EXCEPT ![t] = 1], NEW m, IsMap(m, n, ix)
    PROVE  /\ ShapeOK(b, ix) /\ IsMap(WithoutTable(m, t), b, ix)
           /\ \A u \in Tables : \A i \in {"pk", "fk"} : Indexed(m, u, i, {}) => Indexed(WithoutTable(m, t), u, i, {})
           /\ \A id : ~HasRow(WithoutTable(m, t), t, id)
           /\ \A u \in Tables \ {t} : \A id : (HasRow(WithoutTable(m, t), u, id) <=> HasRow(m, u, id))
                  /\ (HasRow(m, u, id) => Row(WithoutTable(m, t), u, id) = Row(m, u, id))
<1>1. ShapeOK(b, ix) /\ \A u \in Tables \ {t} : b[u] = n[u]
  BY DEF ShapeOK, Tables
<1>2. PICK w : w = WithoutTable(m, t)
  OBVIOUS
<1>3. w = [x \in DOMAIN w |-> w[x]] /\ (\A x \in DOMAIN w : x \in DOMAIN m /\ x[1] # t)
  BY <1>2 DEF WithoutTable
<1>4. \A u, id : (HasRow(w, u, id) <=> u # t /\ HasRow(m, u, id)) /\ (HasRow(w, u, id) => Row(w, u, id) = Row(m, u, id))
  BY <1>2, KeyParts DEF WithoutTable, HasRow, Row
<1>5. \A u, i, v, id : EntryKey(u, i, v, id) \in DOMAIN w <=> u # t /\ EntryKey(u, i, v, id) \in DOMAIN m
  BY <1>2, KeyParts DEF WithoutTable
<1>6. ASSUME NEW x \in DOMAIN w PROVE IsKey(x, b, ix)
  <2>1. PICK u \in Tables : \E id \in Bound(n, u) : KeyOf(x, u, id, ix)
    BY <1>3 DEF IsMap, IsKey
  <2>2. PICK id \in Bound(n, u) : KeyOf(x, u, id, ix)
    BY <2>1
  <2>3. x[1] = u
    BY <2>2, KeyParts DEF KeyOf
  <2>4. u # t /\ Bound(b, u) = Bound(n, u)
    BY <1>1, <1>3, <2>3 DEF Bound
  <2>5. QED
    BY <2>2, <2>4 DEF IsKey
<1>7. IsMap(w, b, ix)
  BY <1>3, <1>4, <1>6 DEF IsMap
<1>8. \A u \in Tables : \A i \in {"pk", "fk"} : Indexed(m, u, i, {}) => Indexed(w, u, i, {})
  BY <1>4, <1>5 DEF Indexed
<1>9. QED
  BY <1>1, <1>2, <1>4, <1>7, <1>8

\* The row ids start again when no transaction is open.
LEMMA TruncateStep ==
    ASSUME DbOK, SessionsOK, Covered', NEW s \in Sessions, truncate(s)
    PROVE  IndexInv'
<1>1. PICK t \in Tables :
        /\ sess[s].tx = "none" /\ \A o \in Sessions : sess[o].stmt.kind = "none"
        /\ db' = WithoutTable(db, t)
        /\ sess' = [o \in Sessions |-> [sess[o] EXCEPT !.snap = WithoutTable(@, t), !.w = WithoutTable(@, t)]]
        /\ next_row_id' = [next_row_id EXCEPT ![t] = 1]
        /\ excused' = excused \cup IF Others(s) # {} THEN {"overlap"} ELSE {}
        /\ indexes' = indexes
  BY DEF truncate, Without, WithoutTable
<1>2. \A o \in Sessions : sess[o].tx # "open"
  BY <1>1 DEF Covered, Others
<1>3. \A o \in Sessions : SessOK(sess[o], next_row_id, indexes) /\ sess[o].w = Empty /\ ~sess[o].builds
  BY <1>2 DEF SessionsOK, SessOK
<1>4. PICK b : b = [next_row_id EXCEPT ![t] = 1]
  OBVIOUS
<1>5. ShapeOK(next_row_id, indexes) /\ ShapeOK(b, indexes)
  BY <1>4, WithoutTableMap DEF DbOK
<1>6. "fk" \in indexes["C"] => Indexed(db, "C", "fk", {})
  BY <1>3 DEF DbOK, Builds
<1>7. /\ IsMap(WithoutTable(db, t), b, indexes)
      /\ \A u \in Tables : Indexed(WithoutTable(db, t), u, "pk", {})
      /\ "fk" \in indexes["C"] => Indexed(WithoutTable(db, t), "C", "fk", {})
  <2>1. IsMap(db, next_row_id, indexes) /\ (\A u \in Tables : Indexed(db, u, "pk", {})) /\ "C" \in Tables
    BY DEF DbOK, Tables
  <2>2. PICK m : m = db
    OBVIOUS
  <2>3. IsMap(WithoutTable(m, t), b, indexes)
    BY <1>4, <1>5, <2>1, <2>2, WithoutTableMap
  <2>4. \A u \in Tables : \A i \in {"pk", "fk"} : Indexed(m, u, i, {}) => Indexed(WithoutTable(m, t), u, i, {})
    BY <1>4, <1>5, <2>1, <2>2, WithoutTableMap
  <2>5. QED
    BY <1>6, <2>1, <2>2, <2>3, <2>4
<1>8. DbOK'
  BY <1>1, <1>4, <1>5, <1>7 DEF DbOK
<1>9. ASSUME NEW o \in Sessions, NEW c, c = sess[o], NEW e, e = sess'[o]
      PROVE  SessOK(e, b, indexes) /\ ViewOK(e, db', indexes) /\ ~e.builds
  <2>1. SessOK(c, next_row_id, indexes) /\ SessRec(c) /\ c.stmt.kind = "none" /\ c.w = Empty /\ ~c.builds /\ c.tx # "open"
    BY <1>1, <1>2, <1>3, <1>9 DEF SessOK
  <2>2. PICK a, w : a = WithoutTable(c.snap, t) /\ w = WithoutTable(c.w, t)
    OBVIOUS
  <2>3. e = [c EXCEPT !.snap = a, !.w = w]
    BY <1>1, <1>9, <2>1, <2>2 DEF SessRec
  <2>4. /\ SessRec(e) /\ e.tx = c.tx /\ e.snap = a /\ e.w = w /\ e.stmt = c.stmt /\ e.builds = c.builds
    BY <2>1, <2>3 DEF SessRec
  <2>5. w = Empty
    BY <2>1, <2>2 DEF WithoutTable, Empty
  <2>6. IsMap(a, b, indexes) /\ IsWrites(w, b, indexes)
    <3>1. IsMap(c.snap, next_row_id, indexes)
      BY <2>1 DEF SessOK
    <3>2. PICK p : p = c.snap
      OBVIOUS
    <3>3. IsMap(p, next_row_id, indexes)
      BY <3>1, <3>2
    <3>4. IsMap(WithoutTable(p, t), b, indexes)
      BY <1>4, <1>5, <3>3, WithoutTableMap
    <3>5. QED
      BY <2>2, <2>5, <3>2, <3>4, EmptyIsWrites
  <2>7. StmtOK(c.stmt, ViewOf(e), b, indexes)
    BY <2>1, IdleStatement DEF SessOK
  <2>8. SessOK(e, b, indexes)
    BY <2>1, <2>4, <2>5, <2>6, <2>7 DEF SessOK
  <2>9. QED
    BY <2>1, <2>4, <2>8 DEF ViewOK, Fine
<1>10. sess' = [o \in Sessions |-> sess'[o]]
  BY <1>1
<1>11. SessionsOK'
  BY <1>1, <1>4, <1>9, <1>10 DEF SessionsOK
<1>12. QED
  BY <1>8, <1>11 DEF IndexInv

----------------------------------------------------------------------------
(* The first state, the steps and the theorem. *)

\* The rows of the first state and their entries.
FirstRows(m, v, o) ==
    /\ v # o /\ Row(m, "P", 1) = [k |-> v, f |-> Null] /\ Row(m, "P", 2) = [k |-> o, f |-> Null]
    /\ Row(m, "C", 1) = [k |-> v, f |-> v]
    /\ \A t, y, id : EntryKey(t, "pk", y, id) \in DOMAIN m <=>
          (t = "P" /\ id = 1 /\ y = v) \/ (t = "P" /\ id = 2 /\ y = o) \/ (t = "C" /\ id = 1 /\ y = v)

\* The first rows.
LEMMA InitKeys ==
    ASSUME Init
    PROVE  /\ db = [x \in DOMAIN db |-> db[x]]
           /\ \A x \in DOMAIN db : IsKey(x, next_row_id, indexes)
           /\ \A t, id : HasRow(db, t, id) <=> (t = "P" /\ id \in {1, 2}) \/ (t = "C" /\ id = 1)
           /\ \E v, o \in Values : FirstRows(db, v, o)
<1>1. PICK v, o \in Values : v # o /\ db =
        Then(Put({RowKey("P", 1), EntryKey("P", "pk", v, 1)}, [k |-> v, f |-> Null]),
          Then(Put({RowKey("P", 2), EntryKey("P", "pk", o, 2)}, [k |-> o, f |-> Null]),
               Put({RowKey("C", 1), EntryKey("C", "pk", v, 1)}, [k |-> v, f |-> v])))
  BY DEF Init
<1>2. PICK a1, a2, b1, b2, c1, c2 : /\ a1 = RowKey("P", 1) /\ a2 = EntryKey("P", "pk", v, 1)
                                    /\ b1 = RowKey("P", 2) /\ b2 = EntryKey("P", "pk", o, 2)
                                    /\ c1 = RowKey("C", 1) /\ c2 = EntryKey("C", "pk", v, 1)
  OBVIOUS
<1>3. /\ a1 # b1 /\ a1 # c1 /\ b1 # c1 /\ a1 # a2 /\ a1 # b2 /\ a1 # c2 /\ b1 # b2 /\ b1 # c2 /\ c1 # c2
      /\ a1[2] = "row" /\ b1[2] = "row" /\ c1[2] = "row"
  BY <1>2, KeysDiffer, KeyParts
<1>4. PICK p, q, r : p = [k |-> v, f |-> Null] /\ q = [k |-> o, f |-> Null] /\ r = [k |-> v, f |-> v]
  OBVIOUS
<1>5. db = Then(Put({a1, a2}, p), Then(Put({b1, b2}, q), Put({c1, c2}, r)))
  BY <1>1, <1>2, <1>4
<1>6. db = [x \in DOMAIN db |-> db[x]] /\ DOMAIN db = {a1, a2, b1, b2, c1, c2}
  BY <1>5 DEF Then, Put
<1>7. db[a1] = p /\ db[b1] = q /\ db[c1] = r
  BY <1>3, <1>5 DEF Then, Put
<1>8. \A t, id : HasRow(db, t, id) <=> (t = "P" /\ id \in {1, 2}) \/ (t = "C" /\ id = 1)
  BY <1>2, <1>6, KeysDiffer DEF HasRow
<1>9. \A t, y, id : EntryKey(t, "pk", y, id) \in DOMAIN db <=>
                      (t = "P" /\ id = 1 /\ y = v) \/ (t = "P" /\ id = 2 /\ y = o) \/ (t = "C" /\ id = 1 /\ y = v)
  BY <1>2, <1>6, KeysDiffer
<1>10. \A x \in DOMAIN db : IsKey(x, next_row_id, indexes)
  <2>1. 1 \in Bound(next_row_id, "P") /\ 2 \in Bound(next_row_id, "P") /\ 1 \in Bound(next_row_id, "C")
    BY DEF Init, Bound, Tables
  <2>2. v \in V0 /\ o \in V0 /\ "P" \in Tables /\ "C" \in Tables /\ "pk" \in indexes["P"] /\ "pk" \in indexes["C"]
    BY DEF V0, Init, Tables
  <2>3. KeyOf(a1, "P", 1, indexes) /\ KeyOf(a2, "P", 1, indexes) /\ KeyOf(b1, "P", 2, indexes) /\ KeyOf(b2, "P", 2, indexes)
    BY <1>2, <2>2 DEF KeyOf
  <2>4. KeyOf(c1, "C", 1, indexes) /\ KeyOf(c2, "C", 1, indexes)
    BY <1>2, <2>2 DEF KeyOf
  <2>5. QED
    BY <1>6, <2>1, <2>2, <2>3, <2>4 DEF IsKey
<1>11. Row(db, "P", 1) = p /\ Row(db, "P", 2) = q /\ Row(db, "C", 1) = r
  BY <1>2, <1>7 DEF Row
<1>12. /\ v # o /\ Row(db, "P", 1) = [k |-> v, f |-> Null] /\ Row(db, "P", 2) = [k |-> o, f |-> Null]
       /\ Row(db, "C", 1) = [k |-> v, f |-> v]
  BY <1>1, <1>4, <1>11
<1>13. FirstRows(db, v, o)
  BY <1>9, <1>12 DEF FirstRows
<1>14. QED
  BY <1>6, <1>8, <1>10, <1>13

\* The first state.
LEMMA InitOK ==
    ASSUME Init
    PROVE  DbOK /\ SessionsOK
<1>1. ShapeOK(next_row_id, indexes)
  BY DEF Init, ShapeOK, Tables
<1>2. \A t, id : HasRow(db, t, id) <=> (t = "P" /\ id \in {1, 2}) \/ (t = "C" /\ id = 1)
  BY InitKeys
<1>3. PICK v, o \in Values : FirstRows(db, v, o)
  BY InitKeys
<1>4. IsMap(db, next_row_id, indexes)
  <2>1. \A t \in Tables : \A id \in Nat : HasRow(db, t, id) => Row(db, t, id) \in Rows(t)
    BY <1>2, <1>3 DEF FirstRows, Rows, Tables
  <2>2. QED
    BY <2>1, InitKeys DEF IsMap
<1>5. \A t \in Tables : Indexed(db, t, "pk", {})
  BY <1>2, <1>3 DEF FirstRows, Indexed, Tables, get_index_values
<1>6. "fk" \notin indexes["C"]
  BY DEF Init, Tables
<1>7. DbOK
  BY <1>1, <1>4, <1>5, <1>6 DEF DbOK
<1>8. SessionsOK
  <2>1. sess = [s \in Sessions |-> sess[s]] /\ \A s \in Sessions : sess[s] = Idle
    BY DEF Init
  <2>2. SessOK(Idle, next_row_id, indexes) /\ ViewOK(Idle, db, indexes) /\ ~Idle.builds
    BY IdleOK
  <2>3. QED
    BY <2>1, <2>2 DEF SessionsOK
<1>9. QED
  BY <1>7, <1>8

\* What has gone by stays.
LEMMA ExcusedGrows ==
    ASSUME [Next]_vars
    PROVE  excused \subseteq excused'
<1>1. ASSUME NEW s \in Sessions, begin(s) PROVE excused \subseteq excused'
  BY <1>1 DEF begin
<1>2. ASSUME NEW s \in Sessions, insert(s) PROVE excused \subseteq excused'
  BY <1>2 DEF insert
<1>3. ASSUME NEW s \in Sessions, update(s) \/ delete(s) PROVE excused \subseteq excused'
  BY <1>3 DEF update, delete
<1>4. ASSUME NEW s \in Sessions, merge(s) \/ copy(s) PROVE excused \subseteq excused'
  BY <1>4 DEF merge, copy
<1>5. ASSUME NEW s \in Sessions, create_index(s) PROVE excused \subseteq excused'
  BY <1>5 DEF create_index
<1>6. ASSUME NEW s \in Sessions, drop_index(s) \/ truncate(s) PROVE excused \subseteq excused'
  BY <1>6 DEF drop_index, truncate
<1>7. ASSUME NEW s \in Sessions, row_done(s) PROVE excused \subseteq excused'
  BY <1>7 DEF row_done
<1>8. ASSUME NEW s \in Sessions, row_refused(s) \/ lock_timeout(s) PROVE excused \subseteq excused'
  <2>1. \E w : Failed(s, w)
    <3>1. CASE row_refused(s)
      BY <3>1 DEF row_refused
    <3>2. CASE lock_timeout(s)
      BY <3>2 DEF lock_timeout
    <3>3. QED
      BY <1>8, <3>1, <3>2
  <2>2. QED
    BY <2>1 DEF Failed
<1>9. ASSUME NEW s \in Sessions, deadlock(s) \/ rollback(s) PROVE excused \subseteq excused'
  BY <1>9 DEF deadlock, rollback
<1>10. ASSUME NEW s \in Sessions, approx_get(s) \/ approx_put(s) PROVE excused \subseteq excused'
  BY <1>10 DEF approx_get, approx_put
<1>11. ASSUME NEW s \in Sessions, statement_end(s) \/ commit(s) PROVE excused \subseteq excused'
  BY <1>11 DEF statement_end, commit, Committed
<1>12. QED
  BY <1>1, <1>2, <1>3, <1>4, <1>5, <1>6, <1>7, <1>8, <1>9, <1>10, <1>11 DEF Next, Statement, Step, vars

\* Every step keeps the invariant of the indexes.
LEMMA IndexStep ==
    ASSUME IndexInv, [Next]_vars
    PROVE  IndexInv'
<1>1. SUFFICES ASSUME Covered' PROVE IndexInv'
  BY DEF IndexInv
<1>2. Covered
  BY <1>1, ExcusedGrows DEF Covered
<1>3. DbOK /\ SessionsOK
  BY <1>2 DEF IndexInv
<1>4. CASE UNCHANGED vars
  BY <1>3, <1>4 DEF vars, IndexInv, DbOK, SessionsOK
<1>5. ASSUME NEW s \in Sessions, Statement(s) PROVE IndexInv'
  BY <1>1, <1>3, <1>5, InsertStep, UpdateStep, DeleteStep, MergeStep, CopyStep, CreateIndexStep, DropIndexStep,
     TruncateStep
     DEF Statement
<1>6. ASSUME NEW s \in Sessions, Step(s) PROVE IndexInv'
  BY <1>1, <1>3, <1>6, RowDoneStep, RowRefusedStep, LockTimeoutStep, DeadlockStep, ApproxGetStep, ApproxPutStep,
     StatementEndStep
     DEF Step
<1>7. ASSUME NEW s \in Sessions, begin(s) \/ commit(s) \/ rollback(s) PROVE IndexInv'
  BY <1>1, <1>3, <1>7, BeginStep, CommitStep, RollbackStep
<1>8. QED
  BY <1>4, <1>5, <1>6, <1>7 DEF Next

\* The invariant says that the committed maps are indexed exactly.
LEMMA IndexInvExact ==
    ASSUME IndexInv
    PROVE  IndexesMatchRows
<1>1. SUFFICES ASSUME Covered, NEW t \in Tables PROVE IndexExact(db, t)
  BY DEF IndexesMatchRows, Covered
<1>2. DbOK /\ SessionsOK
  BY <1>1 DEF IndexInv
<1>3. ShapeOK(next_row_id, indexes) /\ IsMap(db, next_row_id, indexes)
  BY <1>2 DEF DbOK
<1>4. Built(t) \subseteq {"pk", "fk"} /\ \A i \in Built(t) : Indexed(db, t, i, {})
  <2>1. CASE \E s \in Sessions : sess[s].builds
    BY <1>2, <2>1 DEF Built, DbOK
  <2>2. CASE ~\E s \in Sessions : sess[s].builds
    <3>1. Built(t) = indexes[t] /\ indexes[t] \subseteq {"pk", "fk"} /\ ("fk" \in indexes[t] => t = "C")
      BY <1>3, <2>2 DEF Built, ShapeOK, Tables
    <3>2. "fk" \in indexes["C"] => Indexed(db, "C", "fk", {})
      BY <1>2, <2>2 DEF DbOK, Builds
    <3>3. QED
      BY <1>2, <3>1, <3>2 DEF DbOK
  <2>3. QED
    BY <2>1, <2>2
<1>5. ASSUME NEW x \in DOMAIN db, x[1] = t, x[2] \in Built(t)
      PROVE  \E i \in Built(t), id \in Ids(db, t) : x = encode_index_key(t, i, Row(db, t, id), id)
  <2>1. PICK u \in Tables : \E id \in Bound(next_row_id, u) : KeyOf(x, u, id, indexes)
    BY <1>3 DEF IsMap, IsKey
  <2>2. PICK id \in Bound(next_row_id, u) : KeyOf(x, u, id, indexes)
    BY <2>1
  <2>3. x # RowKey(u, id)
    BY <1>4, <1>5, KeyParts
  <2>4. PICK i \in indexes[u], v \in V0 : x = EntryKey(u, i, v, id)
    BY <2>2, <2>3 DEF KeyOf
  <2>5. u = t /\ i \in Built(t) /\ id \in Nat
    <3>1. u = t /\ i \in Built(t)
      BY <1>5, <2>4, KeyParts
    <3>2. IsKey(x, next_row_id, indexes) /\ i \in {"pk", "fk"}
      BY <1>3, <1>4, <3>1 DEF IsMap
    <3>3. QED
      BY <1>3, <2>4, <3>1, <3>2, KeyInBound
  <2>6. HasRow(db, t, id) /\ v = get_index_values(i, Row(db, t, id))
    BY <1>4, <2>4, <2>5 DEF Indexed
  <2>7. id \in Ids(db, t)
    BY <1>3, <2>5, <2>6, IdsAreRows
  <2>8. QED
    BY <2>4, <2>5, <2>6, <2>7 DEF encode_index_key
<1>6. ASSUME NEW i \in Built(t), NEW id \in Ids(db, t)
      PROVE  /\ encode_index_key(t, i, Row(db, t, id), id) \in DOMAIN db
             /\ encode_index_key(t, i, Row(db, t, id), id)[1] = t
             /\ encode_index_key(t, i, Row(db, t, id), id)[2] = i
  <2>1. id \in Nat /\ HasRow(db, t, id) /\ Row(db, t, id) \in Rows(t)
    BY <1>3, IdsAreRows
  <2>2. get_index_values(i, Row(db, t, id)) \in V0
    BY <1>4, <2>1, IndexValue
  <2>3. EntryKey(t, i, get_index_values(i, Row(db, t, id)), id) \in DOMAIN db
    BY <1>4, <2>1, <2>2 DEF Indexed
  <2>4. QED
    BY <2>3, KeyParts DEF encode_index_key
<1>7. QED
  BY <1>5, <1>6 DEF IndexExact

\* The entries of the indexes are those of the committed rows, for any number of
\* connections, values and statements: IndexInv is inductive, over every step of
\* statement.rs and of the transactions its statements run in.
THEOREM IndexesAreExact == Spec => []IndexesMatchRows
<1>1. Init => IndexInv
  BY InitOK DEF IndexInv
<1>2. IndexInv /\ [Next]_vars => IndexInv'
  BY IndexStep
<1>3. IndexInv => IndexesMatchRows
  BY IndexInvExact
<1>4. QED
  BY <1>1, <1>2, <1>3, PTL DEF Spec

----------------------------------------------------------------------------
(* Keys and references. What a row does to the rows is its plan: row id of *)
(* table t becomes new, and the children ids become the rows of g.         *)

Unique(m, t) == \A a, b \in Nat : HasRow(m, t, a) /\ HasRow(m, t, b) /\ Row(m, t, a).k = Row(m, t, b).k => a = b
Parent(m, v) == v = Null \/ \E id \in Nat : HasRow(m, "P", id) /\ Row(m, "P", id).k = v
Parented(m) == \A id \in Nat : HasRow(m, "C", id) => Parent(m, Row(m, "C", id).f)
Sound(m) == (\A t \in Tables : Unique(m, t)) /\ Parented(m)

\* The rows of a map after a plan.
LEMMA PlannedRows ==
    ASSUME NEW n, NEW ix, ShapeOK(n, ix), NEW m, NEW t \in Tables, NEW id, NEW new, NEW ids, NEW g,
           NEW u, Plan(u, m, t, id, new, ids, g, ix), NEW s \in Tables, NEW jd, NEW mm, mm = Overlay(m, u)
    PROVE  /\ s = t /\ jd = id => (HasRow(mm, s, jd) <=> new # Deleted) /\ (new # Deleted => Row(mm, s, jd) = new)
           /\ s = "C" /\ jd \in ids => (HasRow(mm, s, jd) <=> g[jd] # Deleted) /\ (g[jd] # Deleted => Row(mm, s, jd) = g[jd])
           /\ ~(s = t /\ jd = id) /\ ~(s = "C" /\ jd \in ids) =>
                 (HasRow(mm, s, jd) <=> HasRow(m, s, jd)) /\ (HasRow(m, s, jd) => Row(mm, s, jd) = Row(m, s, jd))
<1>a. s = t /\ jd = id => HasRow(u, s, jd) /\ Row(u, s, jd) = new
  BY DEF Plan, Moves
<1>b. s = "C" /\ jd \in ids => HasRow(u, s, jd) /\ Row(u, s, jd) = g[jd]
  BY DEF Plan, Moves
<1>1. ~(s = t /\ jd = id) /\ ~(s = "C" /\ jd \in ids) => ~HasRow(u, s, jd)
  <2>1. Leaves(u, s, jd, ix) => ~HasRow(u, s, jd)
    BY DEF Leaves, KeyOf, HasRow
  <2>2. QED
    BY <2>1, PlanLeaves
<1>2. /\ HasRow(u, s, jd) => (HasRow(mm, s, jd) <=> Row(u, s, jd) # Deleted) /\ (Row(u, s, jd) # Deleted => Row(mm, s, jd) = Row(u, s, jd))
      /\ ~HasRow(u, s, jd) => (HasRow(mm, s, jd) <=> HasRow(m, s, jd)) /\ (HasRow(m, s, jd) => Row(mm, s, jd) = Row(m, s, jd))
  BY CurrentOverlay
<1>3. QED
  BY <1>a, <1>b, <1>1, <1>2

KeyFree(m, t, id, new) == new # Deleted => \A jd \in Nat : jd # id /\ HasRow(m, t, jd) => Row(m, t, jd).k # new.k
KeysKept(m, ids, g) == ids \subseteq Nat /\ \A jd \in ids : HasRow(m, "C", jd) /\ (g[jd] # Deleted => g[jd].k = Row(m, "C", jd).k)

\* A plan keeps the keys unique when the row takes a key that no other row has
\* and the children keep theirs.
LEMMA PlanUnique ==
    ASSUME NEW n, NEW ix, ShapeOK(n, ix), NEW m, NEW t \in Tables, NEW id, NEW new, NEW ids, NEW g,
           NEW u, Plan(u, m, t, id, new, ids, g, ix), Sound(m), KeysKept(m, ids, g), KeyFree(m, t, id, new), NEW s \in Tables
    PROVE  Unique(Overlay(m, u), s)
<1>1. PICK mm : mm = Overlay(m, u)
  OBVIOUS
<1>2. t = "C" => ids = {}
  BY DEF Plan
<1>3. Unique(m, s)
  BY DEF Sound
<1>4. ASSUME NEW jd \in Nat, HasRow(mm, s, jd), ~(s = t /\ jd = id)
      PROVE  HasRow(m, s, jd) /\ Row(mm, s, jd).k = Row(m, s, jd).k
  <2>1. CASE s = "C" /\ jd \in ids
    <3>1. (HasRow(mm, s, jd) <=> g[jd] # Deleted) /\ (g[jd] # Deleted => Row(mm, s, jd) = g[jd])
      BY <1>1, <2>1, PlannedRows
    <3>2. QED
      BY <1>4, <2>1, <3>1 DEF KeysKept
  <2>2. CASE ~(s = "C" /\ jd \in ids)
    <3>1. (HasRow(mm, s, jd) <=> HasRow(m, s, jd)) /\ (HasRow(m, s, jd) => Row(mm, s, jd) = Row(m, s, jd))
      BY <1>1, <1>4, <2>2, PlannedRows
    <3>2. QED
      BY <1>4, <3>1
  <2>3. QED
    BY <2>1, <2>2
<1>5. s = t /\ HasRow(mm, t, id) => new # Deleted /\ Row(mm, t, id) = new
  BY <1>1, PlannedRows
<1>6. ASSUME NEW a \in Nat, NEW b \in Nat, HasRow(mm, s, a), HasRow(mm, s, b), Row(mm, s, a).k = Row(mm, s, b).k
      PROVE  a = b
  <2>1. CASE s = t /\ a = id
    BY <1>4, <1>5, <1>6, <2>1 DEF KeyFree
  <2>2. CASE s = t /\ b = id
    BY <1>4, <1>5, <1>6, <2>2 DEF KeyFree
  <2>3. CASE ~(s = t /\ a = id) /\ ~(s = t /\ b = id)
    BY <1>3, <1>4, <1>6, <2>3 DEF Unique
  <2>4. QED
    BY <2>1, <2>2, <2>3
<1>7. QED
  BY <1>1, <1>6 DEF Unique

\* A child that is written, or removed, has a parent.
LEMMA PlanChild ==
    ASSUME NEW n, NEW ix, ShapeOK(n, ix), NEW m, NEW id, NEW new, NEW g,
           NEW u, Plan(u, m, "C", id, new, {}, g, ix), Sound(m), new # Deleted => Parent(m, new.f)
    PROVE  Parented(Overlay(m, u))
<1>1. PICK mm : mm = Overlay(m, u)
  OBVIOUS
<1>2. "C" \in Tables /\ "P" \in Tables
  BY DEF Tables
<1>3. \A jd : (HasRow(mm, "P", jd) <=> HasRow(m, "P", jd)) /\ (HasRow(m, "P", jd) => Row(mm, "P", jd) = Row(m, "P", jd))
  BY <1>1, <1>2, PlannedRows
<1>4. \A v : Parent(m, v) => Parent(mm, v)
  BY <1>3 DEF Parent
<1>5. ASSUME NEW jd \in Nat, HasRow(mm, "C", jd) PROVE Parent(mm, Row(mm, "C", jd).f)
  <2>1. CASE jd = id
    <3>1. new # Deleted /\ Row(mm, "C", jd) = new
      BY <1>1, <1>2, <1>5, <2>1, PlannedRows
    <3>2. QED
      BY <1>4, <3>1
  <2>2. CASE jd # id
    <3>1. HasRow(m, "C", jd) /\ Row(mm, "C", jd) = Row(m, "C", jd)
      <4>1. PICK tt \in Tables : tt = "C"
        BY <1>2
      <4>2. ~(tt = "C" /\ jd = id) /\ ~(tt = "C" /\ jd \in {}) =>
              (HasRow(mm, tt, jd) <=> HasRow(m, tt, jd)) /\ (HasRow(m, tt, jd) => Row(mm, tt, jd) = Row(m, tt, jd))
        BY <1>1, <1>2, PlannedRows
      <4>3. QED
        BY <1>5, <2>2, <4>1, <4>2
    <3>2. QED
      BY <1>4, <3>1 DEF Sound, Parented
  <2>3. QED
    BY <2>1, <2>2
<1>6. QED
  BY <1>1, <1>5 DEF Parented

\* Children that a plan does not name stay.
LEMMA PlannedChildren ==
    ASSUME NEW n, NEW ix, ShapeOK(n, ix), NEW m, NEW id, NEW new, NEW ids, NEW g,
           NEW u, Plan(u, m, "P", id, new, ids, g, ix), NEW mm, mm = Overlay(m, u), NEW jd, jd \notin ids
    PROVE  (HasRow(mm, "C", jd) <=> HasRow(m, "C", jd)) /\ (HasRow(m, "C", jd) => Row(mm, "C", jd) = Row(m, "C", jd))
<1>1. "P" \in Tables /\ "C" \in Tables
  BY DEF Tables
<1>2. PICK t \in Tables, s \in Tables : t = "P" /\ s = "C"
  BY <1>1
<1>3. Plan(u, m, t, id, new, ids, g, ix) /\ ~(s = t /\ jd = id) /\ ~(s = "C" /\ jd \in ids)
  BY <1>2
<1>4. (HasRow(mm, s, jd) <=> HasRow(m, s, jd)) /\ (HasRow(m, s, jd) => Row(mm, s, jd) = Row(m, s, jd))
  BY <1>3, PlannedRows
<1>5. QED
  BY <1>2, <1>4

\* A parent that takes another key, or goes, takes its children along.
LEMMA PlanParent ==
    ASSUME NEW n, NEW ix, ShapeOK(n, ix), NEW m, NEW id \in Nat, NEW new, NEW ids, NEW g,
           NEW u, Plan(u, m, "P", id, new, ids, g, ix), Sound(m),
           \A jd \in ids : g[jd] = Deleted \/ g[jd].f = Null \/ (new # Deleted /\ g[jd].f = new.k),
           \A jd \in Nat : HasRow(m, "C", jd) /\ jd \notin ids =>
              \/ Row(m, "C", jd).f = Null \/ ~HasRow(m, "P", id) \/ Row(m, "C", jd).f # Row(m, "P", id).k
              \/ new # Deleted /\ new.k = Row(m, "P", id).k
    PROVE  Parented(Overlay(m, u))
<1>1. PICK mm : mm = Overlay(m, u)
  OBVIOUS
<1>2. "C" \in Tables /\ "P" \in Tables
  BY DEF Tables
<1>b. \A jd : jd \notin ids => (HasRow(mm, "C", jd) <=> HasRow(m, "C", jd)) /\ (HasRow(m, "C", jd) => Row(mm, "C", jd) = Row(m, "C", jd))
  BY <1>1, PlannedChildren
<1>3. \A jd : jd # id => (HasRow(mm, "P", jd) <=> HasRow(m, "P", jd)) /\ (HasRow(m, "P", jd) => Row(mm, "P", jd) = Row(m, "P", jd))
  BY <1>1, <1>2, PlannedRows
<1>4. new # Deleted => HasRow(mm, "P", id) /\ Row(mm, "P", id) = new
  BY <1>1, <1>2, PlannedRows
<1>5. ASSUME NEW jd \in Nat, HasRow(mm, "C", jd) PROVE Parent(mm, Row(mm, "C", jd).f)
  <2>1. CASE jd \in ids
    <3>1. g[jd] # Deleted /\ Row(mm, "C", jd) = g[jd]
      BY <1>1, <1>2, <1>5, <2>1, PlannedRows
    <3>2. QED
      BY <1>4, <2>1, <3>1 DEF Parent
  <2>2. CASE jd \notin ids
    <3>1. HasRow(m, "C", jd) /\ Row(mm, "C", jd) = Row(m, "C", jd)
      BY <1>b, <1>5, <2>2
    <3>2. PICK v : v = Row(m, "C", jd).f
      OBVIOUS
    <3>3. CASE v = Null
      BY <3>1, <3>2, <3>3 DEF Parent
    <3>4. CASE v # Null
      <4>1. PICK pd \in Nat : HasRow(m, "P", pd) /\ Row(m, "P", pd).k = v
        BY <3>1, <3>2, <3>4 DEF Sound, Parented, Parent
      <4>2. CASE pd # id
        BY <1>3, <3>1, <3>2, <4>1, <4>2 DEF Parent
      <4>3. CASE pd = id
        BY <1>4, <2>2, <3>1, <3>2, <3>4, <4>1, <4>3 DEF Parent
      <4>4. QED
        BY <4>2, <4>3
    <3>5. QED
      BY <3>3, <3>4
  <2>3. QED
    BY <2>1, <2>2
<1>6. QED
  BY <1>1, <1>5 DEF Parented

\* What the checks of statement.rs find.
LEMMA ValidParent ==
    ASSUME NEW n, NEW ix, ShapeOK(n, ix), NEW m, IsMap(m, n, ix), NEW row,
           validate_foreign_keys_for_row(m, "C", row)
    PROVE  Parent(m, row.f)
<1>1. "P" \in Tables
  BY DEF Tables
<1>2. \A id \in Ids(m, "P") : id \in Nat /\ HasRow(m, "P", id)
  BY <1>1, IdsAreRows
<1>3. QED
  BY <1>2 DEF validate_foreign_keys_for_row, Parent

\* The unique index finds every row: what the duplicate check relies on.
LEMMA ScanFinds ==
    ASSUME NEW n, NEW ix, ShapeOK(n, ix), NEW m, IsMap(m, n, ix), NEW t \in Tables, Indexed(m, t, "pk", {}),
           NEW id \in Nat, HasRow(m, t, id), NEW v, v = Row(m, t, id).k
    PROVE  id \in scan_prefix_visible(m, t, "pk", v)
<1>1. id \in Ids(m, t) /\ Row(m, t, id) \in Rows(t)
  BY IdsAreRows
<1>2. v = get_index_values("pk", Row(m, t, id)) /\ v \in V0
  BY <1>1, RowParts DEF get_index_values, V0
<1>3. EntryKey(t, "pk", v, id) \in DOMAIN m
  BY <1>2 DEF Indexed
<1>4. QED
  BY <1>1, <1>3 DEF scan_prefix_visible

\* The cascade finds every child.
LEMMA ChildrenOf ==
    ASSUME NEW n, NEW ix, ShapeOK(n, ix), NEW m, IsMap(m, n, ix), NEW v, v # Null
    PROVE  /\ \A id \in Nat : HasRow(m, "C", id) /\ Row(m, "C", id).f = v => id \in Children(m, v)
           /\ \A id \in Children(m, v) : id \in Nat /\ HasRow(m, "C", id) /\ Row(m, "C", id) \in Rows("C")
<1>1. "C" \in Tables
  BY DEF Tables
<1>2. \A id : id \in Ids(m, "C") <=> id \in Nat /\ HasRow(m, "C", id)
  BY <1>1, IdsAreRows
<1>3. \A id \in Ids(m, "C") : Row(m, "C", id) \in Rows("C")
  BY <1>1, IdsAreRows
<1>4. QED
  BY <1>2, <1>3 DEF Children

\* An update that its checks let through keeps keys unique and parents in place,
LEMMA UpdatedSound ==
    ASSUME NEW n, ShapeOK(n, indexes), NEW m, IsMap(m, n, indexes), Sound(m), NEW t \in Tables,
           Indexed(m, t, "pk", {}),
           NEW id \in Ids(m, t), NEW new \in Rows(t), NEW r, r = Updated(m, t, id, new), ~r.error
    PROVE  Sound(Overlay(m, r.writes))
<1>1. PICK old : old = Row(m, t, id)
  OBVIOUS
<1>2. PICK ids : ids = MovedOn(m, t, old, new)
  OBVIOUS
<1>3. PICK g : g = MovedTo(m, ids, NewParent(new))
  OBVIOUS
<1>4. PICK u : u = r.writes
  OBVIOUS
<1>5. /\ Plan(u, m, t, id, new, ids, g, indexes)
      /\ validate_foreign_keys_for_row(Overlay(m, OnUpdate(m, t, old, new).writes), t, new)
      /\ new.k # old.k => ~Duplicate(m, t, new.k, id)
  BY <1>1, <1>2, <1>3, <1>4, UpdatedPlan
<1>6. id \in Nat /\ HasRow(m, t, id) /\ old \in Rows(t)
  BY <1>1, IdsAreRows
<1>7. new # Deleted /\ new.k \in Values /\ old.k \in Values /\ new.k # Null /\ old.k # Null /\ new.f \in V0
  BY <1>6, RowParts, SqlTablesAssumption
<1>8. /\ \A jd \in ids : t = "P" /\ old.k # new.k /\ jd \in Nat /\ HasRow(m, "C", jd) /\ Row(m, "C", jd) \in Rows("C")
      /\ t = "P" /\ old.k # new.k => ids = Children(m, old.k)
  BY <1>2, <1>7, ChildrenOf DEF MovedOn
<1>9. NewParent(new) \in V0 /\ NewParent(new) \in {Null, new.k}
  BY <1>7 DEF NewParent, V0
<1>10. \A jd \in ids : g[jd] = [Row(m, "C", jd) EXCEPT !.f = NewParent(new)]
  BY <1>3 DEF MovedTo
<1>11. ASSUME NEW jd \in ids PROVE g[jd].k = Row(m, "C", jd).k /\ g[jd].f = NewParent(new)
  <2>1. PICK y \in Rows("C") : y = Row(m, "C", jd)
    BY <1>8
  <2>2. PICK v \in V0 : v = NewParent(new)
    BY <1>9
  <2>3. g[jd] = [y EXCEPT !.f = v]
    BY <1>10, <2>1, <2>2
  <2>4. g[jd].f = v /\ g[jd].k = y.k
    BY <2>3, RowWithF
  <2>5. QED
    BY <2>1, <2>2, <2>4
<1>12. ASSUME NEW jd \in Nat, jd # id, HasRow(m, t, jd) PROVE Row(m, t, jd).k # new.k
  <2>1. CASE new.k = old.k
    BY <1>1, <1>6, <1>12, <2>1 DEF Sound, Unique
  <2>2. CASE new.k # old.k
    <3>1. scan_prefix_visible(m, t, "pk", new.k) \ {id} = {}
      BY <1>5, <1>7, <2>2 DEF Duplicate
    <3>2. Row(m, t, jd).k = new.k => jd \in scan_prefix_visible(m, t, "pk", new.k)
      BY <1>12, ScanFinds
    <3>3. QED
      BY <1>12, <3>1, <3>2
  <2>3. QED
    BY <2>1, <2>2
<1>13. KeysKept(m, ids, g) /\ KeyFree(m, t, id, new)
  BY <1>8, <1>11, <1>12 DEF KeysKept, KeyFree
<1>14. \A s \in Tables : Unique(Overlay(m, u), s)
  BY <1>5, <1>13, PlanUnique
<1>15. CASE t = "C"
  <2>1. ids = {} /\ Plan(u, m, "C", id, new, {}, g, indexes)
    BY <1>5, <1>8, <1>15
  <2>2. OnUpdate(m, t, old, new).writes = Empty
    BY <1>15 DEF OnUpdate, NoCascade
  <2>3. validate_foreign_keys_for_row(m, "C", new)
    BY <1>5, <1>15, <2>2, OverlayEmpty DEF IsMap
  <2>4. Parent(m, new.f)
    BY <2>3, ValidParent
  <2>5. Parented(Overlay(m, u))
    BY <2>1, <2>4, PlanChild
  <2>6. QED
    BY <1>4, <1>14, <2>5 DEF Sound
<1>16. CASE t = "P"
  <2>1. Plan(u, m, "P", id, new, ids, g, indexes)
    BY <1>5, <1>16
  <2>2. \A jd \in ids : g[jd] = Deleted \/ g[jd].f = Null \/ (new # Deleted /\ g[jd].f = new.k)
    BY <1>7, <1>9, <1>11
  <2>3. ASSUME NEW jd \in Nat, HasRow(m, "C", jd), jd \notin ids
        PROVE  \/ Row(m, "C", jd).f = Null \/ ~HasRow(m, "P", id) \/ Row(m, "C", jd).f # Row(m, "P", id).k
               \/ new # Deleted /\ new.k = Row(m, "P", id).k
    <3>1. CASE old.k = new.k
      BY <1>1, <1>7, <1>16, <3>1
    <3>2. CASE old.k # new.k
      <4>1. Row(m, "C", jd).f = old.k => jd \in Children(m, old.k)
        BY <1>7, <2>3, ChildrenOf
      <4>2. QED
        BY <1>1, <1>8, <1>16, <2>3, <3>2, <4>1
    <3>3. QED
      BY <3>1, <3>2
  <2>4. Parented(Overlay(m, u))
    BY <1>6, <2>1, <2>2, <2>3, PlanParent
  <2>5. QED
    BY <1>4, <1>14, <2>4 DEF Sound
<1>17. QED
  BY <1>15, <1>16 DEF Tables

\* so does a deletion with its cascade,
LEMMA RemovedSound ==
    ASSUME NEW n, ShapeOK(n, indexes), NEW m, IsMap(m, n, indexes), Sound(m), NEW t \in Tables,
           NEW id \in Ids(m, t), NEW r, r = Removed(m, t, id), ~r.error
    PROVE  Sound(Overlay(m, r.writes))
<1>1. PICK row : row = Row(m, t, id)
  OBVIOUS
<1>2. PICK ids : ids = DroppedOn(m, t, row)
  OBVIOUS
<1>3. PICK g : g = DroppedTo(m, ids)
  OBVIOUS
<1>4. PICK u : u = r.writes
  OBVIOUS
<1>5. Plan(u, m, t, id, Deleted, ids, g, indexes)
  BY <1>1, <1>2, <1>3, <1>4, RemovedPlan
<1>6. id \in Nat /\ HasRow(m, t, id) /\ row \in Rows(t)
  BY <1>1, IdsAreRows
<1>7. row.k \in Values /\ row.k # Null
  BY <1>6, RowParts, SqlTablesAssumption
<1>8. /\ \A jd \in ids : t = "P" /\ jd \in Nat /\ HasRow(m, "C", jd) /\ Row(m, "C", jd) \in Rows("C")
      /\ t = "P" => ids = Children(m, row.k)
  BY <1>2, <1>7, ChildrenOf DEF DroppedOn
<1>9. \A jd \in ids : g[jd] = Deleted \/ g[jd] = [Row(m, "C", jd) EXCEPT !.f = Null]
  BY <1>3 DEF DroppedTo
<1>10. Null \in V0
  BY DEF V0
<1>11. ASSUME NEW jd \in ids PROVE g[jd] = Deleted \/ (g[jd].k = Row(m, "C", jd).k /\ g[jd].f = Null)
  <2>1. PICK y \in Rows("C") : y = Row(m, "C", jd)
    BY <1>8
  <2>2. g[jd] = Deleted \/ g[jd] = [y EXCEPT !.f = Null]
    BY <1>9, <2>1
  <2>3. g[jd] = Deleted \/ (g[jd].f = Null /\ g[jd].k = y.k)
    <3>1. PICK v \in V0 : v = Null
      BY <1>10
    <3>2. [y EXCEPT !.f = v].f = v /\ [y EXCEPT !.f = v].k = y.k
      BY RowWithF
    <3>3. QED
      BY <2>2, <3>1, <3>2
  <2>4. QED
    BY <2>1, <2>3
<1>12. KeysKept(m, ids, g) /\ KeyFree(m, t, id, Deleted)
  BY <1>8, <1>11 DEF KeysKept, KeyFree
<1>13. \A s \in Tables : Unique(Overlay(m, u), s)
  BY <1>5, <1>12, PlanUnique
<1>14. CASE t = "C"
  <2>1. Plan(u, m, "C", id, Deleted, {}, g, indexes)
    BY <1>5, <1>8, <1>14
  <2>2. Parented(Overlay(m, u))
    BY <2>1, PlanChild
  <2>3. QED
    BY <1>4, <1>13, <2>2 DEF Sound
<1>15. CASE t = "P"
  <2>1. Plan(u, m, "P", id, Deleted, ids, g, indexes)
    BY <1>5, <1>15
  <2>2. \A jd \in ids : g[jd] = Deleted \/ g[jd].f = Null
    BY <1>11
  <2>3. \A jd \in Nat : HasRow(m, "C", jd) /\ jd \notin ids => Row(m, "C", jd).f # Row(m, "P", id).k
    <3>1. \A jd \in Nat : HasRow(m, "C", jd) /\ Row(m, "C", jd).f = row.k => jd \in Children(m, row.k)
      BY <1>7, ChildrenOf
    <3>2. QED
      BY <1>1, <1>8, <1>15, <3>1
  <2>4. Parented(Overlay(m, u))
    BY <1>6, <2>1, <2>2, <2>3, PlanParent
  <2>5. QED
    BY <1>4, <1>13, <2>4 DEF Sound
<1>16. QED
  BY <1>14, <1>15 DEF Tables

\* and an insertion.
LEMMA InsertedSound ==
    ASSUME NEW n, n = next_row_id, ShapeOK(n, indexes), NEW m, IsMap(m, n, indexes), Sound(m), NEW t \in Tables,
           Indexed(m, t, "pk", {}), NEW row \in Rows(t), NEW r, r = Inserted(t, row),
           validate_foreign_keys_for_row(m, t, row), row.k = Null \/ scan_prefix_visible(m, t, "pk", row.k) = {}
    PROVE  Sound(Overlay(m, r.writes))
<1>1. PICK u, id : u = r.writes /\ id = n[t]
  OBVIOUS
<1>2. Plan(u, m, t, id, row, {}, Empty, indexes) /\ ~HasRow(m, t, id) /\ id \in Nat
  BY <1>1, InsertedPlan DEF ShapeOK
<1>3. row # Deleted /\ row.k \in Values /\ row.k # Null
  BY RowParts, SqlTablesAssumption
<1>4. ASSUME NEW jd \in Nat, HasRow(m, t, jd) PROVE Row(m, t, jd).k # row.k
  <2>1. Row(m, t, jd).k = row.k => jd \in scan_prefix_visible(m, t, "pk", row.k)
    BY <1>4, ScanFinds
  <2>2. QED
    BY <1>3, <2>1
<1>5. \A s \in Tables : Unique(Overlay(m, u), s)
  <2>1. PICK ids, g : ids = {} /\ g = Empty
    OBVIOUS
  <2>2. Plan(u, m, t, id, row, ids, g, indexes) /\ KeysKept(m, ids, g) /\ KeyFree(m, t, id, row)
    BY <1>2, <1>4, <2>1 DEF KeysKept, KeyFree
  <2>3. QED
    BY <2>2, PlanUnique
<1>6. CASE t = "C"
  <2>1. Plan(u, m, "C", id, row, {}, Empty, indexes)
    BY <1>2, <1>6
  <2>2. Parent(m, row.f)
    BY <1>6, ValidParent
  <2>3. Parented(Overlay(m, u))
    BY <2>1, <2>2, PlanChild
  <2>4. QED
    BY <1>1, <1>5, <2>3 DEF Sound
<1>7. CASE t = "P"
  <2>1. PICK ids, g : ids = {} /\ g = Empty
    OBVIOUS
  <2>2. Plan(u, m, "P", id, row, ids, g, indexes) /\ ~HasRow(m, "P", id)
    BY <1>2, <1>7, <2>1
  <2>3. \A jd \in ids : g[jd] = Deleted \/ g[jd].f = Null \/ (row # Deleted /\ g[jd].f = row.k)
    BY <2>1
  <2>4. Parented(Overlay(m, u))
    BY <1>2, <2>2, <2>3, PlanParent
  <2>5. QED
    BY <1>1, <1>5, <2>4 DEF Sound
<1>8. QED
  BY <1>6, <1>7 DEF Tables

\* The statements whose checks keep keys and references.
Checked(st) == st.kind \notin {"merge", "copy"} /\ (st.kind = "insert" => st.on # "duplicate")

\* A row changes no other row than an index entry.
LEMMA SameRows ==
    ASSUME NEW m, NEW mm, Sound(m),
           \A t \in Tables : \A id : (HasRow(mm, t, id) <=> HasRow(m, t, id)) /\ (HasRow(m, t, id) => Row(mm, t, id) = Row(m, t, id))
    PROVE  Sound(mm)
<1>1. "P" \in Tables /\ "C" \in Tables
  BY DEF Tables
<1>2. \A t \in Tables : Unique(mm, t)
  BY DEF Sound, Unique
<1>3. \A v : Parent(m, v) => Parent(mm, v)
  BY <1>1 DEF Parent
<1>4. Parented(mm)
  BY <1>1, <1>3 DEF Sound, Parented
<1>5. QED
  BY <1>2, <1>4 DEF Sound

\* Every row of a statement that checks.
LEMMA RowSound ==
    ASSUME NEW n, n = next_row_id, ShapeOK(n, indexes), NEW m, IsMap(m, n, indexes), NEW st,
           StmtOK(st, m, n, indexes),
           st.todo # <<>>, Checked(st), Sound(m), \A t \in Tables : Indexed(m, t, "pk", {}),
           NEW r, r = StatementRow(m, st), ~r.error
    PROVE  Sound(Overlay(m, r.writes))
<1>1. PICK item : item = Head(st.todo)
  OBVIOUS
<1>2. PICK t \in Tables : t = st.t
  BY DEF StmtOK
<1>3. item \in Elems(st.todo) /\ st.kind \in {"insert", "update", "delete", "create_index"}
  BY <1>1, TodoStep DEF StmtOK, Checked
<1>4. Indexed(m, t, "pk", {})
  OBVIOUS
<1>5. CASE st.kind = "insert"
  <2>1. item \in Rows(t) /\ st.on \in {"error", "nothing", "update"}
    BY <1>2, <1>3, <1>5 DEF StmtOK, Checked
  <2>2. r = insert_row(m, st, item)
    BY <1>1, <1>5 DEF StatementRow
  <2>3. Error(Empty).error /\ Ok(Empty).writes = Empty
    BY DEF Error, Ok
  <2>4. CASE r = Ok(Empty)
    BY <2>3, <2>4, OverlayEmpty DEF IsMap
  <2>5. CASE /\ validate_foreign_keys_for_row(m, t, item)
             /\ item.k = Null \/ scan_prefix_visible(m, t, "pk", item.k) = {}
             /\ r = Inserted(t, item)
    BY <1>4, <2>1, <2>5, InsertedSound
  <2>6. ASSUME NEW id \in Ids(m, t), r = Updated(m, t, id, [Row(m, t, id) EXCEPT !.f = item.f])
        PROVE  Sound(Overlay(m, r.writes))
    <3>1. PICK old, new : old = Row(m, t, id) /\ new = [old EXCEPT !.f = item.f]
      OBVIOUS
    <3>2. old \in Rows(t) /\ item.f \in V0
      BY <2>1, <3>1, CurrentRow, RowParts
    <3>3. new \in Rows(t)
      <4>1. CASE t = "C"
        BY <3>1, <3>2, <4>1, RowWithF
      <4>2. CASE t = "P"
        BY <2>1, <3>1, <3>2, <4>2 DEF Rows
      <4>3. QED
        BY <4>1, <4>2 DEF Tables
    <3>4. QED
      BY <1>4, <2>6, <3>1, <3>3, UpdatedSound
  <2>7. \/ r = Error(Empty)
        \/ r = Ok(Empty)
        \/ /\ validate_foreign_keys_for_row(m, t, item)
           /\ item.k = Null \/ scan_prefix_visible(m, t, "pk", item.k) = {}
           /\ r = Inserted(t, item)
        \/ \E id \in Ids(m, t) : r = Updated(m, t, id, [Row(m, t, id) EXCEPT !.f = item.f])
    <3>1. \/ r = Error(Empty)
          \/ st.on = "nothing" /\ r = Ok(Empty)
          \/ /\ validate_foreign_keys_for_row(m, st.t, item)
             /\ item.k = Null \/ scan_prefix_visible(m, st.t, "pk", item.k) = {}
             /\ r = Inserted(st.t, item)
          \/ \E id \in Ids(m, st.t) : st.on = "update" /\ r = Updated(m, st.t, id, [Row(m, st.t, id) EXCEPT !.f = item.f])
          \/ \E id \in Ids(m, st.t) : st.on \notin {"error", "nothing", "update"}
                /\ r = Overwritten(m, st.t, id, Row(m, st.t, id), [Row(m, st.t, id) EXCEPT !.k = st.set])
      BY <2>2, InsertCases
    <3>2. QED
      BY <1>2, <2>1, <3>1
  <2>8. QED
    BY <2>3, <2>4, <2>5, <2>6, <2>7
<1>6. CASE st.kind = "update"
  <2>1. item \in Ids(m, t)
    BY <1>2, <1>3, <1>6, IdsAreRows DEF StmtOK
  <2>2. PICK old, new : old = Row(m, t, item) /\ new = Assigned(st, old)
    OBVIOUS
  <2>3. old \in Rows(t)
    BY <2>1, <2>2, CurrentRow
  <2>4. new \in Rows(t)
    BY <1>2, <1>6, <2>2, <2>3, AssignedRow DEF StmtOK
  <2>5. r = Updated(m, t, item, new)
    BY <1>1, <1>2, <1>6, <2>2 DEF StatementRow, update_row
  <2>6. QED
    BY <1>4, <2>1, <2>4, <2>5, UpdatedSound
<1>7. CASE st.kind = "delete"
  <2>1. item \in Ids(m, t)
    BY <1>2, <1>3, <1>7, IdsAreRows DEF StmtOK
  <2>2. r = Removed(m, t, item)
    BY <1>1, <1>2, <1>7 DEF StatementRow, delete_row
  <2>3. QED
    BY <2>1, <2>2, RemovedSound
<1>8. CASE st.kind = "create_index"
  <2>1. RowDone(r, m, st, n, indexes)
    BY RowsAreDone
  <2>2. \A s, jd : ~HasRow(r.writes, s, jd)
    BY <1>8, <2>1 DEF RowDone
  <2>3. PICK mm : mm = Overlay(m, r.writes)
    OBVIOUS
  <2>4. \A s, jd : (HasRow(mm, s, jd) <=> HasRow(m, s, jd)) /\ (HasRow(m, s, jd) => Row(mm, s, jd) = Row(m, s, jd))
    BY <2>2, <2>3, CurrentOverlay
  <2>5. Sound(mm)
    BY <2>4, SameRows
  <2>6. QED
    BY <2>3, <2>5
<1>9. QED
  BY <1>3, <1>5, <1>6, <1>7, <1>8

----------------------------------------------------------------------------
(* The invariant of keys and references. *)

SoundSession(c) == (Fine(c) => Sound(ViewOf(c))) /\ Checked(c.stmt)
SoundInv == excused = {} => Sound(db) /\ \A s \in Sessions : SoundSession(sess[s])

\* The state before a step that leaves nothing unchecked.
SoundState == DbOK /\ SessionsOK /\ Sound(db) /\ \A s \in Sessions : SoundSession(sess[s])

\* One session moves on; the committed maps stay.
LEMMA SoundStep ==
    ASSUME SoundState, NEW s \in Sessions, NEW e, sess' = [sess EXCEPT ![s] = e], db' = db, SoundSession(e)
    PROVE  SoundInv'
<1>1. sess'[s] = e /\ \A o \in Sessions \ {s} : sess'[o] = sess[o]
  BY DEF SoundState, SessionsOK
<1>2. \A o \in Sessions : SoundSession(sess'[o])
  BY <1>1 DEF SoundState
<1>3. QED
  BY <1>2 DEF SoundInv, SoundState

\* A session at rest.
LEMMA IdleSound == SoundSession(Idle) /\ SoundSession([Idle EXCEPT !.tx = "closed"]) /\ Checked(NoStmt) /\ Checked([NoStmt EXCEPT !.kind = "done"])
<1>1. Checked(NoStmt) /\ Checked([NoStmt EXCEPT !.kind = "done"])
  BY DEF Checked, NoStmt
<1>2. Idle.stmt = NoStmt /\ Idle.tx = "none"
  BY DEF Idle
<1>3. ASSUME NEW c, c = [Idle EXCEPT !.tx = "closed"] PROVE c.stmt = NoStmt /\ c.tx = "closed"
  BY <1>3 DEF Idle
<1>4. QED
  BY <1>1, <1>2, <1>3 DEF SoundSession, Fine

\* A transaction begins with sound maps.
LEMMA OpenedSound ==
    ASSUME SoundState, NEW s \in Sessions, sess[s].tx \in {"none", "open"}, NEW c, c = Opened(s)
    PROVE  SoundSession(c)
<1>1. CASE sess[s].tx = "none"
  <2>1. c = Begun(TRUE)
    BY <1>1 DEF Opened
  <2>2. ViewOf(c) = db /\ c.stmt = NoStmt
    BY <2>1, BegunOK DEF SoundState
  <2>3. QED
    BY <2>2, IdleSound DEF SoundSession, SoundState
<1>2. CASE sess[s].tx = "open"
  BY <1>2 DEF Opened, SoundState
<1>3. QED
  BY <1>1, <1>2

\* A statement that checks may start.
LEMMA StartSound ==
    ASSUME SoundState, NEW s \in Sessions, NEW st, StmtRec(st), NEW todo, Start(s, st, todo), Checked(st)
    PROVE  SoundInv'
<1>1. PICK c : c = Opened(s)
  OBVIOUS
<1>2. PICK st2 : st2 = Started(s, st, todo)
  OBVIOUS
<1>3. PICK e : e = [c EXCEPT !.builds = c.builds \/ st.kind = "create_index", !.stmt = st2]
  OBVIOUS
<1>4. sess' = [sess EXCEPT ![s] = e] /\ db' = db /\ sess[s].tx \in {"none", "open"} /\ sess[s].stmt.kind = "none"
  BY <1>1, <1>2, <1>3 DEF Start, Started
<1>5. SoundSession(c)
  BY <1>1, <1>4, OpenedSound
<1>6. SessRec(c)
  <2>1. SessOK(c, next_row_id, indexes)
    BY <1>1, <1>4, OpenedOK DEF SoundState
  <2>2. QED
    BY <2>1 DEF SessOK
<1>7. /\ e.tx = c.tx /\ e.snap = c.snap /\ e.w = c.w /\ e.stmt = st2
      /\ e.overlaps = c.overlaps /\ e.failed = c.failed
  BY <1>3, <1>6 DEF SessRec
<1>8. st2.kind = st.kind /\ st2.on = st.on
  BY <1>2, StartedParts
<1>9. SoundSession(e)
  BY <1>5, <1>7, <1>8 DEF SoundSession, Fine, ViewOf, Checked
<1>10. QED
  BY <1>4, <1>9, SoundStep

\* A row is done.
LEMMA RowDoneSound ==
    ASSUME SoundState, NEW s \in Sessions, row_done(s)
    PROVE  SoundInv'
<1>1. PICK c, m : c = sess[s] /\ m = ViewOf(c)
  OBVIOUS
<1>2. PICK r : r = StatementRow(m, c.stmt)
  OBVIOUS
<1>3. r = Result(s)
  BY <1>1, <1>2 DEF Result, View, ViewOf
<1>4. /\ c.tx = "open" /\ c.stmt.todo # <<>> /\ ~r.error /\ db' = db
      /\ sess' = [sess EXCEPT ![s].w = Then(@, r.writes), ![s].stmt.todo = Tail(@)]
  BY <1>1, <1>3 DEF row_done, Running
<1>5. /\ SessOK(c, next_row_id, indexes) /\ ViewOK(c, db, indexes) /\ SessRec(c) /\ StmtRec(c.stmt) /\ SoundSession(c)
      /\ ShapeOK(next_row_id, indexes) /\ StmtOK(c.stmt, m, next_row_id, indexes)
  BY <1>1 DEF SoundState, SessionsOK, SessOK, StmtOK, DbOK
<1>6. PICK e : e = AfterRow(c, r.writes)
  OBVIOUS
<1>7. sess' = [sess EXCEPT ![s] = e]
  BY <1>1, <1>4, <1>5, <1>6 DEF SoundState, SessionsOK, SessRec, AfterRow
<1>8. /\ e.tx = c.tx /\ e.snap = c.snap /\ e.overlaps = c.overlaps /\ e.failed = c.failed
      /\ e.w = Then(c.w, r.writes)
  BY <1>5, <1>6 DEF AfterRow, SessRec
<1>9. e.stmt.kind = c.stmt.kind /\ e.stmt.on = c.stmt.on
  BY <1>5, <1>6 DEF AfterRow, SessRec, StmtRec
<1>10. Checked(e.stmt) /\ Checked(c.stmt)
  BY <1>5, <1>9 DEF SoundSession, Checked
<1>11. ViewOf(e) = Overlay(m, r.writes)
  BY <1>1, <1>8, OverlayThen DEF ViewOf
<1>12. ASSUME Fine(e) PROVE Sound(ViewOf(e))
  <2>1. Fine(c)
    BY <1>8, <1>12 DEF Fine
  <2>2. Sound(m) /\ \A t \in Tables : Indexed(m, t, "pk", {})
    BY <1>1, <1>5, <2>1 DEF SoundSession, ViewOK
  <2>3. IsMap(m, next_row_id, indexes)
    BY <1>1, <1>5, OverlayIsMap DEF SessOK, ViewOf
  <2>4. PICK st : st = c.stmt
    OBVIOUS
  <2>5. StmtOK(st, m, next_row_id, indexes) /\ st.todo # <<>> /\ Checked(st) /\ r = StatementRow(m, st)
    BY <1>2, <1>4, <1>5, <1>10, <2>4
  <2>6. Sound(Overlay(m, r.writes))
    BY <1>4, <1>5, <2>2, <2>3, <2>5, RowSound
  <2>7. QED
    BY <1>11, <2>6
<1>13. SoundSession(e)
  BY <1>10, <1>12 DEF SoundSession
<1>14. QED
  BY <1>4, <1>7, <1>13, SoundStep

\* A statement fails, and its transaction with it.
LEMMA FailedSound ==
    ASSUME SoundState, NEW s \in Sessions, NEW w, Failed(s, w)
    PROVE  SoundInv'
<1>1. PICK c : c = sess[s]
  OBVIOUS
<1>2. PICK e : e = IF c.auto THEN Idle ELSE [c EXCEPT !.w = w, !.failed = TRUE, !.stmt = NoStmt]
  OBVIOUS
<1>3. sess' = [sess EXCEPT ![s] = e] /\ db' = db
  BY <1>1, <1>2 DEF Failed
<1>4. SessRec(c)
  BY <1>1 DEF SoundState, SessionsOK, SessOK
<1>5. e = Idle \/ (e.failed = TRUE /\ e.stmt = NoStmt)
  BY <1>2, <1>4 DEF SessRec
<1>6. SoundSession(e)
  BY <1>5, IdleSound DEF SoundSession, Fine
<1>7. QED
  BY <1>3, <1>6, SoundStep

\* Only the statement of a session changes.
LEMMA StatementSound ==
    ASSUME SoundState, NEW s \in Sessions, NEW st, Checked(st), db' = db,
           sess' = [sess EXCEPT ![s] = [sess[s] EXCEPT !.stmt = st]]
    PROVE  SoundInv'
<1>1. PICK c : c = sess[s]
  OBVIOUS
<1>2. PICK e : e = [c EXCEPT !.stmt = st]
  OBVIOUS
<1>3. SessRec(c) /\ SoundSession(c)
  BY <1>1 DEF SoundState, SessionsOK, SessOK
<1>4. /\ e.tx = c.tx /\ e.snap = c.snap /\ e.w = c.w /\ e.stmt = st
      /\ e.overlaps = c.overlaps /\ e.failed = c.failed
  BY <1>2, <1>3 DEF SessRec
<1>5. SoundSession(e)
  BY <1>3, <1>4 DEF SoundSession, Fine, ViewOf
<1>6. QED
  BY <1>1, <1>2, <1>5, SoundStep

\* The counting of rows changes no map.
LEMMA CountSound ==
    ASSUME SoundState, NEW s \in Sessions, approx_get(s) \/ approx_put(s)
    PROVE  SoundInv'
<1>1. PICK c, a : c = sess[s] /\ a = c.stmt
  OBVIOUS
<1>2. SessRec(c) /\ StmtRec(a) /\ Checked(a) /\ db' = db
  BY <1>1 DEF SoundState, SessionsOK, SessOK, StmtOK, SoundSession, approx_get, approx_put
<1>3. CASE approx_get(s)
  <2>1. PICK st : st = [a EXCEPT !.def = next_row_id[a.t]]
    OBVIOUS
  <2>2. sess' = [sess EXCEPT ![s].stmt.def = next_row_id[a.t]]
    BY <1>1, <1>3 DEF approx_get
  <2>3. sess' = [sess EXCEPT ![s] = [sess[s] EXCEPT !.stmt = st]]
    BY <1>1, <1>2, <2>1, <2>2 DEF SoundState, SessionsOK, SessRec
  <2>4. st.kind = a.kind /\ st.on = a.on
    BY <1>2, <2>1 DEF StmtRec
  <2>5. Checked(st)
    BY <1>2, <2>4 DEF Checked
  <2>6. QED
    BY <1>2, <2>3, <2>5, StatementSound
<1>4. CASE approx_put(s)
  <2>1. PICK st : st = [NoStmt EXCEPT !.kind = "done"]
    OBVIOUS
  <2>2. sess' = [sess EXCEPT ![s].stmt = st]
    BY <1>4, <2>1 DEF approx_put
  <2>3. sess' = [sess EXCEPT ![s] = [sess[s] EXCEPT !.stmt = st]]
    BY <1>1, <1>2, <2>2 DEF SoundState, SessionsOK, SessRec
  <2>4. Checked(st)
    BY <2>1, IdleSound
  <2>5. QED
    BY <1>2, <2>3, <2>4, StatementSound
<1>5. QED
  BY <1>3, <1>4

\* A commit makes the view of the session the committed maps.
LEMMA CommittedSound ==
    ASSUME SoundState, NEW s \in Sessions, sess[s].tx = "open", Committed(s)
    PROVE  SoundInv'
<1>1. SUFFICES ASSUME excused' = {} PROVE SoundInv'
  BY DEF SoundInv
<1>2. PICK c : c = sess[s]
  OBVIOUS
<1>3. PICK wrote \in BOOLEAN : wrote <=> DOMAIN c.w # {}
  OBVIOUS
<1>4. /\ db' = Overlay(db, c.w)
      /\ sess' = [o \in Sessions |-> IF o = s THEN Idle ELSE [sess[o] EXCEPT !.overlaps = @ \/ (wrote /\ sess[o].tx = "open")]]
      /\ wrote => ~c.overlaps /\ ~c.failed
  BY <1>1, <1>2, <1>3 DEF Committed
<1>5. SessOK(c, next_row_id, indexes) /\ ViewOK(c, db, indexes) /\ SoundSession(c)
  BY <1>2 DEF SoundState, SessionsOK
<1>6. Sound(db')
  <2>1. CASE ~wrote
    <3>1. c.w = Empty
      BY <1>3, <1>5, <2>1 DEF SessOK, IsWrites, Empty
    <3>2. db' = db
      BY <1>4, <3>1, OverlayEmpty DEF SoundState, DbOK, IsMap
    <3>3. QED
      BY <3>2 DEF SoundState
  <2>2. CASE wrote
    <3>1. Fine(c) /\ c.snap = db
      BY <1>2, <1>4, <1>5, <2>2 DEF Fine, ViewOK
    <3>2. db' = ViewOf(c)
      BY <1>4, <3>1 DEF ViewOf
    <3>3. QED
      BY <1>5, <3>1, <3>2 DEF SoundSession
  <2>3. QED
    BY <2>1, <2>2
<1>7. ASSUME NEW o \in Sessions \ {s} PROVE SoundSession(sess'[o])
  <2>1. PICK a, e : a = sess[o] /\ e = sess'[o]
    OBVIOUS
  <2>2. SessRec(a) /\ SoundSession(a)
    BY <2>1 DEF SoundState, SessionsOK, SessOK
  <2>3. PICK y : y = (a.overlaps \/ (wrote /\ a.tx = "open"))
    OBVIOUS
  <2>4. e = [a EXCEPT !.overlaps = y]
    BY <1>4, <2>1, <2>2, <2>3 DEF SessRec
  <2>5. e.tx = a.tx /\ e.snap = a.snap /\ e.w = a.w /\ e.stmt = a.stmt /\ e.failed = a.failed /\ (a.overlaps => e.overlaps)
    BY <2>2, <2>3, <2>4 DEF SessRec
  <2>6. SoundSession(e)
    BY <2>2, <2>5 DEF SoundSession, Fine, ViewOf
  <2>7. QED
    BY <2>1, <2>6
<1>8. sess'[s] = Idle
  BY <1>4
<1>9. QED
  BY <1>6, <1>7, <1>8, IdleSound DEF SoundInv

\* DROP INDEX changes no row.
LEMMA DropIndexSound ==
    ASSUME SoundState, NEW s \in Sessions, drop_index(s)
    PROVE  SoundInv'
<1>1. /\ db' = WithoutFk(db)
      /\ sess' = [o \in Sessions |-> [sess[o] EXCEPT !.snap = WithoutFk(@), !.w = WithoutFk(@)]]
  BY DEF drop_index, Without, WithoutFk
<1>2. ASSUME NEW m, Sound(m) PROVE Sound(WithoutFk(m))
  <2>1. PICK w : w = WithoutFk(m)
    OBVIOUS
  <2>2. \A t, id : (HasRow(w, t, id) <=> HasRow(m, t, id)) /\ (HasRow(m, t, id) => Row(w, t, id) = Row(m, t, id))
    BY <2>1, KeyParts DEF WithoutFk, HasRow, Row
  <2>3. Sound(w)
    BY <1>2, <2>2, SameRows
  <2>4. QED
    BY <2>1, <2>3
<1>3. ASSUME NEW o \in Sessions PROVE SoundSession(sess'[o])
  <2>1. PICK c, e : c = sess[o] /\ e = sess'[o]
    OBVIOUS
  <2>2. SessRec(c) /\ SoundSession(c)
    BY <2>1 DEF SoundState, SessionsOK, SessOK
  <2>3. PICK a, w : a = WithoutFk(c.snap) /\ w = WithoutFk(c.w)
    OBVIOUS
  <2>4. e = [c EXCEPT !.snap = a, !.w = w]
    BY <1>1, <2>1, <2>2, <2>3 DEF SessRec
  <2>5. e.tx = c.tx /\ e.snap = a /\ e.w = w /\ e.stmt = c.stmt /\ e.overlaps = c.overlaps /\ e.failed = c.failed
    BY <2>2, <2>4 DEF SessRec
  <2>6. ViewOf(e) = WithoutFk(ViewOf(c)) /\ (Fine(e) <=> Fine(c))
    BY <2>3, <2>5, WithoutFkView DEF ViewOf, Fine
  <2>7. SoundSession(e)
    BY <1>2, <2>2, <2>5, <2>6 DEF SoundSession
  <2>8. QED
    BY <2>1, <2>7
<1>4. Sound(db')
  BY <1>1, <1>2 DEF SoundState
<1>5. QED
  BY <1>3, <1>4 DEF SoundInv

\* TRUNCATE takes all rows of a table nobody refers to.
LEMMA TruncateSound ==
    ASSUME SoundState, NEW s \in Sessions, truncate(s)
    PROVE  SoundInv'
<1>1. SUFFICES ASSUME excused' = {} PROVE SoundInv'
  BY DEF SoundInv
<1>2. PICK t \in Tables :
        /\ sess[s].tx = "none" /\ (t = "P" => Ids(db, "C") = {})
        /\ db' = WithoutTable(db, t)
        /\ sess' = [o \in Sessions |-> [sess[o] EXCEPT !.snap = WithoutTable(@, t), !.w = WithoutTable(@, t)]]
        /\ excused' = excused \cup IF Others(s) # {} THEN {"overlap"} ELSE {}
  BY DEF truncate, Without, WithoutTable
<1>3. \A o \in Sessions : sess[o].tx # "open"
  BY <1>1, <1>2 DEF Others
<1>4. PICK m, w : m = db /\ w = WithoutTable(m, t)
  OBVIOUS
<1>5. \A u, id : (HasRow(w, u, id) <=> u # t /\ HasRow(m, u, id)) /\ (HasRow(w, u, id) => Row(w, u, id) = Row(m, u, id))
  BY <1>4, KeyParts DEF WithoutTable, HasRow, Row
<1>6. Sound(m) /\ IsMap(m, next_row_id, indexes) /\ ShapeOK(next_row_id, indexes) /\ "C" \in Tables
  BY <1>4 DEF SoundState, DbOK, Tables
<1>7. \A u \in Tables : Unique(w, u)
  BY <1>5, <1>6 DEF Sound, Unique
<1>8. Parented(w)
  <2>1. CASE t = "C"
    BY <1>5, <2>1 DEF Parented
  <2>2. CASE t = "P"
    <3>1. \A id \in Nat : ~HasRow(m, "C", id)
      BY <1>2, <1>4, <1>6, <2>2, IdsAreRows
    <3>2. QED
      BY <1>5, <3>1 DEF Parented
  <2>3. QED
    BY <2>1, <2>2 DEF Tables
<1>9. ASSUME NEW o \in Sessions PROVE SoundSession(sess'[o])
  <2>1. PICK c, e : c = sess[o] /\ e = sess'[o]
    OBVIOUS
  <2>2. SessRec(c) /\ SoundSession(c) /\ c.tx # "open"
    BY <1>3, <2>1 DEF SoundState, SessionsOK, SessOK
  <2>3. PICK a, b : e = [c EXCEPT !.snap = a, !.w = b]
    BY <1>2, <2>1
  <2>4. e.tx = c.tx /\ e.stmt = c.stmt
    BY <2>2, <2>3 DEF SessRec
  <2>5. SoundSession(e)
    BY <2>2, <2>4 DEF SoundSession, Fine
  <2>6. QED
    BY <2>1, <2>5
<1>10. QED
  BY <1>2, <1>4, <1>7, <1>8, <1>9 DEF SoundInv, Sound

\* The steps that start a statement,
LEMMA StatementsSound ==
    ASSUME SoundState, excused' = {}, NEW s \in Sessions, Statement(s)
    PROVE  SoundInv'
<1>1. CASE insert(s)
  <2>1. PICK t \in Tables, on \in {"error", "nothing", "update", "duplicate"}, v \in Values \cup {Null} :
          \E rows : /\ Start(s, [NoStmt EXCEPT !.kind = "insert", !.t = t, !.on = on, !.set = v], rows)
                    /\ excused' = excused \cup IF on = "duplicate" THEN {"unchecked"} ELSE {}
    BY <1>1 DEF insert
  <2>2. PICK st : st = [NoStmt EXCEPT !.kind = "insert", !.t = t, !.on = on, !.set = v]
    OBVIOUS
  <2>3. StmtRec(st) /\ st.kind = "insert" /\ st.on = on
    BY <2>2 DEF NoStmt, StmtRec
  <2>4. on # "duplicate"
    BY <2>1
  <2>5. QED
    BY <2>1, <2>2, <2>3, <2>4, StartSound DEF Checked
<1>2. CASE update(s)
  <2>1. PICK t \in Tables, col \in {"k", "f"}, v \in Values :
          \E order : Start(s, [NoStmt EXCEPT !.kind = "update", !.t = t, !.col = col, !.set = v], order)
    BY <1>2 DEF update
  <2>2. PICK st : st = [NoStmt EXCEPT !.kind = "update", !.t = t, !.col = col, !.set = v]
    OBVIOUS
  <2>3. StmtRec(st) /\ st.kind = "update"
    BY <2>2 DEF NoStmt, StmtRec
  <2>4. QED
    BY <2>1, <2>2, <2>3, StartSound DEF Checked
<1>3. CASE delete(s)
  <2>1. PICK t \in Tables : \E order : Start(s, [NoStmt EXCEPT !.kind = "delete", !.t = t], order)
    BY <1>3 DEF delete
  <2>2. PICK st : st = [NoStmt EXCEPT !.kind = "delete", !.t = t]
    OBVIOUS
  <2>3. StmtRec(st) /\ st.kind = "delete"
    BY <2>2 DEF NoStmt, StmtRec
  <2>4. QED
    BY <2>1, <2>2, <2>3, StartSound DEF Checked
<1>4. CASE create_index(s)
  <2>1. PICK order : Start(s, [NoStmt EXCEPT !.kind = "create_index", !.t = "C"], order)
    BY <1>4 DEF create_index
  <2>2. PICK st : st = [NoStmt EXCEPT !.kind = "create_index", !.t = "C"]
    OBVIOUS
  <2>3. StmtRec(st) /\ st.kind = "create_index"
    BY <2>2 DEF NoStmt, StmtRec
  <2>4. QED
    BY <2>1, <2>2, <2>3, StartSound DEF Checked
<1>5. CASE merge(s) \/ copy(s)
  BY <1>5 DEF merge, copy
<1>6. QED
  BY <1>1, <1>2, <1>3, <1>4, <1>5, DropIndexSound, TruncateSound DEF Statement

\* and those that carry it on.
LEMMA StepsSound ==
    ASSUME SoundState, NEW s \in Sessions, Step(s)
    PROVE  SoundInv'
<1>1. CASE row_refused(s) \/ lock_timeout(s)
  <2>1. \E w : Failed(s, w)
    <3>1. CASE row_refused(s)
      BY <3>1 DEF row_refused
    <3>2. CASE lock_timeout(s)
      BY <3>2 DEF lock_timeout
    <3>3. QED
      BY <1>1, <3>1, <3>2
  <2>2. QED
    BY <2>1, FailedSound
<1>2. CASE deadlock(s)
  <2>1. PICK e : e = IF sess[s].auto THEN Idle ELSE [Idle EXCEPT !.tx = "closed"]
    OBVIOUS
  <2>2. sess' = [sess EXCEPT ![s] = e] /\ db' = db
    BY <1>2, <2>1 DEF deadlock
  <2>3. SoundSession(e)
    BY <2>1, IdleSound
  <2>4. QED
    BY <2>2, <2>3, SoundStep
<1>3. CASE statement_end(s)
  <2>1. CASE Committed(s)
    BY <1>3, <2>1, CommittedSound DEF statement_end, Running
  <2>2. CASE ~Committed(s)
    <3>1. sess' = [sess EXCEPT ![s].stmt = NoStmt] /\ db' = db
      BY <1>3, <2>2 DEF statement_end
    <3>2. SessRec(sess[s])
      BY DEF SoundState, SessionsOK, SessOK
    <3>3. PICK st : st = NoStmt
      OBVIOUS
    <3>4. sess' = [sess EXCEPT ![s] = [sess[s] EXCEPT !.stmt = st]]
      BY <3>1, <3>2, <3>3 DEF SoundState, SessionsOK, SessRec
    <3>5. Checked(st)
      BY <3>3, IdleSound
    <3>6. QED
      BY <3>1, <3>4, <3>5, StatementSound
  <2>3. QED
    BY <2>1, <2>2
<1>4. QED
  BY <1>1, <1>2, <1>3, RowDoneSound, CountSound DEF Step

\* Every step keeps the invariant of keys and references.
LEMMA SoundNext ==
    ASSUME IndexInv, SoundInv, [Next]_vars
    PROVE  SoundInv'
<1>1. SUFFICES ASSUME excused' = {} PROVE SoundInv'
  BY DEF SoundInv
<1>2. excused = {}
  BY <1>1, ExcusedGrows
<1>3. SoundState
  BY <1>2 DEF IndexInv, Covered, SoundInv, SoundState
<1>4. CASE UNCHANGED vars
  BY <1>3, <1>4 DEF vars, SoundInv, SoundState
<1>5. ASSUME NEW s \in Sessions, begin(s) PROVE SoundInv'
  <2>1. PICK e : e = Begun(FALSE)
    OBVIOUS
  <2>2. sess' = [sess EXCEPT ![s] = e] /\ db' = db
    BY <1>5, <2>1 DEF begin
  <2>3. ViewOf(e) = db /\ e.stmt = NoStmt
    BY <1>3, <2>1, BegunOK DEF SoundState
  <2>4. SoundSession(e)
    BY <1>3, <2>3, IdleSound DEF SoundSession, SoundState
  <2>5. QED
    BY <1>3, <2>2, <2>4, SoundStep
<1>6. ASSUME NEW s \in Sessions, commit(s) PROVE SoundInv'
  BY <1>3, <1>6, CommittedSound DEF commit
<1>7. ASSUME NEW s \in Sessions, rollback(s) PROVE SoundInv'
  <2>1. sess' = [sess EXCEPT ![s] = Idle] /\ db' = db
    BY <1>7 DEF rollback
  <2>2. QED
    BY <1>3, <2>1, IdleSound, SoundStep
<1>8. QED
  BY <1>1, <1>3, <1>4, <1>5, <1>6, <1>7, StatementsSound, StepsSound DEF Next

\* The first rows have keys of their own and the child its parent.
LEMMA InitSound ==
    ASSUME Init
    PROVE  SoundInv
<1>1. \A t, id : HasRow(db, t, id) <=> (t = "P" /\ id \in {1, 2}) \/ (t = "C" /\ id = 1)
  BY InitKeys
<1>2. PICK v, o \in Values : FirstRows(db, v, o)
  BY InitKeys
<1>3. \A t \in Tables : Unique(db, t)
  BY <1>1, <1>2 DEF FirstRows, Unique, Tables
<1>4. Parented(db)
  BY <1>1, <1>2 DEF FirstRows, Parented, Parent
<1>5. \A s \in Sessions : SoundSession(sess[s])
  BY IdleSound DEF Init
<1>6. QED
  BY <1>3, <1>4, <1>5 DEF SoundInv, Sound

\* The invariant says that the committed maps keep keys and references.
LEMMA SoundConstraints ==
    ASSUME IndexInv, SoundInv
    PROVE  ConstraintsHold
<1>1. SUFFICES ASSUME excused = {} PROVE (\A t \in Tables : UniqueKeys(db, t)) /\ References(db)
  BY DEF ConstraintsHold
<1>2. Sound(db) /\ IsMap(db, next_row_id, indexes) /\ ShapeOK(next_row_id, indexes)
  BY <1>1 DEF SoundInv, IndexInv, Covered, DbOK
<1>3. \A t \in Tables : \A id : id \in Ids(db, t) <=> id \in Nat /\ HasRow(db, t, id)
  BY <1>2, IdsAreRows
<1>4. \A t \in Tables : UniqueKeys(db, t)
  BY <1>2, <1>3 DEF Sound, Unique, UniqueKeys
<1>5. References(db)
  <2>1. "P" \in Tables /\ "C" \in Tables
    BY DEF Tables
  <2>2. QED
    BY <1>2, <1>3, <2>1 DEF Sound, Parented, Parent, References, validate_foreign_keys_for_row
<1>6. QED
  BY <1>4, <1>5

\* Primary keys stay unique and children keep their parents, for any number of
\* connections, values and statements and each action of the foreign key, as
\* long as only statements that check them have run and no transactions that
\* wrote have overlapped. The checks read the unique indexes, so the invariant
\* rests on the one of the indexes.
THEOREM KeysAndReferencesHold == Spec => []ConstraintsHold
<1>1. Init => IndexInv /\ SoundInv
  BY InitOK, InitSound DEF IndexInv
<1>2. IndexInv /\ SoundInv /\ [Next]_vars => IndexInv' /\ SoundInv'
  BY IndexStep, SoundNext
<1>3. IndexInv /\ SoundInv => ConstraintsHold
  BY SoundConstraints
<1>4. QED
  BY <1>1, <1>2, <1>3, PTL DEF Spec

=============================================================================
