------------------------------ MODULE Catalog ------------------------------
(* The SQL catalog: schemas, tables, indexes and views in memory, and their   *)
(* copy in the _catalog map that a reload or a restart reads.                 *)
(*                                                                            *)
(* A table is filed under its full name, and a public one under its short     *)
(* name as well: both copies are entries of the map.  A statement that ends   *)
(* well saves the store; CREATE TABLE and CREATE VIEW look at each other's    *)
(* names first and write later, under another lock.                           *)
EXTENDS Integers, Sequences, FiniteSets

CONSTANTS Names,        \* of tables
          ViewNames,    \* of views, some of them names of tables too
          IndexNames,   \* given to CREATE INDEX
          Sessions

VARIABLES mem,          \* the catalog in memory
          catalogMap,   \* the _catalog map
          saved,        \* the _catalog map as of the last store.commit()
          pending,      \* session -> what its CREATE has checked and not yet written
          live,         \* the tables there are, by the statements that took effect
          liveSaved     \* those of the last store.commit()

catalogVars == <<mem, catalogMap, saved, pending, live, liveSaved>>

Public == "public"
Schemas == {Public, "s"}

\* Keys of the table maps: <<schema, name>> and, for a public table, <<name>>.
TableKeys == {<<s, n>> : s \in Schemas, n \in Names} \union {<<n>> : n \in Names}
Full(t) == <<t.schema, t.name>>
Short(t) == <<t.name>>

None == [schema |-> "none", name |-> "none"]
NoCreate == [what |-> "idle", def |-> None]

AddKey(f, k, x) == [y \in DOMAIN f \union {k} |-> IF y = k THEN x ELSE f[y]]
RemoveKeys(f, ks) == [k \in DOMAIN f \ ks |-> f[k]]

EmptyCatalog == [schemas |-> {Public}, tables |-> <<>>, indexes |-> <<>>, views |-> {}]

CatalogInit ==
    /\ mem = EmptyCatalog /\ catalogMap = EmptyCatalog /\ saved = EmptyCatalog
    /\ pending = [x \in Sessions |-> NoCreate]
    /\ live = {} /\ liveSaved = {}

-----------------------------------------------------------------------------
(* Lookups, in a catalog c.                                                   *)

\* A short name means the public table, and public.t may be filed as t.
get_table(c, key) ==
    CASE key \in DOMAIN c.tables -> c.tables[key]
      [] Len(key) = 1 /\ <<Public, key[1]>> \in DOMAIN c.tables -> c.tables[<<Public, key[1]>>]
      [] Len(key) = 2 /\ key[1] = Public /\ <<key[2]>> \in DOMAIN c.tables -> c.tables[<<key[2]>>]
      [] OTHER -> None

\* An index belongs to every table its table name may mean.
get_table_indexes(c, key) ==
    LET short == <<key[Len(key)]>>
        full == IF Len(key) = 1 THEN <<Public, key[1]>> ELSE key
    IN {i \in DOMAIN c.indexes : c.indexes[i] \in {key, short, full}}

\* Where a table is filed, in memory and on disk alike.
Filed(c, t) ==
    [c EXCEPT !.tables = AddKey(IF t.schema = Public THEN AddKey(@, Short(t), t) ELSE @, Full(t), t)]

\* A plausible slip: only the full name is removed.
Unfiled_full_only(c, t) == [c EXCEPT !.tables = RemoveKeys(@, {Full(t)})]

\* Both names go, the short one whatever the schema.
Unfiled(c, t) == [c EXCEPT !.tables = RemoveKeys(@, {Full(t), Short(t)})]

\* The indexes whose table name is the table's full or short name.
IndexesOf(c, t) == {i \in DOMAIN c.indexes : c.indexes[i] \in {Full(t), Short(t)}}
WithoutIndexes(c, t) == [c EXCEPT !.indexes = RemoveKeys(@, IndexesOf(mem, t))]

Taken(c, t) == Full(t) \in DOMAIN c.tables \/ (t.schema = Public /\ Short(t) \in DOMAIN c.tables)

Commit == saved' = catalogMap' /\ liveSaved' = live'
Same == UNCHANGED pending
SameTables == UNCHANGED <<pending, live>>

-----------------------------------------------------------------------------
(* Statements.  One that fails before it writes changes nothing.              *)

create_schema ==
    /\ "s" \notin mem.schemas
    /\ mem' = [mem EXCEPT !.schemas = @ \union {"s"}]
    /\ catalogMap' = [catalogMap EXCEPT !.schemas = @ \union {"s"}]
    /\ SameTables /\ Commit

\* CREATE TABLE: the schema and the views are checked under their own locks...
create_table_check(x, s, n) ==
    /\ pending[x] = NoCreate
    /\ s \in mem.schemas
    /\ n \notin mem.views
    /\ pending' = [pending EXCEPT ![x] = [what |-> "table", def |-> [schema |-> s, name |-> n]]]
    /\ UNCHANGED <<mem, catalogMap, saved, live, liveSaved>>

\* ... and the table is written, then the index of its primary key, whose name is
\* taken from the short name: a refusal to create it is ignored.
create_table(x) ==
    /\ pending[x].what = "table"
    /\ LET t == pending[x].def
           pk == <<"pk", t.name>>
           indexed(c) == IF pk \in DOMAIN mem.indexes THEN c
                         ELSE [c EXCEPT !.indexes = AddKey(@, pk, Short(t))]
       IN IF Taken(mem, t) THEN UNCHANGED <<mem, catalogMap, saved, live, liveSaved>>
          ELSE /\ mem' = indexed(Filed(mem, t))
               /\ catalogMap' = indexed(Filed(catalogMap, t))
               /\ live' = live \union {t}
               /\ Commit
    /\ pending' = [pending EXCEPT ![x] = NoCreate]

drop_table(key) ==
    /\ get_table(mem, key) # None
    /\ LET t == get_table(mem, key)
       IN /\ mem' = WithoutIndexes(Unfiled(mem, t), t)
          /\ catalogMap' = WithoutIndexes(Unfiled(catalogMap, t), t)
          /\ live' = live \ {t}
    /\ Commit /\ Same

\* DROP SCHEMA: refused for public, and for one with tables unless CASCADE.
drop_schema(cascade) ==
    LET tables == {k \in DOMAIN mem.tables : mem.tables[k].schema = "s"}
        shorts == {Short(mem.tables[k]) : k \in tables}
        rest(c) == [c EXCEPT !.schemas = @ \ {"s"},
                             !.tables = RemoveKeys(@, tables \union shorts),
                             !.indexes = RemoveKeys(@, UNION {IndexesOf(mem, mem.tables[k]) : k \in tables})]
    IN /\ "s" \in mem.schemas
       /\ tables = {} \/ cascade
       /\ mem' = rest(mem) /\ catalogMap' = rest(catalogMap)
       /\ live' = {t \in live : t.schema # "s"}
       /\ Commit /\ Same

\* ALTER TABLE ... RENAME: the old entries are gone before the new name is found
\* taken, and that failure does not bring them back.
rename_table(key, n) ==
    /\ get_table(mem, key) # None
    /\ LET t == get_table(mem, key)
           new == [t EXCEPT !.name = n]
           renamed(c) ==
               [Filed(Unfiled(c, t), new) EXCEPT
                  !.indexes = [i \in DOMAIN @ |->
                      IF i \in IndexesOf(mem, t) THEN (IF t.schema = Public THEN Short(new) ELSE Full(new))
                      ELSE @[i]]]
       IN IF Taken(Unfiled(mem, t), new)
            THEN /\ mem' = Unfiled(mem, t) /\ catalogMap' = Unfiled(catalogMap, t)
                 /\ live' = live \ {t}
                 /\ UNCHANGED <<saved, liveSaved>>
            ELSE /\ mem' = renamed(mem) /\ catalogMap' = renamed(catalogMap)
                 /\ live' = (live \ {t}) \union {new}
                 /\ Commit
    /\ Same

create_index(key, i) ==
    /\ get_table(mem, key) # None
    /\ <<"idx", i>> \notin DOMAIN mem.indexes
    /\ mem' = [mem EXCEPT !.indexes = AddKey(@, <<"idx", i>>, key)]
    /\ catalogMap' = [catalogMap EXCEPT !.indexes = AddKey(@, <<"idx", i>>, key)]
    /\ SameTables /\ Commit

drop_index(i) ==
    /\ i \in DOMAIN mem.indexes
    /\ mem' = [mem EXCEPT !.indexes = RemoveKeys(@, {i})]
    /\ catalogMap' = [catalogMap EXCEPT !.indexes = RemoveKeys(@, {i})]
    /\ SameTables /\ Commit

\* CREATE VIEW looks for a table of that name, lets the tables go, and writes.
create_view_check(x, n) ==
    /\ pending[x] = NoCreate
    /\ <<n>> \notin DOMAIN mem.tables
    /\ pending' = [pending EXCEPT ![x] = [what |-> "view", def |-> [None EXCEPT !.name = n]]]
    /\ UNCHANGED <<mem, catalogMap, saved, live, liveSaved>>

create_view(x) ==
    /\ pending[x].what = "view"
    /\ mem' = [mem EXCEPT !.views = @ \union {pending[x].def.name}]
    /\ catalogMap' = [catalogMap EXCEPT !.views = @ \union {pending[x].def.name}]
    /\ UNCHANGED live
    /\ Commit
    /\ pending' = [pending EXCEPT ![x] = NoCreate]

drop_view(n) ==
    /\ n \in mem.views
    /\ mem' = [mem EXCEPT !.views = @ \ {n}]
    /\ catalogMap' = [catalogMap EXCEPT !.views = @ \ {n}]
    /\ SameTables /\ Commit

\* What a reload (RESTORE) or a start reads from a map.
Loaded(d) == [d EXCEPT !.schemas = @ \union {Public}]

reload_catalog == mem' = Loaded(catalogMap) /\ UNCHANGED <<catalogMap, saved, pending, live, liveSaved>>

RestartCatalog ==
    /\ catalogMap' = saved
    /\ mem' = Loaded(saved)
    /\ pending' = [x \in Sessions |-> NoCreate]
    /\ live' = liveSaved
    /\ UNCHANGED <<saved, liveSaved>>

CatalogNext ==
    \/ create_schema
    \/ \E cascade \in BOOLEAN : drop_schema(cascade)
    \/ \E x \in Sessions : \/ \E s \in Schemas, n \in Names : create_table_check(x, s, n)
                           \/ create_table(x)
                           \/ \E n \in ViewNames : create_view_check(x, n)
                           \/ create_view(x)
    \/ \E key \in TableKeys : \/ drop_table(key)
                         \/ \E n \in Names : rename_table(key, n)
                         \/ \E i \in IndexNames : create_index(key, i)
    \/ \E i \in DOMAIN mem.indexes : drop_index(i)
    \/ \E n \in ViewNames : drop_view(n)
    \/ reload_catalog
    \/ RestartCatalog

CatalogSpec == CatalogInit /\ [][CatalogNext]_catalogVars

-----------------------------------------------------------------------------

\* Whatever was created, renamed, dropped or raced, every spelling of a name finds
\* the table of that name if there is one and nothing otherwise, in memory and
\* after a reload; the indexes of a table, the views and the schemas survive the
\* reload too (get_table over the full and short entries; Catalog::reload).
NamesMeanTheirTables ==
    /\ \A key \in TableKeys :
         LET t == [schema |-> IF Len(key) = 1 THEN Public ELSE key[1], name |-> key[Len(key)]]
         IN /\ \A c \in {mem, Loaded(catalogMap)} : get_table(c, key) = IF t \in live THEN t ELSE None
            /\ get_table_indexes(mem, key) = get_table_indexes(Loaded(catalogMap), key)
    /\ mem.views = catalogMap.views /\ mem.schemas = Loaded(catalogMap).schemas
=============================================================================
