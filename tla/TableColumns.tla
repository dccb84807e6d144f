---------------------------- MODULE TableColumns ----------------------------
(* One table's definition against its stored rows: instant ADD and DROP       *)
(* COLUMN, row ids, and the row count every INSERT and DELETE writes back.    *)
(*                                                                            *)
(* A column keeps the physical position it was given; a row is stored in the  *)
(* logical layout of the moment it is written, and read by align_row through  *)
(* the positions of the moment it is read.  Committed rows are in the WAL; a  *)
(* definition is durable when the store is saved.  Rewriting the row count    *)
(* reads the definition and writes all of it back, under two locks.           *)
EXTENDS Integers, Sequences, FiniteSets, FiniteSetsExt, SequencesExt

CONSTANTS Columns,      \* names
          MaxRowId,
          MaxPhysical,  \* bound on the physical positions given out
          Connections, NullCell

VARIABLES def,          \* the definition in memory: columns, next_row_id
          defSaved,     \* the definition a restart finds
          stored,       \* row id -> the values as written
          values,       \* row id -> column -> the value last given to it
          holding,      \* session -> a definition it has read and will write back, or NoDef
          dropped       \* some column has been dropped

columnVars == <<def, defSaved, stored, values, holding, dropped>>

\* Values are distinguishable by row and column: enough to see one in the wrong place.
ValueOf(id, c) == <<id, c>>

NoDef == [columns |-> <<>>, next_row_id |-> 0]

TableInit ==
    /\ \E c \in Columns : def = [columns |-> <<[name |-> c, physical_index |-> 1]>>, next_row_id |-> 1]
    /\ defSaved = def
    /\ stored = <<>> /\ values = <<>>
    /\ holding = [x \in Connections |-> NoDef]
    /\ dropped = FALSE

ColumnNames(d) == {d.columns[i].name : i \in DOMAIN d.columns}
Rest == UNCHANGED <<holding, dropped>>
Unheld(x) == holding[x] = NoDef

\* Positions here count from 1.
align_row(d, row) ==
    [i \in DOMAIN d.columns |->
        LET p == d.columns[i].physical_index IN IF p <= Len(row) THEN row[p] ELSE NullCell]

next_physical_index(d) ==
    IF d.columns = <<>> THEN 1
    ELSE Max({d.columns[i].physical_index : i \in DOMAIN d.columns}) + 1

-----------------------------------------------------------------------------

\* INSERT: a row id, the row in the logical layout, and (next) the row count,
\* which INSERT ... RETURNING, MERGE and COPY leave alone.
insert_row(x, counted) ==
    /\ Unheld(x)
    /\ def.next_row_id <= MaxRowId
    /\ LET id == def.next_row_id
           d == [def EXCEPT !.next_row_id = @ + 1]
           f(g, v) == [k \in DOMAIN g \union {id} |-> IF k = id THEN v ELSE g[k]]
       IN /\ def' = d
          /\ stored' = f(stored, [i \in DOMAIN def.columns |-> ValueOf(id, def.columns[i].name)])
          /\ values' = f(values, [c \in ColumnNames(def) |-> ValueOf(id, c)])
          /\ holding' = IF counted THEN [holding EXCEPT ![x] = d] ELSE holding
    /\ UNCHANGED <<defSaved, dropped>>

\* UPDATE writes the aligned row back, in the logical layout.
update_row(x, id) ==
    /\ Unheld(x)
    /\ stored' = [stored EXCEPT ![id] = align_row(def, @)]
    /\ UNCHANGED <<def, defSaved, values>> /\ Rest

delete_row(x, id) ==
    /\ Unheld(x)
    /\ stored' = [k \in DOMAIN stored \ {id} |-> stored[k]]
    /\ values' = [k \in DOMAIN values \ {id} |-> values[k]]
    /\ holding' = [holding EXCEPT ![x] = def]
    /\ UNCHANGED <<def, defSaved, dropped>>

\* The second half of update_approx_row_count (and of ANALYZE's statistics).
update_table(x) ==
    /\ ~Unheld(x)
    /\ def' = holding[x]
    /\ holding' = [holding EXCEPT ![x] = NoDef]
    /\ UNCHANGED <<defSaved, stored, values, dropped>>

analyze(x) ==
    /\ Unheld(x)
    /\ holding' = [holding EXCEPT ![x] = def]
    /\ UNCHANGED <<def, defSaved, stored, values, dropped>>

truncate(x) ==
    /\ Unheld(x)
    /\ stored' = <<>> /\ values' = <<>>
    /\ def' = [def EXCEPT !.next_row_id = 1]
    /\ defSaved' = def'
    /\ Rest

add_column(x, c) ==
    /\ Unheld(x)
    /\ c \notin ColumnNames(def)
    /\ next_physical_index(def) <= MaxPhysical
    /\ def' = [def EXCEPT !.columns = Append(@, [name |-> c, physical_index |-> next_physical_index(def)])]
    /\ defSaved' = def'
    /\ values' = [id \in DOMAIN values |-> [k \in ColumnNames(def) \union {c} |->
                    IF k = c THEN NullCell ELSE values[id][k]]]
    /\ UNCHANGED stored /\ Rest

drop_column(x, c) ==
    /\ Unheld(x)
    /\ c \in ColumnNames(def)
    /\ def' = [def EXCEPT !.columns = SelectSeq(@, LAMBDA col : col.name # c)]
    /\ defSaved' = def'
    /\ values' = [id \in DOMAIN values |-> [k \in ColumnNames(def) \ {c} |-> values[id][k]]]
    /\ dropped' = TRUE
    /\ UNCHANGED <<stored, holding>>

SaveTable == defSaved # def /\ defSaved' = def /\ UNCHANGED <<def, stored, values>> /\ Rest

\* A plausible slip: > for >=, so the greatest id in use is handed out again.
Corrected_strict(d) ==
    [d EXCEPT !.next_row_id = Max({@} \union {id + 1 : id \in {k \in DOMAIN stored : k > d.next_row_id}})]

\* Catalog::new and reload raise next_row_id above the ids in the table's map.
Corrected(d) ==
    [d EXCEPT !.next_row_id = Max({@} \union {id + 1 : id \in {k \in DOMAIN stored : k >= d.next_row_id}})]

reload_table(x) == Unheld(x) /\ def' = Corrected(def) /\ UNCHANGED <<defSaved, stored, values>> /\ Rest

RestartTable ==
    /\ def' = Corrected(defSaved)
    /\ holding' = [x \in Connections |-> NoDef]
    /\ UNCHANGED <<defSaved, stored, values, dropped>>

TableNext ==
    \/ \E x \in Connections :
          \/ \E counted \in BOOLEAN : insert_row(x, counted)
          \/ \E id \in DOMAIN stored : update_row(x, id) \/ delete_row(x, id)
          \/ update_table(x)
          \/ analyze(x)
          \/ truncate(x)
          \/ \E c \in Columns : add_column(x, c) \/ drop_column(x, c)
          \/ reload_table(x)
    \/ SaveTable
    \/ RestartTable

TableSpec == TableInit /\ [][TableNext]_columnVars

-----------------------------------------------------------------------------

\* The next INSERT's row id is no stored row's: the put under it never overwrites
\* a row, through crashes that lose the counter and keep the rows (allocate_row_id,
\* the correction of next_row_id in Catalog::new).
RowIdsAreFresh == \A id \in DOMAIN stored : id < def.next_row_id

\* Reading a row gives every column the value last written to it, NULL where the
\* column came later (align_row's promise for instant ADD and DROP COLUMN).
ColumnsKeepTheirValues ==
    \A id \in DOMAIN stored : \A i \in DOMAIN def.columns :
        align_row(def, stored[id])[i] = values[id][def.columns[i].name]

\* The same for a table that never lost a column.
AddedColumnsKeepTheirValues == dropped \/ ColumnsKeepTheirValues

\* No row id is handed out while a row has it, after restarts too, and an added column
\* keeps its values (Catalog::next_row_id, execute_alter_table, align_row).
TableKeepsItsRows == RowIdsAreFresh /\ AddedColumnsKeepTheirValues
=============================================================================
