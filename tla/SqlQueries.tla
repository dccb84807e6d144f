----------------------------- MODULE SqlQueries -----------------------------
(* How SQLEngine answers a SELECT: the access path it picks, then joins,      *)
(* WHERE, aggregates or projection, ORDER BY with spills, DISTINCT and        *)
(* LIMIT/OFFSET; set operations and recursive common table expressions.       *)
(*                                                                            *)
(* A row is a sequence of integers.  Table t has columns 1 and 2 and an index *)
(* on column 1; table u is the right side of joins and set operations.  The   *)
(* index is the ordered sequence of its keys <<value, row id>>: that the byte *)
(* encoding keeps this order is the subject of KeyEncoding.                   *)
EXTENDS Integers, Sequences, FiniteSets, SequencesExt

CONSTANTS
    Families,       \* records [qs, ts, us]: queries, and rows for their two tables
    WorkMem,        \* rows an ExternalSorter holds before it spills a run
    MaxMaterialized,\* max_materialized_rows; 0 is no limit
    MaxIterations,  \* iterations a recursive CTE may take (1000 in the code)
    IntMax          \* the largest value of an Integer column (i32::MAX)

\* NULL, which PartialOrd places below every value and == finds equal to itself.
NullValue == -1000

VARIABLES
    input,          \* the query and its tables
    stage,          \* the step of execute_query_with_ctes that comes next
    rows,           \* the rows, or groups, the steps so far have produced
    sorter,         \* ExternalSorter: its buffer and the runs spilled
    cte             \* a recursive CTE: the working rows and the iterations so far

vars == <<input, stage, rows, sorter, cte>>

q == input.q
NoSorter == [buffer |-> <<>>, runs |-> <<>>]
NoCte == [working |-> <<>>, iteration |-> 0]

\* The values of a unique index's column are distinct.
Distinct1(t) == \A i, j \in DOMAIN t : t[i][1] = t[j][1] => i = j

Init == /\ \E f \in Families : \E query \in f.qs, t \in f.ts, u \in f.us :
             /\ query.unique => Distinct1(t)
             /\ input = [q |-> query, t |-> t, u |-> u]
        /\ stage = "from"
        /\ rows = <<>>
        /\ sorter = NoSorter
        /\ cte = NoCte

-----------------------------------------------------------------------------
(* Predicates and the bounds an index scan takes from them.                   *)

Compare(op, x, y) ==
    CASE op = "eq" -> x = y
      [] op = "ne" -> x # y
      [] op = "lt" -> x < y
      [] op = "le" -> x <= y
      [] op = "gt" -> x > y
      [] op = "ge" -> x >= y

\* p.flip: the literal is written on the left of the operator.
RECURSIVE evaluate_expr_context(_, _)
evaluate_expr_context(p, row) ==
    CASE p.kind = "none"    -> TRUE
      [] p.kind = "cmp"     -> IF p.flip THEN Compare(p.op, p.v, row[p.col])
                                         ELSE Compare(p.op, row[p.col], p.v)
      [] p.kind = "between" -> row[p.col] >= p.lo /\ row[p.col] <= p.hi
      [] p.kind = "and"     -> evaluate_expr_context(p.l, row) /\ evaluate_expr_context(p.r, row)
      [] p.kind = "or"      -> evaluate_expr_context(p.l, row) \/ evaluate_expr_context(p.r, row)

Unbounded == [kind |-> "unbounded", v |-> 0]
Included(v) == [kind |-> "included", v |-> v]
Excluded(v) == [kind |-> "excluded", v |-> v]
NoBounds == << >>

\* The tighter of two bounds; Beyond(x, y) says x is further in than y.
Tighter(b, c, Beyond(_, _)) ==
    CASE b.kind = "unbounded" -> c
      [] c.kind = "unbounded" -> b
      [] b.kind = c.kind      -> IF Beyond(b.v, c.v) \/ b.v = c.v THEN b ELSE c
      [] b.kind = "included" /\ c.kind = "excluded" -> IF Beyond(b.v, c.v) THEN b ELSE c
      [] b.kind = "excluded" /\ c.kind = "included" ->
            IF Beyond(b.v, c.v) \/ b.v = c.v THEN b ELSE c

\* The literal's side decides which way a comparison bounds the column.
Bounds(op, v, flip) ==
    CASE op = IF flip THEN "lt" ELSE "gt" -> <<Excluded(v), Unbounded>>
      [] op = IF flip THEN "le" ELSE "ge" -> <<Included(v), Unbounded>>
      [] op = IF flip THEN "gt" ELSE "lt" -> <<Unbounded, Excluded(v)>>
      [] op = IF flip THEN "ge" ELSE "le" -> <<Unbounded, Included(v)>>
      [] OTHER                            -> NoBounds

RECURSIVE extract_range_predicate(_, _)
extract_range_predicate(p, col) ==
    CASE p.kind = "between" /\ p.col = col -> <<Included(p.lo), Included(p.hi)>>
      [] p.kind = "cmp" /\ p.col = col     -> Bounds(p.op, p.v, p.flip)
      [] p.kind = "and" ->
            LET l == extract_range_predicate(p.l, col)
                r == extract_range_predicate(p.r, col)
            IN CASE l = NoBounds -> r
                 [] r = NoBounds -> l
                 [] OTHER -> <<Tighter(l[1], r[1], LAMBDA x, y : x > y),
                               Tighter(l[2], r[2], LAMBDA x, y : x < y)>>
      [] OTHER -> NoBounds

extract_equality_predicate(p, col) == p.kind = "cmp" /\ p.op = "eq" /\ p.col = col

\* A filter exists for any operator between the column and a literal on its right.
build_index_filter(p, col) ==
    \/ p.kind = "cmp" /\ p.col = col /\ ~p.flip
    \/ p.kind = "between" /\ p.col = col

\* ... but knows only five of the operators; the others let nothing through.
IndexFilter(p, v) ==
    IF p.kind = "between" THEN v >= p.lo /\ v <= p.hi
    ELSE p.op # "ne" /\ Compare(p.op, v, p.v)

-----------------------------------------------------------------------------
(* The index of t on column 1 and the scans of it.                            *)

IndexKeyLess(k, l) == k[1] < l[1] \/ (k[1] = l[1] /\ k[2] < l[2])
IndexKeys(t) == SetToSortSeq({<<t[i][1], i>> : i \in DOMAIN t}, IndexKeyLess)

\* Byte bounds: a prefix sorts before every key of its value, key_max after.
convert_value_bounds_to_bytes(b) ==
    << CASE b[1].kind = "unbounded" -> <<NullValue - 1, 0>>
         [] b[1].kind = "included"  -> <<b[1].v, 0>>
         [] OTHER                   -> <<b[1].v + 1, 0>>,
       CASE b[2].kind = "unbounded" -> <<IntMax + 1, 0>>
         [] b[2].kind = "included"  -> <<b[2].v + 1, 0>>
         [] OTHER                   -> <<b[2].v, 0>> >>

Fetch(t, keys) == [i \in DOMAIN keys |-> t[keys[i][2]]]

scan_range(t, b) ==
    LET r == convert_value_bounds_to_bytes(b)
    IN Fetch(t, SelectSeq(IndexKeys(t), LAMBDA k : ~IndexKeyLess(k, r[1]) /\ IndexKeyLess(k, r[2])))

scan_prefix(t, v) == Fetch(t, SelectSeq(IndexKeys(t), LAMBDA k : k[1] = v))

index_filter_scan(t, p) == Fetch(t, SelectSeq(IndexKeys(t), LAMBDA k : IndexFilter(p, k[1])))

-----------------------------------------------------------------------------
(* Aggregates: the accumulators pushed down into the scan, the two fast paths *)
(* over filtered rows, and evaluate_aggregate_expr.  AVG is in hundredths.    *)

\* i32 wrapping addition.
WrapSum(n) == ((n + IntMax + 1) % (2 * (IntMax + 1))) - (IntMax + 1)

\* A plausible slip: NULLs are values like the others.
Column_with_nulls(rs, c) == [i \in DOMAIN rs |-> rs[i][c]]

\* The values of a column that is not NULL, and their plain total.
Column(rs, c) == SelectSeq([i \in DOMAIN rs |-> rs[i][c]], LAMBDA v : v # NullValue)
Total(vs) == FoldLeft(LAMBDA acc, v : acc + v, 0, vs)
WrappedTotal(vs) == FoldLeft(LAMBDA acc, v : WrapSum(acc + v), 0, vs)
Least(vs) == FoldLeft(LAMBDA acc, v : IF v < acc THEN v ELSE acc, Head(vs), vs)
Greatest(vs) == FoldLeft(LAMBDA acc, v : IF v > acc THEN v ELSE acc, Head(vs), vs)

\* What every path computes, given how it adds up.
Aggregate(agg, rs, Sum(_)) ==
    LET vs == Column(rs, agg.col)
    IN CASE agg.op = "countstar" -> Len(rs)
         [] agg.op = "count"     -> Len(vs)
         [] vs = <<>>            -> NullValue
         [] agg.op = "sum"       -> Sum(vs)
         [] agg.op = "avg"       -> (100 * Total(vs)) \div Len(vs)
         [] agg.op = "min"       -> Least(vs)
         [] agg.op = "max"       -> Greatest(vs)

\* f64 accumulators over the stored rows (exact for the integers of a column).
build_pushdown_aggregate_result(agg, rs) == Aggregate(agg, rs, Total)

\* i64 accumulators over the filtered rows.
execute_fast_row_aggregate(agg, rs) == Aggregate(agg, rs, Total)

\* arrow's sum of an Int32Array wraps.
execute_aggregate(agg, rs) == Aggregate(agg, rs, WrappedTotal)

\* add_values wraps as well.
evaluate_aggregate_expr(agg, rs) == Aggregate(agg, rs, WrappedTotal)

\* A bare aggregate of a column; one inside an expression is not recognised.
parse_aggregate_ops(query) == query.proj = "agg" /\ ~query.agg.nested

\* Groups in the order their first rows come.
GroupBy(rs, c) ==
    LET keys == FoldLeft(LAMBDA acc, r : IF Contains(acc, r[c]) THEN acc ELSE Append(acc, r[c]),
                         <<>>, rs)
    IN [i \in DOMAIN keys |-> [key |-> keys[i], rows |-> SelectSeq(rs, LAMBDA r : r[c] = keys[i])]]

Grouped(query, rs) ==
    LET groups == IF query.group = 0 THEN << [key |-> NullValue, rows |-> rs] >>
                                     ELSE GroupBy(rs, query.group)
        kept == SelectSeq(groups, LAMBDA g : Len(g.rows) >= query.having)
    IN [i \in DOMAIN kept |->
            LET v == evaluate_aggregate_expr(query.agg, kept[i].rows)
            IN IF query.group = 0 THEN <<v>> ELSE <<kept[i].key, v>>]

-----------------------------------------------------------------------------
(* Joins, window functions, set operations.                                   *)

is_join_match(constraint, l, r) ==
    CASE constraint = "on"    -> l[1] = r[1]
      [] constraint = "using" -> l[1] # NullValue /\ r[1] # NullValue /\ l[1] = r[1]
      [] constraint = "none"  -> TRUE

NullRow == <<NullValue, NullValue>>

apply_join(left, right, join, constraint) ==
    LET match(l, r) == join = "cross" \/ is_join_match(constraint, l, r)
        joined(l) ==
            LET found == SelectSeq(right, LAMBDA r : match(l, r))
            IN IF found = <<>> /\ join \in {"left", "full"} THEN << l \o NullRow >>
               ELSE [i \in DOMAIN found |-> l \o found[i]]
        unmatched == SelectSeq(right, LAMBDA r : ~ \E i \in DOMAIN left : match(left[i], r))
    IN FlattenSeq([i \in DOMAIN left |-> joined(left[i])])
       \o IF join \in {"right", "full"}
            THEN [i \in DOMAIN unmatched |-> NullRow \o unmatched[i]] ELSE <<>>

\* Indices of rs in a stable order by column c, descending if desc.
Before(x, y, desc) == IF desc THEN x > y ELSE x < y
StableOrder(rs, c, desc, S) ==
    SetToSortSeq(S, LAMBDA i, j : \/ Before(rs[i][c], rs[j][c], desc)
                                  \/ rs[i][c] = rs[j][c] /\ i < j)

Bucket(pos, n, k) ==
    LET base == n \div k
        rest == n % k
    IN CASE base = 0                 -> pos + 1
         [] pos < rest * (base + 1)  -> (pos \div (base + 1)) + 1
         [] OTHER                    -> rest + ((pos - rest * (base + 1)) \div base) + 1

\* A value of another row of the partition, NULL where there is none.
Neighbour(fn, vals, pos) ==
    LET target == CASE fn = "lead"        -> pos + 1
                    [] fn = "lag"         -> pos - 1
                    [] fn = "first_value" -> 1
                    [] fn = "last_value"  -> Len(vals)
    IN IF target \in DOMAIN vals THEN vals[target] ELSE NullValue

\* fn over (partition by column 1 order by column 2), for every row.
compute_window_functions(fn, rs) ==
    [i \in DOMAIN rs |->
        LET part == StableOrder(rs, 2, FALSE, {j \in DOMAIN rs : rs[j][1] = rs[i][1]})
            pos == CHOOSE k \in DOMAIN part : part[k] = i
            val(k) == rs[part[k]][2]
        IN CASE fn = "row_number"  -> pos
             [] fn = "rank"        -> CHOOSE k \in 1 .. pos :
                                        /\ \A m \in k .. pos : val(m) = val(pos)
                                        /\ k = 1 \/ val(k - 1) # val(pos)
             [] fn = "dense_rank"  -> Cardinality({val(m) : m \in 1 .. pos})
             [] fn = "ntile"       -> Bucket(pos - 1, Len(part), 2)
             [] OTHER              -> Neighbour(fn, [k \in DOMAIN part |-> val(k)], pos)]

Unique(rs) == FoldLeft(LAMBDA acc, r : IF Contains(acc, r) THEN acc ELSE Append(acc, r), <<>>, rs)

\* INTERSECT ALL and EXCEPT ALL use up one row of the right side per match.
Consume(l, r) ==
    FoldLeft(LAMBDA acc, x : IF Contains(acc.left, x)
                               THEN [acc EXCEPT !.left = RemoveFirst(@, x), !.both = Append(@, x)]
                               ELSE [acc EXCEPT !.only = Append(@, x)],
             [left |-> r, both |-> <<>>, only |-> <<>>], l)

set_operation(op, all, l, r) ==
    CASE op = "union"     -> IF all THEN l \o r ELSE Unique(l \o r)
      [] op = "intersect" -> IF all THEN Consume(l, r).both
                             ELSE SelectSeq(Unique(l), LAMBDA x : Contains(r, x))
      [] op = "except"    -> IF all THEN Consume(l, r).only
                             ELSE SelectSeq(Unique(l), LAMBDA x : ~Contains(r, x))

-----------------------------------------------------------------------------
(* The access path: the first that applies, in the order the code tries them. *)

Simple == q.join = "none" /\ q.group = 0 /\ q.having = 0
PointLookup == q.join = "none" /\ extract_equality_predicate(q.where, 1)
RangeScan == q.join = "none" /\ ~PointLookup /\ extract_range_predicate(q.where, 1) # NoBounds

Scanned(rs, next) ==
    /\ rows' = rs
    /\ stage' = next
    /\ UNCHANGED <<input, sorter, cte>>

full_scan_aggregate ==
    /\ stage = "from" /\ q.body = "select"
    /\ Simple /\ parse_aggregate_ops(q) /\ q.where.kind = "none"
    /\ Scanned(<< <<build_pushdown_aggregate_result(q.agg, input.t)>> >>, "done")

\* The unique index's fast path answers at once; OFFSET and DISTINCT are not looked at.
PointSelect == q.unique /\ ~q.proj \in {"agg", "window"} /\ q.group = 0
                /\ q.order = "none" /\ q.limit = -1

Projected(query, rs) ==
    IF query.proj = "star" THEN rs ELSE [i \in DOMAIN rs |-> <<rs[i][2]>>]

point_select ==
    /\ stage = "from" /\ q.body = "select" /\ PointLookup /\ PointSelect
    /\ Scanned(Projected(q, scan_prefix(input.t, q.where.v)), "done")

point_lookup ==
    /\ stage = "from" /\ q.body = "select" /\ PointLookup /\ ~PointSelect
    /\ Scanned(scan_prefix(input.t, q.where.v), "where")

\* The aggregate is taken over the range; the rest of WHERE is not evaluated.
range_aggregate ==
    /\ stage = "from" /\ q.body = "select" /\ RangeScan
    /\ Simple /\ parse_aggregate_ops(q)
    /\ LET rs == scan_range(input.t, extract_range_predicate(q.where, 1))
       IN Scanned(<< <<build_pushdown_aggregate_result(q.agg, rs)>> >>, "done")

range_scan ==
    /\ stage = "from" /\ q.body = "select" /\ RangeScan
    /\ ~(Simple /\ parse_aggregate_ops(q))
    /\ Scanned(scan_range(input.t, extract_range_predicate(q.where, 1)), "where")

filter_scan ==
    /\ stage = "from" /\ q.body = "select" /\ q.join = "none"
    /\ ~PointLookup /\ ~RangeScan /\ build_index_filter(q.where, 1)
    /\ Scanned(index_filter_scan(input.t, q.where), "where")

table_scan ==
    /\ stage = "from" /\ q.body = "select"
    /\ ~PointLookup /\ ~RangeScan
    /\ ~(q.join = "none" /\ build_index_filter(q.where, 1))
    /\ ~(Simple /\ parse_aggregate_ops(q) /\ q.where.kind = "none")
    /\ Scanned(input.t, IF q.join = "none" THEN "where" ELSE "join")

join ==
    /\ stage = "join"
    /\ Scanned(apply_join(rows, input.u, q.join, q.constraint), "where")

where ==
    /\ stage = "where"
    /\ Scanned(SelectSeq(rows, LAMBDA r : evaluate_expr_context(q.where, r)), "project")

-----------------------------------------------------------------------------
(* Aggregates or projection, then ORDER BY.                                   *)

IsAggregate == q.proj = "agg" \/ q.group # 0 \/ q.having # 0

aggregate ==
    /\ stage = "project" /\ IsAggregate
    /\ Scanned(IF Simple /\ parse_aggregate_ops(q)
                 THEN << <<IF q.vectorized THEN execute_aggregate(q.agg, rows)
                                           ELSE execute_fast_row_aggregate(q.agg, rows)>> >>
                 ELSE Grouped(q, rows), "order")

\* A window's values are appended to the row; other projections wait for the sort.
project ==
    /\ stage = "project" /\ ~IsAggregate
    /\ LET w == compute_window_functions(q.window, rows)
       IN Scanned(IF q.proj = "window" THEN [i \in DOMAIN rows |-> Append(rows[i], w[i])]
                                       ELSE rows, "order")

\* ORDER BY names column 2 of the table, or the key of a group.
OrderColumn == IF IsAggregate THEN 1 ELSE 2
SortedBuffer(b) ==
    LET o == StableOrder(b, OrderColumn, q.order = "desc", DOMAIN b)
    IN [i \in DOMAIN b |-> b[o[i]]]

\* The buffer, sorted, becomes a temporary file.
Spilled(s) == [buffer |-> <<>>, runs |-> Append(s.runs, SortedBuffer(s.buffer))]

unsorted ==
    /\ stage = "order" /\ q.order = "none"
    /\ Scanned(rows, "output")

\* ExternalSorter::add_row, and the run it spills when the buffer is full.
add_row ==
    /\ stage = "order" /\ q.order # "none" /\ rows # <<>>
    /\ LET s == [sorter EXCEPT !.buffer = Append(@, Head(rows))]
       IN sorter' = IF Len(s.buffer) >= WorkMem THEN Spilled(s) ELSE s
    /\ rows' = Tail(rows)
    /\ UNCHANGED <<input, stage, cte>>

\* finish: in memory if nothing was spilled, else the rest becomes a last run.
finish ==
    /\ stage = "order" /\ q.order # "none" /\ rows = <<>>
    /\ \/ /\ sorter.runs = <<>>
          /\ rows' = SortedBuffer(sorter.buffer)
          /\ sorter' = NoSorter
          /\ stage' = "output"
       \/ /\ sorter.runs # <<>>
          /\ sorter' = IF sorter.buffer = <<>> THEN sorter ELSE Spilled(sorter)
          /\ stage' = "merge"
          /\ UNCHANGED rows
    /\ UNCHANGED <<input, cte>>

\* The heap yields a run whose head no other head comes before.
IsSmallest(i) ==
    /\ sorter.runs[i] # <<>>
    /\ \A j \in DOMAIN sorter.runs :
         sorter.runs[j] # <<>> => ~Before(Head(sorter.runs[j])[OrderColumn],
                                          Head(sorter.runs[i])[OrderColumn], q.order = "desc")

merge ==
    /\ stage = "merge"
    /\ \/ /\ \A i \in DOMAIN sorter.runs : sorter.runs[i] = <<>>
          /\ sorter' = NoSorter
          /\ stage' = "output"
          /\ UNCHANGED rows
       \/ \E i \in DOMAIN sorter.runs :
            /\ IsSmallest(i)
            /\ rows' = Append(rows, Head(sorter.runs[i]))
            /\ sorter' = [sorter EXCEPT !.runs[i] = Tail(@)]
            /\ UNCHANGED stage
    /\ UNCHANGED <<input, cte>>

-----------------------------------------------------------------------------
(* DISTINCT, LIMIT and OFFSET, the materialisation limit.                     *)

\* A plausible slip: LIMIT applied before OFFSET.
Slice_limit_first(rs, offset, limit) ==
    SubSeq(rs, offset + 1, IF limit = -1 \/ limit > Len(rs) THEN Len(rs) ELSE limit)

Slice(rs, offset, limit) ==
    SubSeq(rs, offset + 1, IF limit = -1 \/ offset + limit > Len(rs) THEN Len(rs) ELSE offset + limit)

Shown(r) == CASE q.proj = "window" -> <<r[Len(r)]>>
              [] q.proj = "col"    -> <<r[2]>>
              [] OTHER             -> r

Output(rs) ==
    LET shown == IF IsAggregate \/ q.body # "select" THEN rs ELSE [i \in DOMAIN rs |-> Shown(rs[i])]
        dist == IF q.distinct THEN Unique(shown) ELSE shown
    IN Slice(dist, q.offset, q.limit)

output ==
    /\ stage = "output"
    /\ LET out == Output(rows)
       IN Scanned(out, IF MaxMaterialized > 0 /\ Len(out) > MaxMaterialized /\ q.body = "select"
                         THEN "error" ELSE "done")

-----------------------------------------------------------------------------
(* Set operations of SELECTs on t and u, and WITH RECURSIVE: the anchor is    *)
(* SELECT 1 FROM t, the recursive member SELECT u.2 FROM cte JOIN u ON cte.1 = u.1. *)

FirstColumn(rs) == [i \in DOMAIN rs |-> <<rs[i][1]>>]

combine ==
    /\ stage = "from" /\ q.body \in {"union", "intersect", "except"}
    /\ LET l == set_operation(q.body, q.all, FirstColumn(input.t), FirstColumn(input.u))
           o == StableOrder(l, 1, q.order = "desc", DOMAIN l)
       IN Scanned(IF q.order = "none" THEN l ELSE [i \in DOMAIN l |-> l[o[i]]], "output")

anchor ==
    /\ stage = "from" /\ q.body = "recursive"
    /\ rows' = FirstColumn(input.t)
    /\ cte' = [working |-> FirstColumn(input.t), iteration |-> 0]
    /\ stage' = "recurse"
    /\ UNCHANGED <<input, sorter>>

Members(working) ==
    LET found == apply_join(working, input.u, "inner", "on")
    IN [i \in DOMAIN found |-> <<found[i][3]>>]

\* A plausible slip: new rows are compared with the working rows only.
Fresh_against_working(next) ==
    IF q.all THEN next ELSE Unique(SelectSeq(next, LAMBDA r : ~Contains(cte.working, r)))

\* UNION drops what the result holds already; UNION ALL keeps everything.
Fresh(next) == IF q.all THEN next ELSE Unique(SelectSeq(next, LAMBDA r : ~Contains(rows, r)))

iterate ==
    /\ stage = "recurse"
    /\ cte.working # <<>> /\ cte.iteration < MaxIterations
    /\ LET new == Fresh(Members(cte.working))
       IN /\ rows' = rows \o new
          /\ cte' = [working |-> new, iteration |-> cte.iteration + 1]
    /\ UNCHANGED <<input, stage, sorter>>

\* A plausible slip: the loop is left only when nothing new was found.
recursed_when_empty ==
    /\ stage = "recurse" /\ cte.working = <<>>
    /\ stage' = "done"
    /\ UNCHANGED <<input, rows, sorter, cte>>

recursed ==
    /\ stage = "recurse"
    /\ cte.working = <<>> \/ cte.iteration = MaxIterations
    /\ stage' = "done"
    /\ UNCHANGED <<input, rows, sorter, cte>>

Next == \/ full_scan_aggregate \/ point_select \/ point_lookup
        \/ range_aggregate \/ range_scan \/ filter_scan \/ table_scan
        \/ join \/ where \/ aggregate \/ project
        \/ unsorted \/ add_row \/ finish \/ merge \/ output
        \/ combine \/ anchor \/ iterate \/ recursed

\* One thread runs a query to its end.
Spec == Init /\ [][Next]_vars /\ WF_vars(Next)

-----------------------------------------------------------------------------
(* What a query means, written without indexes, folds or order of evaluation. *)

Count(s, x) == Cardinality({i \in DOMAIN s : s[i] = x})
SameBag(s, r) == Len(s) = Len(r) /\ \A i \in DOMAIN s : Count(s, s[i]) = Count(r, s[i])

Pairs(t, u) ==
    LET m(i, j) == \/ q.join = "cross"
                   \/ t[i][1] = u[j][1] /\ (q.constraint = "using" => t[i][1] # NullValue)
        both == {<<i, j>> \in (DOMAIN t) \X (DOMAIN u) : m(i, j)}
        l == {<<i, 0>> : i \in {k \in DOMAIN t : \A j \in DOMAIN u : ~m(k, j)}}
        r == {<<0, j>> : j \in {k \in DOMAIN u : \A i \in DOMAIN t : ~m(i, k)}}
    IN both \union (IF q.join \in {"left", "full"} THEN l ELSE {})
            \union (IF q.join \in {"right", "full"} THEN r ELSE {})

JoinedRow(p) == (IF p[1] = 0 THEN NullRow ELSE input.t[p[1]])
                \o (IF p[2] = 0 THEN NullRow ELSE input.u[p[2]])

Source == IF q.join = "none" THEN input.t
          ELSE LET ps == SetToSeq(Pairs(input.t, input.u))
               IN [i \in DOMAIN ps |-> JoinedRow(ps[i])]

Matching == SelectSeq(Source, LAMBDA r : evaluate_expr_context(q.where, r))

\* Rows the answer could be a page of: one per matching row, or per distinct value.
Candidates ==
    LET shown == [i \in DOMAIN Matching |-> Shown(Matching[i])]
    IN IF q.distinct THEN SetToSeq(ToSet(shown)) ELSE shown

PageLength(n) ==
    LET rest == IF q.offset > n THEN 0 ELSE n - q.offset
    IN IF q.limit = -1 \/ q.limit > rest THEN rest ELSE q.limit

\* `a <> v` with a the indexed column on the left: IndexFilter lets nothing through.
LosesNotEqual == q.join = "none" /\ q.where.kind = "cmp" /\ q.where.col = 1
                  /\ q.where.op = "ne" /\ ~q.where.flip
\* OFFSET (and DISTINCT) on the unique index's fast path.
LosesOffset == PointLookup /\ PointSelect /\ (q.offset > 0 \/ q.distinct)
\* A conjunct that bounds nothing is dropped when the aggregate is pushed into the range.
RECURSIVE HasResidual(_)
HasResidual(p) == p.kind = "and" /\ \/ extract_range_predicate(p.l, 1) = NoBounds
                                    \/ extract_range_predicate(p.r, 1) = NoBounds
                                    \/ HasResidual(p.l) \/ HasResidual(p.r)
LosesConjunct == RangeScan /\ Simple /\ parse_aggregate_ops(q) /\ HasResidual(q.where)

Answered == stage = "done"

\* Whatever access path, join algorithm and sort ran, the rows of a SELECT are
\* a page of the rows its FROM and WHERE mean: every value at most as often as
\* it occurs there, as many rows as OFFSET and LIMIT leave, all of them when the
\* page is the whole, and in order when ORDER BY names what is shown
\* (execute_query_with_ctes; three shapes of query the code gets wrong are left out).
SelectsAnswerTheirMeaning ==
    (Answered /\ q.body = "select" /\ ~IsAggregate /\ q.proj # "window"
        /\ ~LosesNotEqual /\ ~LosesOffset)
    => LET c == Candidates
       IN /\ Len(rows) = PageLength(Len(c))
          /\ \A i \in DOMAIN rows : Count(rows, rows[i]) <= Count(c, rows[i])
          /\ (q.order # "none" /\ q.proj = "col") =>
               \A i, j \in DOMAIN rows :
                  i < j => ~Before(rows[j][1], rows[i][1], q.order = "desc")

\* Every way of computing an aggregate (pushed into a full scan or an index
\* range, over filtered rows one by one or in Arrow batches, or per group) gives
\* what the rows WHERE selects mean, as long as an INTEGER sum does not overflow.
AggregatesAnswerTheirMeaning ==
    (Answered /\ IsAggregate /\ ~q.distinct /\ q.limit = -1 /\ q.offset = 0
        /\ ~LosesNotEqual /\ ~LosesConjunct /\ Total(Column(Matching, q.agg.col)) <= IntMax)
    => LET meaning(rs) ==
             LET vs == Column(rs, q.agg.col)
                 S == ToSet(vs)
             IN CASE q.agg.op = "countstar" -> Len(rs)
                  [] q.agg.op = "count" -> Cardinality({i \in DOMAIN rs : rs[i][q.agg.col] # NullValue})
                  [] S = {} -> NullValue
                  [] q.agg.op = "sum" -> Total(vs)
                  [] q.agg.op = "avg" -> (100 * Total(vs)) \div Len(vs)
                  [] q.agg.op = "min" -> CHOOSE x \in S : \A y \in S : x <= y
                  [] q.agg.op = "max" -> CHOOSE x \in S : \A y \in S : x >= y
           keys == {r[q.group] : r \in ToSet(Matching)}
           group(k) == SelectSeq(Matching, LAMBDA r : r[q.group] = k)
       IN IF q.group = 0
            THEN rows = IF q.having > Len(Matching) THEN <<>> ELSE << <<meaning(Matching)>> >>
            ELSE SameBag(rows, SetToSeq({<<k, meaning(group(k))>> :
                                   k \in {x \in keys : Len(group(x)) >= q.having}}))

\* Set operations keep the multiplicities SQL gives them, windows number every
\* partition, and WITH RECURSIVE ... UNION collects exactly what can be reached
\* from the anchor, each value once (the working set, the dedup and the bound on
\* iterations of execute_query_with_ctes; compute_window_functions).
SetsWindowsAndRecursion ==
    LET l == FirstColumn(input.t)
        r == FirstColumn(input.u)
        times(x) ==
            LET a == Count(l, x)
                b == Count(r, x)
            IN CASE q.body = "union"     -> IF q.all THEN a + b ELSE 1
                 [] q.body = "intersect" -> IF q.all THEN (IF a < b THEN a ELSE b)
                                            ELSE IF a > 0 /\ b > 0 THEN 1 ELSE 0
                 [] q.body = "except"    -> IF q.all THEN (IF a > b THEN a - b ELSE 0)
                                            ELSE IF a > 0 /\ b = 0 THEN 1 ELSE 0
        edges == {<<e[1], e[2]>> : e \in ToSet(input.u)}
        RECURSIVE closure(_)
        closure(S) == LET T == S \union {e[2] : e \in {f \in edges : f[1] \in S}}
                      IN IF T = S THEN S ELSE closure(T)
    IN /\ (Answered /\ q.body \in {"union", "intersect", "except"} /\ q.limit = -1 /\ q.offset = 0)
            => \A x \in ToSet(l) \union ToSet(r) : Count(rows, x) = times(x)
       /\ (Answered /\ q.body = "recursive" /\ ~q.all /\ cte.iteration < MaxIterations)
            => /\ \A v \in closure({x[1] : x \in ToSet(l)}) : Contains(rows, <<v>>)
               /\ \A i, j \in DOMAIN rows : rows[i] = rows[j] /\ i # j =>
                     \E m, n \in DOMAIN l : m # n /\ l[m] = rows[i] /\ l[n] = rows[i]
       /\ (Answered /\ q.proj = "window" /\ q.window = "row_number" /\ q.order = "none"
             /\ q.limit = -1 /\ q.offset = 0)
            => \A k \in DOMAIN rows :
                  Count(rows, <<k>>) = Cardinality({v \in {x[1] : x \in ToSet(Matching)} :
                                          Cardinality({i \in DOMAIN Matching : Matching[i][1] = v}) >= k})

\* Every query ends, a recursive one over a cycle as well: UNION stops when
\* nothing new is found and UNION ALL at the bound on iterations.
QueriesEnd == (stage = "from") ~> (stage \in {"done", "error"})

\* An index, or a unique one, changes how an answer is found and not the answer, whatever
\* the comparison, over rows without NULL: `<>` is one of the comparison operators
\* (docs/SQL_STANDARDS_COMPLIANCE.md:192; build_index_filter).
IndexNeverChangesTheAnswer ==
    (Answered /\ q.body = "select" /\ ~IsAggregate /\ q.proj # "window" /\ q.join = "none"
        /\ q.limit = -1 /\ q.offset = 0 /\ ~q.distinct
        /\ \A i \in DOMAIN input.t : input.t[i][1] # NullValue)
    => Len(rows) = Len(Matching)
=============================================================================
