---------------------------- MODULE MCSqlQueries ----------------------------
EXTENDS SqlQueries

Vals == {NullValue, 0, 1}
Rows2 == Vals \X {0, 1}
Seqs(S, n) == UNION {[1 .. k -> S] : k \in 0 .. n}
Cmp(c, o, v, f) == [kind |-> "cmp", col |-> c, op |-> o, v |-> v, flip |-> f]
NoWhere == [kind |-> "none"]
Ops == {"eq", "ne", "lt", "le", "gt", "ge"}
OnIndex == {Cmp(1, o, v, f) : o \in Ops, v \in {0, 1}, f \in BOOLEAN}
Ranges == {Cmp(1, o, v, FALSE) : o \in {"lt", "le", "gt", "ge", "eq"}, v \in {0, 1}}
BetweenBoth == [kind |-> "between", col |-> 1, lo |-> 0, hi |-> 1]
Wheres == {NoWhere, BetweenBoth, Cmp(2, "eq", 1, FALSE)} \union OnIndex
   \union {[kind |-> "and", l |-> l, r |-> r] : l \in Ranges, r \in Ranges}
   \union {[kind |-> k, l |-> l, r |-> Cmp(2, "eq", 1, FALSE)] : k \in {"and", "or"}, l \in Ranges}
Agg(o, c, n) == [op |-> o, col |-> c, nested |-> n]
PlainQuery == [body |-> "select", all |-> FALSE, join |-> "none", constraint |-> "none",
         where |-> NoWhere, group |-> 0, having |-> 0, proj |-> "star",
         agg |-> Agg("countstar", 2, FALSE), window |-> "row_number", order |-> "none",
         distinct |-> FALSE, limit |-> -1, offset |-> 0, vectorized |-> FALSE, unique |-> FALSE]
Family(qs, ts, us) == [qs |-> qs, ts |-> ts, us |-> us]
\* Every predicate, with rows shown and with each aggregate.
Filters == Family({[PlainQuery EXCEPT !.where = w, !.unique = k] : w \in Wheres, k \in BOOLEAN},
                  Seqs(Rows2, 2), {<<>>})
Aggs == Family({[PlainQuery EXCEPT !.where = w, !.proj = "agg", !.agg = Agg(o, 1, n), !.vectorized = z] :
                  w \in {NoWhere, BetweenBoth, Cmp(1, "ge", 0, FALSE), Cmp(1, "eq", 1, FALSE),
                         Cmp(1, "ne", 0, TRUE), Cmp(2, "eq", 1, FALSE),
                         [kind |-> "and", l |-> Cmp(1, "ge", 0, FALSE), r |-> Cmp(2, "eq", 1, FALSE)]},
                  o \in {"countstar", "count", "sum", "avg", "min", "max"}, n \in BOOLEAN, z \in BOOLEAN},
               Seqs(Rows2, 2), {<<>>})
Groups == Family({[PlainQuery EXCEPT !.proj = "agg", !.agg = Agg(o, 1, FALSE), !.group = g, !.having = h,
                               !.order = d] :
                  o \in {"sum", "count"}, g \in {0, 2}, h \in {0, 2}, d \in {"none", "desc"}},
                 Seqs({NullValue, 1} \X {0, 1}, 3), {<<>>})
\* ORDER BY, DISTINCT and pages, with runs spilled.
Sorts == Family({[PlainQuery EXCEPT !.proj = p, !.order = d, !.distinct = x, !.limit = l, !.offset = o] :
                  p \in {"star", "col"}, d \in {"none", "asc", "desc"}, x \in BOOLEAN,
                  l \in {-1, 1, 2}, o \in {0, 1, 4}},
                Seqs({1} \X {0, 1}, 4), {<<>>})
Points == Family({[PlainQuery EXCEPT !.where = Cmp(1, "eq", 1, FALSE), !.unique = TRUE, !.offset = o, !.limit = l] :
                  o \in {0, 1}, l \in {-1, 1}}, Seqs(Rows2, 2), {<<>>})
Joins == Family({[PlainQuery EXCEPT !.join = j, !.constraint = c] :
                  j \in {"inner", "left", "right", "full", "cross"}, c \in {"on", "using"}},
                Seqs(Vals \X {0}, 2), Seqs(Vals \X {1}, 2))
Windows == Family({[PlainQuery EXCEPT !.proj = "window", !.window = w] :
                  w \in {"row_number", "rank", "dense_rank", "lead", "lag", "first_value", "last_value", "ntile"}},
                Seqs({0, 1} \X {0, 1}, 3), {<<>>})
SetOps == Family({[PlainQuery EXCEPT !.body = b, !.all = a, !.order = d, !.limit = l] :
                  b \in {"union", "intersect", "except"}, a \in BOOLEAN, d \in {"none", "desc"}, l \in {-1, 1}},
                Seqs({0, 1} \X {0}, 3), Seqs({0, 1} \X {0}, 2))
Recursions == Family({[PlainQuery EXCEPT !.body = "recursive", !.all = a] : a \in BOOLEAN},
                Seqs({0, 1} \X {0}, 2), Seqs({0, 1, 2} \X {0, 1, 2}, 3))
MCFamilies == {Filters, Aggs, Groups, Sorts, Points, Joins, Windows, SetOps, Recursions}
IndexedFamilies == {Filters}
=============================================================================
