------------------------------- MODULE Graph -------------------------------
(* The Cypher engine over its store: nodes, edges, adjacency and label index. *)
(*                                                                            *)
(* A statement runs in a transaction of its own: the clauses MATCH, MERGE,    *)
(* CREATE, SET, DELETE in that order over a sequence of rows, each row a      *)
(* binding of variables to COPIES of nodes and edges.  An error rolls back.   *)
(* The id counters live in the engine; the persisted ones are written as      *)
(* versioned values, which GraphStore::new does not recognise, so an engine   *)
(* that opens the graph counts from 1.                                        *)
EXTENDS Integers, Sequences, FiniteSets, FiniteSetsExt, SequencesExt, TLC

CONSTANTS Labels, Keys, Vals,   \* of nodes
          MaxNodes, MaxEdges,   \* bounds on the ids
          MaxStatements

VARIABLES g,            \* the stored graph and the id counters
          statements,   \* run so far, the CREATEs of the first edges included
          reused        \* an id in use was handed out

graphVars == <<g, statements, reused>>

Absent == "absent"
Null == 0         \* not in Vals
Types == {"T", "U"}
Failed == [failed |-> TRUE]

Put(f, k, v) == [x \in DOMAIN f \union {k} |-> IF x = k THEN v ELSE f[x]]
Drop(f, k) == [x \in DOMAIN f \ {k} |-> f[x]]
ById(S) == SetToSortSeq(S, LAMBDA a, b : a.id < b.id)
FlatMap(seq, Op(_)) == FlattenSeq([i \in DOMAIN seq |-> Op(seq[i])])

-----------------------------------------------------------------------------
(* GraphStore, over the graph a transaction sees.                             *)

\* The index entries of a node: one per label, one per label and property.
IndexEntries(n) ==
    UNION {{<<l, Absent, Absent, n.id>>} \union {<<l, k, n.props[k], n.id>> : k \in DOMAIN n.props}
           : l \in n.labels}

\* save_node adds entries; those of values the node no longer has stay behind.
save_node(s, n) == [s EXCEPT !.nodes = Put(@, n.id, n), !.idx = @ \union IndexEntries(n)]

create_node(s, labels, props) ==
    [save_node(s, [id |-> s.next_node_id, labels |-> labels, props |-> props])
        EXCEPT !.next_node_id = @ + 1]

find_nodes_by_label(s, l) ==
    ById({s.nodes[id] : id \in {e[4] : e \in {x \in s.idx : x[1] = l}} \intersect DOMAIN s.nodes})

find_nodes_by_label_and_prop(s, l, k, v) ==
    ById({s.nodes[id] : id \in {e[4] : e \in {x \in s.idx : <<x[1], x[2], x[3]>> = <<l, k, v>>}}
                                \intersect DOMAIN s.nodes})

save_edge(s, e) ==
    [s EXCEPT !.edges = Put(@, e.id, e),
              !.out = @ \union {<<e.src_id, e.type, e.id>>},
              !.in = @ \union {<<e.dst_id, e.type, e.id>>}]

create_edge(s, type, src, dst) ==
    [save_edge(s, [id |-> s.next_edge_id, type |-> type, src_id |-> src, dst_id |-> dst])
        EXCEPT !.next_edge_id = @ + 1]

delete_edge(s, id) ==
    IF id \notin DOMAIN s.edges THEN s
    ELSE LET e == s.edges[id]
         IN [s EXCEPT !.edges = Drop(@, id),
                      !.out = @ \ {<<e.src_id, e.type, id>>},
                      !.in = @ \ {<<e.dst_id, e.type, id>>}]

\* The edges an adjacency map lists for a node, of one type or of all.
Listed(s, map, id, type) ==
    ById({s.edges[e[3]] : e \in {x \in map : /\ x[1] = id
                                             /\ type # Absent => x[2] = type
                                             /\ x[3] \in DOMAIN s.edges}})
get_out_edges(s, id, type) == Listed(s, s.out, id, type)
get_in_edges(s, id, type) == Listed(s, s.in, id, type)

\* A plausible slip: only the edges that leave the node are found and removed.
Attached_out(s, id) == get_out_edges(s, id, Absent)

Attached(s, id) == get_out_edges(s, id, Absent) \o get_in_edges(s, id, Absent)

\* A node with edges is refused (Failed) unless detached from them.
delete_node(s, id, detach) ==
    IF id \notin DOMAIN s.nodes THEN s
    ELSE IF ~detach /\ Attached(s, id) # <<>> THEN Failed
    ELSE LET n == s.nodes[id]
             bare == FoldLeft(LAMBDA acc, e : delete_edge(acc, e.id), s, Attached(s, id))
         IN [bare EXCEPT !.nodes = Drop(@, id), !.idx = @ \ IndexEntries(n)]

-----------------------------------------------------------------------------
(* GraphEngine: patterns.  A node pattern has a variable, labels in order and *)
(* properties in order; an edge pattern types, a direction, and a range of    *)
(* hops or shortestPath.                                                      *)

NodePat(var, labels, props) == [var |-> var, labels |-> labels, props |-> props]
EdgePat(var, types, direction) ==
    [var |-> var, types |-> types, direction |-> direction, hops |-> <<>>, shortest |-> FALSE]

node_matches_pattern(n, pat) ==
    /\ Range(pat.labels) \subseteq n.labels
    /\ \A p \in Range(pat.props) : p[1] \in DOMAIN n.props /\ n.props[p[1]] = p[2]

all_nodes(s) == ById({s.nodes[id] : id \in DOMAIN s.nodes})

\* The row's own copy of a bound variable, or the best index there is, filtered.
find_candidate_nodes(s, pat, row) ==
    LET found == CASE pat.var \in DOMAIN row -> <<row[pat.var]>>
                   [] pat.labels # <<>> /\ pat.props # <<>> ->
                        find_nodes_by_label_and_prop(s, pat.labels[1], pat.props[1][1], pat.props[1][2])
                   [] pat.labels # <<>> -> find_nodes_by_label(s, pat.labels[1])
                   [] OTHER -> all_nodes(s)
    IN SelectSeq(found, LAMBDA n : node_matches_pattern(n, pat))

EdgesAt(s, id, direction, type) ==
    CASE direction = "out" -> get_out_edges(s, id, type)
      [] direction = "in" -> get_in_edges(s, id, type)
      [] direction = "both" -> ById(Range(get_out_edges(s, id, type)) \union Range(get_in_edges(s, id, type)))

\* The first type selects the edges that are read.
get_matching_edges(s, id, pat) ==
    SelectSeq(EdgesAt(s, id, pat.direction, IF pat.types = <<>> THEN Absent ELSE pat.types[1]),
              LAMBDA e : Len(pat.types) <= 1 \/ e.type \in Range(pat.types))

\* A path is its edges and the node it has come to.  Every way to go on from p.
OtherEnd(e, id) == IF e.src_id = id THEN e.dst_id ELSE e.src_id

Onward(p, edges) ==
    [i \in DOMAIN edges |-> [at |-> OtherEnd(edges[i], p.at), edges |-> Append(p.edges, edges[i].id)]]
Steps_repeating(s, p, pat) ==
    Onward(p, SelectSeq(get_matching_edges(s, p.at, pat), LAMBDA e : OtherEnd(e, p.at) \in DOMAIN s.nodes))

\* No edge is used twice in a path.
Steps(s, p, pat) ==
    SelectSeq(Steps_repeating(s, p, pat), LAMBDA q : q.edges[Len(q.edges)] \notin Range(p.edges))

Matching(s, paths, npat) == SelectSeq(paths, LAMBDA q : node_matches_pattern(s.nodes[q.at], npat))

RECURSIVE VarLength(_, _, _, _, _, _, _)
VarLength(s, level, epat, npat, hops, min, max) ==
    IF hops >= max \/ level = <<>> THEN <<>>
    ELSE LET next == FlatMap(level, LAMBDA p : Steps(s, p, epat))
         IN (IF hops + 1 >= min THEN Matching(s, next, npat) ELSE <<>>)
            \o VarLength(s, next, epat, npat, hops + 1, min, max)

\* Breadth first by hops: all paths of one length come before the longer ones.
expand_var_length(s, p, epat, npat) == VarLength(s, <<p>>, epat, npat, 0, epat.hops[1], epat.hops[2])

\* The first path to each node.
FirstPerNode(paths) ==
    FoldLeft(LAMBDA acc, p : IF \E q \in Range(acc) : q.at = p.at THEN acc ELSE Append(acc, p), <<>>, paths)

RECURSIVE Search(_, _, _, _, _)
Search(s, queue, visited, epat, npat) ==
    IF queue = <<>> THEN <<>>
    ELSE LET fresh == FirstPerNode(SelectSeq(Steps_repeating(s, Head(queue), epat), LAMBDA q : q.at \notin visited))
             hits == Matching(s, fresh, npat)
         IN IF hits # <<>> THEN <<hits[1]>>
            ELSE Search(s, Tail(queue) \o fresh, visited \union {q.at : q \in Range(fresh)}, epat, npat)

\* The first match of a breadth-first search, to a node other than the start.
expand_shortest_path(s, p, epat, npat) == Search(s, <<p>>, {p.at}, epat, npat)

expand_step(s, p, epat, npat) ==
    CASE epat.shortest -> expand_shortest_path(s, p, epat, npat)
      [] epat.hops # <<>> -> expand_var_length(s, p, epat, npat)
      [] OTHER -> Matching(s, Steps(s, p, epat), npat)

\* Bindings <<variable, value>> laid over a row; the empty variable is unnamed.
Bind(row, var, v) == IF var = "" THEN row ELSE Put(row, var, v)

\* The rows that the ends of an edge pattern make of a row.
BindEnds(s, row, pat, ends) ==
    [i \in DOMAIN ends |->
        Bind(Bind(row, pat.chain[1].var, s.edges[Last(ends[i].edges)]), pat.chain[2].var, s.nodes[ends[i].at])]

\* A pattern here is a start node and at most one edge with its end node.  The end
\* node is bound anew, whatever its variable was bound to before; the edge variable of
\* a pattern of fixed length is its edge.
match_pattern(s, pat, row) ==
    FlatMap(find_candidate_nodes(s, pat.start, row),
            LAMBDA n : IF pat.chain = <<>> THEN <<Bind(row, pat.start.var, n)>>
                       ELSE BindEnds(s, Bind(row, pat.start.var, n), pat,
                                     expand_step(s, [at |-> n.id, edges |-> <<>>], pat.chain[1], pat.chain[2])))

\* MATCH: an OPTIONAL one keeps the row, its variables NULL, which every clause takes
\* for unbound: they are left out of the row.
OrRow(found, row, optional) == IF found = <<>> /\ optional THEN <<row>> ELSE found
execute_match(s, pat, rows, optional) ==
    FlatMap(rows, LAMBDA row : OrRow(match_pattern(s, pat, row), row, optional))

-----------------------------------------------------------------------------
(* Clauses that write.  Each takes and gives <<graph, rows>>.                 *)

\* A node of the pattern: the bound one, or a new one; with its id as the last part.
instantiate_node(acc, pat) ==
    LET s == acc[1]
        row == acc[2]
    IN IF pat.var \in DOMAIN row THEN <<s, row, row[pat.var].id>>
       ELSE LET made == create_node(s, Range(pat.labels),
                                    [k \in {p[1] : p \in Range(pat.props)} |->
                                        (CHOOSE p \in Range(pat.props) : p[1] = k)[2]])
            IN <<made, Bind(row, pat.var, made.nodes[s.next_node_id]), s.next_node_id>>

\* Source and target of the edge a pattern creates; -[]- makes an outgoing one.
Ends(epat, a, b) == IF epat.direction = "in" THEN <<b, a>> ELSE <<a, b>>

WithEdge(s, row, epat, ends) ==
    LET made == create_edge(s, IF epat.types = <<>> THEN "RELATED_TO" ELSE epat.types[1], ends[1], ends[2])
    IN <<made, Bind(row, epat.var, made.edges[s.next_edge_id])>>
JoinTo(a, b, epat) == WithEdge(b[1], b[2], epat, Ends(epat, a[3], b[3]))
CreateChain(a, pat) == IF pat.chain = <<>> THEN <<a[1], a[2]>>
                       ELSE JoinTo(a, instantiate_node(a, pat.chain[2]), pat.chain[1])
CreatePattern(s, row, pat) == CreateChain(instantiate_node(<<s, row>>, pat.start), pat)

\* A clause that writes goes through the rows, each with the graph the one before left.
Took(acc, r) == <<r[1], Append(acc[2], r[2])>>

execute_create(acc, pat) ==
    FoldLeft(LAMBDA a, row : Took(a, CreatePattern(a[1], row, pat)), <<acc[1], <<>>>>, acc[2])

\* SET writes the row's copy of the node, with the property or the label added.
apply_set_item(acc, item) ==
    LET s == acc[1]
        row == acc[2]
    IN IF item.var \notin DOMAIN row THEN acc
       ELSE LET n == row[item.var]
                n2 == IF item.label # Absent THEN [n EXCEPT !.labels = @ \union {item.label}]
                      ELSE [n EXCEPT !.props = Put(@, item.key, item.value)]
            IN <<save_node(s, n2), [row EXCEPT ![item.var] = n2]>>

ApplySets(acc, items) == FoldLeft(apply_set_item, acc, items)

execute_set(acc, items) ==
    FoldLeft(LAMBDA a, row : Took(a, ApplySets(<<a[1], row>>, items)), <<acc[1], <<>>>>, acc[2])

\* MERGE: the first match, or the whole pattern is created.
MergeRow(s, row, found, q) ==
    IF found # <<>> THEN ApplySets(<<s, found[1]>>, q.onMatch)
    ELSE ApplySets(CreatePattern(s, row, q.merge), q.onCreate)
execute_merge(acc, q) ==
    FoldLeft(LAMBDA a, row : Took(a, MergeRow(a[1], row, match_pattern(a[1], q.merge, row), q)),
             <<acc[1], <<>>>>, acc[2])

\* DELETE, node by node and edge by edge; Failed once a node is refused.
execute_delete(acc, vars, detach) ==
    LET victims == FlattenSeq([i \in DOMAIN acc[2] |-> [j \in DOMAIN vars |-> <<i, vars[j]>>]])
        remove(s, x) ==
            IF s = Failed \/ x[2] \notin DOMAIN acc[2][x[1]] THEN s
            ELSE LET v == acc[2][x[1]][x[2]]
                 IN IF "src_id" \in DOMAIN v THEN delete_edge(s, v.id) ELSE delete_node(s, v.id, detach)
    IN FoldLeft(remove, acc[1], victims)

-----------------------------------------------------------------------------
(* RETURN: projection or grouping, then DISTINCT, ORDER BY, SKIP and LIMIT.   *)

\* A property of a row's node.
PropertyAccess(row, var, k) ==
    IF var \in DOMAIN row /\ k \in DOMAIN row[var].props THEN row[var].props[k] ELSE Null

\* NULL is less than every value.
compare_graph_values(a, b) ==
    CASE a = b -> 0
      [] a = Null -> -1
      [] b = Null -> 1
      [] OTHER -> IF a < b THEN -1 ELSE 1

NotNull(vs) == SelectSeq(vs, LAMBDA v : v # Null)

\* count, sum, min and max of the argument's values in a group; NULLs do not count.
eval_aggregate_expr(name, vs) ==
    LET known == NotNull(vs)
        best(c) == FoldLeft(LAMBDA a, v : IF a = Null \/ compare_graph_values(v, a) = c THEN v ELSE a, Null, known)
    IN CASE name = "count" -> Len(known)
         [] name = "sum" -> FoldLeft(LAMBDA a, v : a + v, 0, known)
         [] name = "min" -> best(-1)
         [] name = "max" -> best(1)

\* One result per group of labels(a), in no order; without keys there is one group, even of no rows.
execute_aggregated_return(rows, keyed, name, k) ==
    LET labels(row) == IF "a" \in DOMAIN row THEN row["a"].labels ELSE {Absent}
        keys == IF keyed THEN {labels(row) : row \in Range(rows)} ELSE {{}}
        of(key) == SelectSeq(rows, LAMBDA row : ~keyed \/ labels(row) = key)
        values(rs) == [i \in DOMAIN rs |-> PropertyAccess(rs[i], "a", k)]
    IN {<<key, Len(of(key)), eval_aggregate_expr(name, values(of(key)))>> : key \in keys}

Distinct(vs) == FoldLeft(LAMBDA seen, v : IF v \in Range(seen) THEN seen ELSE Append(seen, v), <<>>, vs)

\* A stable sort: each value goes after those that are not greater.
Sorted(vs) ==
    FoldLeft(LAMBDA out, v : SelectSeq(out, LAMBDA x : compare_graph_values(x, v) <= 0) \o <<v>>
                             \o SelectSeq(out, LAMBDA x : compare_graph_values(x, v) > 0), <<>>, vs)

\* SKIP past the end leaves nothing; LIMIT truncates what is left.
Page(vs, skip, limit) ==
    LET rest == IF skip < Len(vs) THEN SubSeq(vs, skip + 1, Len(vs)) ELSE <<>>
    IN SubSeq(rest, 1, IF limit < Len(rest) THEN limit ELSE Len(rest))

\* RETURN a.k ORDER BY a.k.
execute_return(rows, k, distinct, skip, limit) ==
    LET out == [i \in DOMAIN rows |-> PropertyAccess(rows[i], "a", k)]
    IN Page(Sorted(IF distinct THEN Distinct(out) ELSE out), skip, limit)

-----------------------------------------------------------------------------
(* Statements.  A query is a record of clauses; most are absent.              *)

Nothing == <<>>
Edge(a, e, types, b) ==
    [start |-> NodePat(a, <<>>, <<>>), chain |-> <<EdgePat(e, types, "out"), NodePat(b, <<>>, <<>>)>>]
Plain == [match |-> Nothing, optional |-> FALSE, merge |-> Nothing, onMatch |-> <<>>, onCreate |-> <<>>,
          create |-> Nothing, set |-> <<>>, delete |-> <<>>, detach |-> FALSE]
SetProp(var, k, v) == [var |-> var, label |-> Absent, key |-> k, value |-> v]
SetLabel(var, l) == [var |-> var, label |-> l, key |-> Absent, value |-> Absent]

\* execute_query up to RETURN: the new graph, or Failed when the statement fails.
Matched(s, q) == IF q.match = Nothing THEN <<<<>>>> ELSE execute_match(s, q.match, <<<<>>>>, q.optional)
Merged(acc, q) == IF q.merge = Nothing THEN acc ELSE execute_merge(acc, q)
Created(acc, q) == IF q.create = Nothing THEN acc ELSE execute_create(acc, q.create)
execute_query(s, q) ==
    execute_delete(execute_set(Created(Merged(<<s, Matched(s, q)>>, q), q), q.set), q.delete, q.detach)

Queries ==
    LET some(l, k, v) == [start |-> NodePat("a", <<l>>, <<<<k, v>>>>), chain |-> <<>>]
        labelled(l) == [start |-> NodePat("a", <<l>>, <<>>), chain |-> <<>>]
    IN {[Plain EXCEPT !.create = some(l, k, v)] : l \in Labels, k \in Keys, v \in Vals}
       \union {[Plain EXCEPT !.merge = some(l, k, v), !.onMatch = <<SetProp("a", k, w)>>]
                 : l \in Labels, k \in Keys, v \in Vals, w \in Vals}
       \union {[Plain EXCEPT !.match = labelled(l), !.optional = o, !.create = Edge("a", "r", <<t>>, "b")]
                 : l \in Labels, t \in Types, o \in BOOLEAN}
       \union {[Plain EXCEPT !.match = Edge("a", "r", <<t>>, "b"),
                             !.set = <<SetProp("a", k, v), SetLabel("b", l)>>]
                 : t \in Types, k \in Keys, v \in Vals, l \in Labels}
       \union {[Plain EXCEPT !.match = labelled(l), !.delete = <<"a">>, !.detach = d] : l \in Labels, d \in BOOLEAN}
       \union {[Plain EXCEPT !.match = Edge("a", "r", <<t>>, "b"), !.delete = vs]
                 : t \in Types, vs \in {<<"r">>, <<"r", "a">>, <<"a", "r">>}}
       \union {[Plain EXCEPT !.merge = [start |-> NodePat("a", <<l>>, <<>>),
                                        chain |-> <<EdgePat("r", <<"U">>, d), NodePat("b", <<m>>, <<>>)>>]]
                 : l, m \in Labels, d \in {"out", "in", "both"}}

\* A counter went over the id of a node or edge there was.
TakesUsedId(s) ==
    \/ \E i \in g.next_node_id..(s.next_node_id - 1) : i \in DOMAIN g.nodes
    \/ \E i \in g.next_edge_id..(s.next_edge_id - 1) : i \in DOMAIN g.edges

\* The transaction commits what the statement wrote; after an error it rolls back.
\* (The ids a failed statement took stay taken; only DELETE fails here, and takes none.)
Finish(s) ==
    /\ g' = IF s = Failed THEN g ELSE s
    /\ s # Failed => s.next_node_id <= MaxNodes + 1 /\ s.next_edge_id <= MaxEdges + 1
    /\ reused' = (reused \/ (s # Failed /\ TakesUsedId(s)))

execute_with_params(q) ==
    /\ statements < MaxStatements
    /\ Finish(execute_query(g, q))
    /\ statements' = statements + 1

\* Another engine on the same graph: a restart, a second Bolt server, or cypher() in SQL.
\* The counters were stored as versioned values, which are not the eight bytes that
\* GraphStore::new asks for, so they start again.
reopen ==
    /\ statements < MaxStatements
    /\ g' = [g EXCEPT !.next_node_id = 1, !.next_edge_id = 1]
    /\ statements' = statements + 1
    /\ UNCHANGED reused

\* The maps of a new store and its id counters.
Empty == [nodes |-> <<>>, edges |-> <<>>, idx |-> {}, out |-> {}, in |-> {},
          next_node_id |-> 1, next_edge_id |-> 1]

\* Graphs that CREATE statements make: two nodes of a label and one of another,
\* and some edges, in the order of their ends.
Built(ends) ==
    LET l == CHOOSE x \in Labels : TRUE
        m == CHOOSE x \in Labels : Cardinality(Labels) = 1 \/ x # l
        k == CHOOSE x \in Keys : TRUE
        v == CHOOSE x \in Vals : TRUE
        nodes == create_node(create_node(create_node(Empty, {l}, [x \in {k} |-> v]), {l}, <<>>), {m}, <<>>)
    IN FoldLeft(LAMBDA s, e : create_edge(s, e[3], e[1], e[2]), nodes, ends)

GraphInit ==
    /\ \E n \in 0..MaxStatements : \E ends \in [1..n -> {<<a, b, "T">> : a, b \in 1..3}] :
          /\ \A i \in 2..n : 3 * ends[i - 1][1] + ends[i - 1][2] <= 3 * ends[i][1] + ends[i][2]
          /\ g = Built(ends)
          /\ statements = n
    /\ reused = FALSE

GraphNext == (\E q \in Queries : execute_with_params(q)) \/ reopen

-----------------------------------------------------------------------------

\* Every edge joins two nodes and is listed once at both of them, and nothing else
\* is listed; every node is in the label index under what it has now (save_edge,
\* delete_edge, delete_node, save_node), as long as no id was handed out twice.
GraphIsConsistent ==
    reused \/
      /\ \A id \in DOMAIN g.edges : g.edges[id].src_id \in DOMAIN g.nodes /\ g.edges[id].dst_id \in DOMAIN g.nodes
      /\ g.out = {<<g.edges[id].src_id, g.edges[id].type, id>> : id \in DOMAIN g.edges}
      /\ g.in = {<<g.edges[id].dst_id, g.edges[id].type, id>> : id \in DOMAIN g.edges}
      /\ \A id \in DOMAIN g.nodes : IndexEntries(g.nodes[id]) \subseteq g.idx

\* A trail is a sequence of different edges, each continuing the one before.
Trails(from, type, max) ==
    LET ids == {id \in DOMAIN g.edges : g.edges[id].type = type}
        chained(f) == /\ g.edges[f[1]].src_id = from
                      /\ \A i \in 2..Len(f) : g.edges[f[i]].src_id = g.edges[f[i - 1]].dst_id
    IN {f \in UNION {[1..n -> ids] : n \in 1..max} : IsInjective(f) /\ chained(f)}
EndOf(f) == g.edges[f[Len(f)]].dst_id

\* MATCH finds what a scan of all nodes and of all trails would: the candidates of
\* a labelled pattern although the index keeps stale entries, each path of a
\* variable length once, and a shortest path when there is a path at all
\* (find_candidate_nodes, expand_var_length, expand_shortest_path).
MatchesAreComplete ==
    reused \/
      /\ \A l \in Labels, k \in Keys, v \in Vals :
           \A pat \in {NodePat("a", <<l>>, <<>>), NodePat("a", <<l>>, <<<<k, v>>>>), NodePat("a", <<>>, <<<<k, v>>>>)} :
             find_candidate_nodes(g, pat, <<>>)
               = ById({n \in Range(all_nodes(g)) : node_matches_pattern(n, pat)})
      /\ \A from \in DOMAIN g.nodes, t \in Types, l \in Labels :
           LET start == [at |-> from, edges |-> <<>>]
               e == EdgePat("r", <<t>>, "out")
               any == NodePat("b", <<>>, <<>>)
               some == NodePat("b", <<l>>, <<>>)
               trails == expand_var_length(g, start, [e EXCEPT !.hops = <<1, 3>>], any)
               short == expand_shortest_path(g, start, [e EXCEPT !.shortest = TRUE], some)
               reaching == {f \in Trails(from, t, 3) : EndOf(f) # from /\ l \in g.nodes[EndOf(f)].labels}
           IN /\ {q.edges : q \in Range(trails)} = Trails(from, t, 3) /\ IsInjective(trails)
              /\ (short = <<>>) = (reaching = {})
              /\ short # <<>> => /\ short[1].edges \in reaching
                                 /\ \A f \in reaching : Len(short[1].edges) <= Len(f)

\* A MERGE that ran finds its pattern when it runs again and creates nothing
\* (execute_merge), whatever the direction of its edge.
MergeSettles ==
    reused \/ \A q \in {x \in Queries : x.merge # Nothing /\ x.onMatch = <<>>} :
        LET once == execute_query(g, q)
        IN execute_query(once, q) = once

\* The pages of an ordered RETURN put together are the whole answer, each row on one
\* page; DISTINCT drops repetitions only; group counts add up to the rows, and the
\* groups' sums, minima and maxima to those of all rows (execute_return,
\* execute_aggregated_return).
PagesAndGroupsPartition ==
    \A k \in Keys, o \in BOOLEAN :
      LET rows == execute_match(g, [start |-> NodePat("a", <<>>, <<>>), chain |-> <<>>], <<<<>>>>, o)
          all(d) == execute_return(rows, k, d, 0, Len(rows))
          whole(name) == (CHOOSE x \in execute_aggregated_return(rows, FALSE, name, k) : TRUE)
          parts(name) == SetToSeq(execute_aggregated_return(rows, TRUE, name, k))
          values(name) == [i \in DOMAIN parts(name) |-> parts(name)[i][3]]
      IN /\ \A size \in 1..3 : \A d \in BOOLEAN :
              FlattenSeq([i \in 1..Len(rows) |-> execute_return(rows, k, d, (i - 1) * size, size)]) = all(d)
         /\ Range(all(TRUE)) = Range(all(FALSE)) /\ IsInjective(all(TRUE))
         /\ Len(all(FALSE)) = Len(rows)
         /\ \A i \in 2..Len(rows) : compare_graph_values(all(FALSE)[i - 1], all(FALSE)[i]) <= 0
         /\ whole("count")[2] = Len(rows)
         /\ whole("count")[2] = FoldLeft(LAMBDA a, x : a + x[2], 0, parts("count"))
         /\ \A name \in {"count", "sum"} : whole(name)[3] = FoldLeft(LAMBDA a, x : a + x, 0, values(name))
         /\ \A name \in {"min", "max"} : whole(name)[3] = eval_aggregate_expr(name, values(name))

=============================================================================
