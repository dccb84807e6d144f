---------------------------- MODULE MCServices ----------------------------
(* The services around the engine, one of them in each behaviour: catalog,    *)
(* sequences and columns of a table, message queue, cache table, graph,       *)
(* buffer pool and Iceberg table.                                             *)
EXTENDS Graph, MessageQueue, CacheTable, SqlSequences, BufferPool, Catalog, TableColumns, TLC

CONSTANTS MaxTables, MaxFreed,                 \* bounds on the tables there are, on freed pages
          Writers, Batches, Predicates, MaxCommits, MaxClock         \* Iceberg

VARIABLES part,
          partitioned, millis, lists, metas, hint, writer, commits, rowsMeant, acked, raced, collided, blinded

Lake == INSTANCE Iceberg WITH clock <- millis, meant <- rowsMeant

MCSequenceValues == {-4, 1, 2, 3}
MCIncrements == {1, 2, -1}
MCTuples == {<<2, 1>>}
MCBatches == {<< <<1, 1>> >>, << <<1, 2>>, <<2, NullCell>> >>}
MCPredicates == {[col |-> 2, op |-> o, lit |-> l] : o \in {"eq", "lt", "gt"}, l \in {1, 2}}
                \union {[col |-> 1, op |-> o, lit |-> 1] : o \in {"eq", "ne"}}

lakeVars == <<partitioned, millis, lists, metas, hint, writer, commits, rowsMeant, acked, raced, collided, blinded>>
allVars == <<part, queueVars, cacheVars, poolVars, catalogVars, sequencesVars, columnVars, graphVars, lakeVars>>

Init ==
    /\ part \in {"catalog", "sequence", "table", "queue", "cache", "graph", "pool", "lake"}
    /\ CatalogInit /\ SequencesInit /\ PoolInit
    /\ TableInit /\ (part # "table" => def.columns[1].name = CHOOSE c \in Columns : TRUE)
    /\ QueueInit /\ (part # "queue" => consumer.mode = "auto")
    /\ CacheInit /\ (part # "cache" => mode = "UPSERT")
    /\ Lake!IcebergInit /\ (part # "lake" => ~partitioned)
    /\ IF part = "graph" THEN GraphInit ELSE g = "none" /\ statements = 0 /\ reused = FALSE

Next ==
    /\ UNCHANGED part
    /\ \/ /\ part = "catalog" /\ CatalogNext
          /\ UNCHANGED <<queueVars, cacheVars, poolVars, sequencesVars, columnVars, graphVars, lakeVars>>
       \/ /\ part = "sequence" /\ SequencesNext
          /\ UNCHANGED <<queueVars, cacheVars, poolVars, catalogVars, columnVars, graphVars, lakeVars>>
       \/ /\ part = "table" /\ TableNext
          /\ UNCHANGED <<queueVars, cacheVars, poolVars, catalogVars, sequencesVars, graphVars, lakeVars>>
       \/ /\ part = "queue" /\ QueueNext
          /\ UNCHANGED <<cacheVars, poolVars, catalogVars, sequencesVars, columnVars, graphVars, lakeVars>>
       \/ /\ part = "cache" /\ CacheNext
          /\ UNCHANGED <<queueVars, poolVars, catalogVars, sequencesVars, columnVars, graphVars, lakeVars>>
       \/ /\ part = "graph" /\ GraphNext
          /\ UNCHANGED <<queueVars, cacheVars, poolVars, catalogVars, sequencesVars, columnVars, lakeVars>>
       \/ /\ part = "pool" /\ PoolNext
          /\ UNCHANGED <<queueVars, cacheVars, catalogVars, sequencesVars, columnVars, graphVars, lakeVars>>
       \/ /\ part = "lake" /\ Lake!IcebergNext
          /\ UNCHANGED <<queueVars, cacheVars, poolVars, catalogVars, sequencesVars, columnVars, graphVars>>

Spec == Init /\ [][Next]_allVars

\* Few tables and freed pages; and nothing after a step that excuses a part's properties, which say so.
Explored ==
    /\ Cardinality(live) <= MaxTables /\ Len(disk.free_pages) <= MaxFreed /\ writes + Len(disk.free_pages) <= MaxWrites
    /\ ~disordered /\ ~overwrote /\ ~aliased /\ ~collided /\ ~blinded

-----------------------------------------------------------------------------
(* The parts' properties, each in the behaviours of its part.                 *)

\* Graph: every edge joins two nodes that list it, every node is in the label index
\* (save_edge, delete_edge, delete_node, save_node).
GraphStaysConsistent == part = "graph" => GraphIsConsistent

\* Graph: MATCH finds what a scan of all nodes and trails would, a MERGE that runs again
\* creates nothing, and the pages and groups of a RETURN partition its rows
\* (find_candidate_nodes, expand_var_length, expand_shortest_path, execute_merge,
\* execute_return, execute_aggregated_return).
GraphQueriesAnswer == part = "graph" => MatchesAreComplete /\ MergeSettles /\ PagesAndGroupsPartition

\* Iceberg: every snapshot a hint leads to holds its rows, whatever overlaps or stops half
\* way (write_iceberg_table_rows, write_iceberg_position_deletes, compact_iceberg_table).
SnapshotsKeepTheirRows == part = "lake" => Lake!SnapshotsKeepTheirRows

\* Iceberg: no data file with a matching value is passed over (should_prune_by_partition,
\* should_skip_data_file).
SkippingLosesNothing == part = "lake" => Lake!SkippingLosesNothing
=============================================================================
