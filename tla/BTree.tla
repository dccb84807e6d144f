------------------------------- MODULE BTree -------------------------------
(* MVTree: the copy-on-write B-tree behind every map.  Pages split when they  *)
(* overflow; removal leaves pages, even empty ones, where they are.           *)
EXTENDS Integers, Sequences, FiniteSets, SequencesExt

CONSTANTS Keys,         \* byte strings (sequences of numbers)
          MaxEntries    \* max_entries_per_page

ASSUME MaxEntriesAssumption == MaxEntries \in Nat \ {0}

VARIABLES root,         \* the root page
          stored        \* history: the keys put and not removed since

btreeVars == <<root, stored>>

Leaf(entries) == [leaf |-> TRUE, keys |-> entries, children |-> <<>>]
Branch(keys, children) == [leaf |-> FALSE, keys |-> keys, children |-> children]

BTreeInit == root = Leaf(<<>>) /\ stored = {}

Less(x, y) ==
    \/ \E i \in DOMAIN x : /\ i \in DOMAIN y /\ x[i] < y[i]
                           /\ \A j \in 1 .. i - 1 : x[j] = y[j]
    \/ Len(x) < Len(y) /\ SubSeq(y, 1, Len(x)) = x

AtMost(x, y) == x = y \/ Less(x, y)

\* The child a key belongs to: one past the separators that are not above it.
ChildIndex(page, key) ==
    1 + Cardinality({i \in DOMAIN page.keys : AtMost(page.keys[i], key)})

\* The place of a key in a leaf: before the first entry that is not below it.
Place(page, key) ==
    1 + Cardinality({i \in DOMAIN page.keys : Less(page.keys[i], key)})

\* A page that may have split: its left half, and the separator and right half.
Whole(page) == [page |-> page, split |-> <<>>]

\* A plausible slip: the separator is the last entry on the left.
SplitLeaf_left_pivot(entries) ==
    LET mid == Len(entries) \div 2
    IN [page |-> Leaf(SubSeq(entries, 1, mid)),
        split |-> <<entries[mid], Leaf(SubSeq(entries, mid + 1, Len(entries)))>>]

SplitLeaf(entries) ==
    LET mid == Len(entries) \div 2
    IN [page |-> Leaf(SubSeq(entries, 1, mid)),
        split |-> <<entries[mid + 1], Leaf(SubSeq(entries, mid + 1, Len(entries)))>>]

\* The middle separator moves up.
SplitBranch(keys, children) ==
    LET mid == Len(keys) \div 2 + 1
    IN [page |-> Branch(SubSeq(keys, 1, mid - 1), SubSeq(children, 1, mid)),
        split |-> <<keys[mid], Branch(SubSeq(keys, mid + 1, Len(keys)),
                                      SubSeq(children, mid + 1, Len(children)))>>]

RECURSIVE insert_recursive(_, _)
insert_recursive(page, key) ==
    IF page.leaf
      THEN IF Contains(page.keys, key) THEN Whole(page)
           ELSE LET entries == InsertAt(page.keys, Place(page, key), key)
                IN IF Len(entries) > MaxEntries THEN SplitLeaf(entries) ELSE Whole(Leaf(entries))
      ELSE LET idx == ChildIndex(page, key)
               new == insert_recursive(page.children[idx], key)
               children == ReplaceAt(page.children, idx, new.page)
           IN IF new.split = <<>> THEN Whole(Branch(page.keys, children))
              ELSE LET keys == InsertAt(page.keys, idx, new.split[1])
                       kids == InsertAt(children, idx + 1, new.split[2])
                   IN IF Len(keys) > MaxEntries THEN SplitBranch(keys, kids)
                      ELSE Whole(Branch(keys, kids))

RECURSIVE remove_recursive(_, _)
remove_recursive(page, key) ==
    IF page.leaf THEN Leaf(SelectSeq(page.keys, LAMBDA k : k # key))
    ELSE LET idx == ChildIndex(page, key)
         IN Branch(page.keys, ReplaceAt(page.children, idx, remove_recursive(page.children[idx], key)))

put(key) ==
    /\ LET new == insert_recursive(root, key)
       IN root' = IF new.split = <<>> THEN new.page
                  ELSE Branch(<<new.split[1]>>, <<new.page, new.split[2]>>)
    /\ stored' = stored \union {key}

remove(key) ==
    /\ root' = remove_recursive(root, key)
    /\ stored' = stored \ {key}

BTreeNext == \E key \in Keys : put(key) \/ remove(key)

-----------------------------------------------------------------------------
(* Reading                                                                    *)

RECURSIVE get(_, _)
get(page, key) ==
    IF page.leaf THEN Contains(page.keys, key)
    ELSE get(page.children[ChildIndex(page, key)], key)

RECURSIVE collect_entries(_)
collect_entries(page) ==
    IF page.leaf THEN page.keys
    ELSE FlattenSeq([i \in DOMAIN page.children |-> collect_entries(page.children[i])])

\* A child is skipped when its separators say no key in it has the prefix.
RECURSIVE collect_prefix_entries(_, _)
collect_prefix_entries(page, prefix) ==
    LET skip(i) ==
            \/ i > 1 /\ Less(prefix, page.keys[i - 1]) /\ ~IsPrefix(prefix, page.keys[i - 1])
            \/ i <= Len(page.keys) /\ AtMost(page.keys[i], prefix) /\ ~IsPrefix(prefix, page.keys[i])
        from == Place(page, prefix)
        stop == {j \in from .. Len(page.keys) : ~IsPrefix(prefix, page.keys[j])}
    IN IF page.leaf
         THEN SubSeq(page.keys, from,
                     IF stop = {} THEN Len(page.keys) ELSE (CHOOSE j \in stop : \A k \in stop : j <= k) - 1)
         ELSE FlattenSeq([i \in DOMAIN page.children |->
                            IF skip(i) THEN <<>> ELSE collect_prefix_entries(page.children[i], prefix)])

\* Bounds are [kind, k] with kind "unbounded", "included" or "excluded".
AboveStart(b, k) == \/ b.kind = "unbounded"
                    \/ b.kind = "included" /\ AtMost(b.k, k)
                    \/ b.kind = "excluded" /\ Less(b.k, k)
BelowEnd(b, k) == \/ b.kind = "unbounded"
                  \/ b.kind = "included" /\ AtMost(k, b.k)
                  \/ b.kind = "excluded" /\ Less(k, b.k)

RECURSIVE collect_range_entries(_, _, _)
collect_range_entries(page, start, end) ==
    LET skip(i) == \/ i > 1 /\ ~BelowEnd(end, page.keys[i - 1])
                   \/ i <= Len(page.keys) /\ start.kind # "unbounded" /\ AtMost(page.keys[i], start.k)
    IN IF page.leaf THEN SelectSeq(page.keys, LAMBDA k : AboveStart(start, k) /\ BelowEnd(end, k))
       ELSE FlattenSeq([i \in DOMAIN page.children |->
                          IF skip(i) THEN <<>> ELSE collect_range_entries(page.children[i], start, end)])

-----------------------------------------------------------------------------

SortedKeys(S) == SetToSortSeq(S, Less)
BoundsOf == {[kind |-> t, k |-> k] : t \in {"included", "excluded"}, k \in Keys}
            \union {[kind |-> "unbounded", k |-> <<>>]}

\* Whatever splits and removals have made of the pages, the tree is the sorted
\* map of what was put: lookups, full scans, and the prefix and range scans that
\* skip subtrees by their separators all see exactly the keys stored
\* (MVTree::get, scan_all, scan_prefix, scan_range).
TreeIsTheMap ==
    /\ collect_entries(root) = SortedKeys(stored)
    /\ \A k \in Keys : /\ get(root, k) <=> k \in stored
                       /\ collect_prefix_entries(root, k) = SortedKeys({x \in stored : IsPrefix(k, x)})
    /\ \A s, e \in BoundsOf :
         collect_range_entries(root, s, e)
            = SortedKeys({x \in stored : AboveStart(s, x) /\ BelowEnd(e, x)})
=============================================================================
