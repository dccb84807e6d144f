--------------------------- MODULE VersionedValue ---------------------------
(***************************************************************************)
(* The multi-version entry kept under every key (tx/versioned_value.rs): at *)
(* most one uncommitted record and the committed records, newest first.    *)
(* An absent value (a deletion) is NoValue.                                *)
(***************************************************************************)
EXTENDS Naturals, Sequences

CONSTANTS NoValue,        \* Option::None: a deleted value, no uncommitted record
          MaxGenerations  \* committed records kept per key (32 in the code)

ASSUME GenerationsAssumption == MaxGenerations \in Nat \ {0}

EmptyVV == [uncommitted |-> NoValue, committed_history |-> <<>>]

\* Mutant of FirstAt: the version equal to the snapshot is missed.
FirstAt_before(history, snapshot) ==
    LET Seen == {i \in DOMAIN history : history[i].commit_version < snapshot}
    IN  IF Seen = {} THEN 0 ELSE CHOOSE i \in Seen : \A j \in Seen : i <= j

\* The position of the newest committed record that a snapshot may see:
\* the first one, in order, whose version does not exceed it; 0 if none does.
FirstAt(history, snapshot) ==
    LET Seen == {i \in DOMAIN history : history[i].commit_version <= snapshot}
    IN  IF Seen = {} THEN 0 ELSE CHOOSE i \in Seen : \A j \in Seen : i <= j

active_tx_id(vv) ==
    IF vv.uncommitted = NoValue THEN NoValue ELSE vv.uncommitted.tx_id

\* The newest committed value at the snapshot.
read_committed(vv, snapshot) ==
    LET i == FirstAt(vv.committed_history, snapshot)
    IN  IF i = 0 THEN NoValue ELSE vv.committed_history[i].value

\* A transaction sees its own uncommitted value, else its snapshot.
read_visible(vv, reader, snapshot) ==
    IF active_tx_id(vv) = reader THEN vv.uncommitted.value
                                 ELSE read_committed(vv, snapshot)

\* The zero-copy fast path tried by get before read_visible: it answers only
\* for an entry with no uncommitted record and a single, live, visible version.
read_visible_raw(vv, snapshot) ==
    IF /\ vv.uncommitted = NoValue
       /\ Len(vv.committed_history) = 1
       /\ vv.committed_history[1].value # NoValue
       /\ vv.committed_history[1].commit_version <= snapshot
    THEN vv.committed_history[1].value
    ELSE NoValue

Truncate(history, n) == SubSeq(history, 1, IF Len(history) < n THEN Len(history) ELSE n)

set_uncommitted(vv, tx, v) ==
    [vv EXCEPT !.uncommitted = [tx_id |-> tx, value |-> v]]

\* Mutant of commit_uncommitted: the new record goes to the end.
commit_uncommitted_appends(vv, version) ==
    IF vv.uncommitted = NoValue THEN vv
    ELSE [uncommitted |-> NoValue,
          committed_history |->
              Truncate(vv.committed_history
                  \o <<[value |-> vv.uncommitted.value, commit_version |-> version]>>,
                  MaxGenerations)]

commit_uncommitted(vv, version) ==
    IF vv.uncommitted = NoValue THEN vv
    ELSE [uncommitted |-> NoValue,
          committed_history |->
              Truncate(<<[value |-> vv.uncommitted.value, commit_version |-> version]>>
                          \o vv.committed_history, MaxGenerations)]

rollback_uncommitted(vv) == [vv EXCEPT !.uncommitted = NoValue]

\* Deleted for every snapshot from the horizon on.
is_dead(vv, horizon) ==
    /\ vv.uncommitted = NoValue
    /\ \/ vv.committed_history = <<>>
       \/ /\ vv.committed_history[1].commit_version <= horizon
          /\ vv.committed_history[1].value = NoValue

\* Keeps the newest version at the horizon and everything newer.
prune_old_versions(vv, horizon) ==
    LET i == FirstAt(vv.committed_history, horizon)
    IN  IF i = 0 THEN vv
        ELSE [vv EXCEPT !.committed_history = Truncate(@, i)]

============================================================================
