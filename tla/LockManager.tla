---------------------------- MODULE LockManager ----------------------------
(***************************************************************************)
(* The lock-wait protocol of h2-mvstore: the wait-for graph and the wait   *)
(* cells of tx/lock.rs, driven the way tx/transaction.rs (put and remove,  *)
(* when the key is held by another transaction) and tx/store.rs            *)
(* (begin, remove_active_tx) drive them.                                   *)
(*                                                                         *)
(* Each transaction is used by one thread.  `phase` is where that thread   *)
(* stands; every step is one critical section of the code, so steps of     *)
(* different threads interleave wherever the code holds no lock.           *)
(*                                                                         *)
(*   "new"       not begun                                                 *)
(*   "run"       outside the wait protocol                                 *)
(*   "conflict"  saw an active holder, dropped the key guard               *)
(*   "edge"      register_wait succeeded                                   *)
(*   "cell"      saw the holder still active, is about to fetch its cell   *)
(*   "sleep"     inside the condvar loop of wait_timeout                   *)
(*   "woken"     wait_timeout (or the re-check) said: released             *)
(*   "timedout"  wait_timeout said: not released                           *)
(*   "abort"     must roll back before it returns its error                *)
(*   "leaving"   remove_active_tx: no longer in active_transactions        *)
(*   "notify"    remove_active_tx: own edge dropped, about to notify       *)
(*   "done"      finished                                                  *)
(***************************************************************************)
EXTENDS Naturals, FiniteSets

CONSTANTS Tx,     \* transaction ids
          Cells,  \* identities of WaitCell objects (Arc<WaitCell>)
          None    \* absent entry of a map

ASSUME NoneAssumption == None \notin Tx /\ None \notin Cells

VARIABLES
    active,      \* keys of active_transactions
    phase,       \* where each transaction's thread stands
    target,      \* holder_tx_id of the conflict being handled
    wait_for,    \* WaitState.wait_for
    wait_cells,  \* WaitState.wait_cells: holder -> (count, cell)
    arc,         \* the Arc<WaitCell> a sleeping thread holds
    released     \* cells whose `released` flag is true

lockVars == <<active, phase, target, wait_for, wait_cells, arc, released>>

Phases == {"new", "run", "conflict", "edge", "cell", "sleep", "woken",
           "timedout", "abort", "leaving", "notify", "done"}

NoEntry == [count |-> 0, cell |-> None]

LockTypeOK ==
    /\ active \subseteq Tx
    /\ phase \in [Tx -> Phases]
    /\ target \in [Tx -> Tx \cup {None}]
    /\ wait_for \in [Tx -> Tx \cup {None}]
    /\ wait_cells \in [Tx -> [count : Nat, cell : Cells \cup {None}]]
    /\ arc \in [Tx -> Cells \cup {None}]
    /\ released \subseteq Cells

LockInit ==
    /\ active = {}
    /\ phase = [t \in Tx |-> "new"]
    /\ target = [t \in Tx |-> None]
    /\ wait_for = [t \in Tx |-> None]
    /\ wait_cells = [t \in Tx |-> NoEntry]
    /\ arc = [t \in Tx |-> None]
    /\ released = {}

----------------------------------------------------------------------------
(* The wait-for graph. *)

\* S contains the successor of each of its members.
Closed(S) == \A x \in S : wait_for[x] # None => wait_for[x] \in S

\* The walk along wait_for from any member of S ends: no non-empty part of S
\* maps into itself.
Grounded(S) == \A C \in SUBSET S : C # {} => \E x \in C : wait_for[x] \notin C

\* Mutant of check_cycle: waiter and holder swapped, the walk starts at the waiter, which
\* has no edge yet.
check_cycle_swapped(waiter, holder) == wait_for[waiter] = holder

\* check_cycle walks from holder along wait_for; it answers FALSE exactly when
\* the walk reaches a transaction that does not wait, having met neither the
\* waiter nor a transaction twice.
check_cycle(waiter, holder) ==
    ~ \E S \in SUBSET Tx : /\ holder \in S
                           /\ waiter \notin S
                           /\ Closed(S)
                           /\ Grounded(S)

\* A cell that nothing refers to: a new allocation.
FreshCells == Cells \ ({wait_cells[h].cell : h \in Tx} \cup {arc[t] : t \in Tx})

\* The entry of `holder` after one more waiter registered.
Registered(holder, c) ==
    IF wait_cells[holder].cell # None
    THEN [wait_cells[holder] EXCEPT !.count = @ + 1]
    ELSE [count |-> 1, cell |-> c]

\* Mutant of Unregistered: the first waiter that withdraws takes the cell away
\* from the others.
Unregistered_takes_cell(waiter) ==
    LET h == wait_for[waiter]
    IN  IF h = None THEN wait_cells ELSE [wait_cells EXCEPT ![h] = NoEntry]

\* wait_cells after `waiter` withdrew its edge.  The count is taken from
\* whatever cell the holder has now, which need not be the cell the waiter
\* was counted in.
Unregistered(waiter) ==
    LET h == wait_for[waiter]
    IN  IF h = None \/ wait_cells[h].cell = None THEN wait_cells
        ELSE IF wait_cells[h].count <= 1 THEN [wait_cells EXCEPT ![h] = NoEntry]
        ELSE [wait_cells EXCEPT ![h].count = @ - 1]

unregister_wait(waiter) ==
    /\ wait_for' = [wait_for EXCEPT ![waiter] = None]
    /\ wait_cells' = Unregistered(waiter)

----------------------------------------------------------------------------
(* Transaction::put / remove on a key another transaction holds. *)

MoveTo(t, p) == phase' = [phase EXCEPT ![t] = p]

begin(t) ==
    /\ phase[t] = "new"
    /\ active' = active \cup {t}
    /\ MoveTo(t, "run")
    /\ UNCHANGED <<target, wait_for, wait_cells, arc, released>>

\* The key is held by h and is_tx_active(h): the key guard is dropped.
conflict(t, h) ==
    /\ phase[t] = "run"
    /\ h # t
    /\ h \in active
    /\ target' = [target EXCEPT ![t] = h]
    /\ MoveTo(t, "conflict")
    /\ UNCHANGED <<active, wait_for, wait_cells, arc, released>>

register_wait(t) ==
    /\ phase[t] = "conflict"
    /\ ~ check_cycle(t, target[t])
    /\ wait_for' = [wait_for EXCEPT ![t] = target[t]]
    /\ \E c \in FreshCells :
          /\ wait_cells' = [wait_cells EXCEPT ![target[t]] = Registered(target[t], c)]
          /\ released' = released \ {c}
    /\ MoveTo(t, "edge")
    /\ UNCHANGED <<active, target, arc>>

\* register_wait returned the deadlock error: put rolls back before returning.
deadlock_error(t) ==
    /\ phase[t] = "conflict"
    /\ check_cycle(t, target[t])
    /\ MoveTo(t, "abort")
    /\ UNCHANGED <<active, target, wait_for, wait_cells, arc, released>>

\* No time is left for the query: rollback, with the edge still registered.
query_timeout(t) ==
    /\ phase[t] = "edge"
    /\ MoveTo(t, "abort")
    /\ UNCHANGED <<active, target, wait_for, wait_cells, arc, released>>

\* The second is_tx_active(holder), now that the edge is registered.
recheck_active(t) ==
    /\ phase[t] = "edge"
    /\ MoveTo(t, IF target[t] \in active THEN "cell" ELSE "woken")
    /\ UNCHANGED <<active, target, wait_for, wait_cells, arc, released>>

\* wait_timeout, first critical section: look the cell up.
fetch_cell(t) ==
    /\ phase[t] = "cell"
    /\ IF wait_cells[target[t]].cell = None
       THEN /\ MoveTo(t, "woken")
            /\ UNCHANGED arc
       ELSE /\ MoveTo(t, "sleep")
            /\ arc' = [arc EXCEPT ![t] = wait_cells[target[t]].cell]
    /\ UNCHANGED <<active, target, wait_for, wait_cells, released>>

\* wait_timeout returns *released.
wake(t) ==
    /\ phase[t] = "sleep"
    /\ arc[t] \in released
    /\ MoveTo(t, "woken")
    /\ arc' = [arc EXCEPT ![t] = None]
    /\ UNCHANGED <<active, target, wait_for, wait_cells, released>>

timeout(t) ==
    /\ phase[t] = "sleep"
    /\ arc[t] \notin released
    /\ MoveTo(t, "timedout")
    /\ arc' = [arc EXCEPT ![t] = None]
    /\ UNCHANGED <<active, target, wait_for, wait_cells, released>>

\* unregister_wait after the wait: put tries the key again, returns the lock
\* timeout with the transaction still open, or (query timeout) rolls back.
leave_wait(t, next) ==
    /\ \/ phase[t] = "woken" /\ next = "run"
       \/ phase[t] = "timedout" /\ next \in {"run", "abort"}
    /\ unregister_wait(t)
    /\ target' = [target EXCEPT ![t] = None]
    /\ MoveTo(t, next)
    /\ UNCHANGED <<active, arc, released>>

----------------------------------------------------------------------------
(* TransactionStore::remove_active_tx, at the end of commit and rollback:  *)
(* three critical sections.                                                *)

remove_active(t) ==
    /\ phase[t] \in {"run", "abort"}
    /\ active' = active \ {t}
    /\ MoveTo(t, "leaving")
    /\ UNCHANGED <<target, wait_for, wait_cells, arc, released>>

unregister_self(t) ==
    /\ phase[t] = "leaving"
    /\ unregister_wait(t)
    /\ target' = [target EXCEPT ![t] = None]
    /\ MoveTo(t, "notify")
    /\ UNCHANGED <<active, arc, released>>

\* The cell leaves the map, is marked released and its waiters are notified.
notify_lock_released(t) ==
    /\ phase[t] = "notify"
    /\ wait_cells' = [wait_cells EXCEPT ![t] = NoEntry]
    /\ released' = released \cup ({wait_cells[t].cell} \ {None})
    /\ MoveTo(t, "done")
    /\ UNCHANGED <<active, target, wait_for, arc>>

----------------------------------------------------------------------------

LockNext ==
    \E t \in Tx :
        \/ begin(t)
        \/ \E h \in Tx : conflict(t, h)
        \/ register_wait(t) \/ deadlock_error(t) \/ query_timeout(t)
        \/ recheck_active(t) \/ fetch_cell(t) \/ wake(t) \/ timeout(t)
        \/ \E next \in {"run", "abort"} : leave_wait(t, next)
        \/ remove_active(t) \/ unregister_self(t) \/ notify_lock_released(t)

LockSpec == LockInit /\ [][LockNext]_lockVars

----------------------------------------------------------------------------
(* Properties. *)

\* The wait-for graph has no cycle: there is always a transaction that waits
\* for nobody, so the waiters of put/remove cannot all wait for each other.
WaitForAcyclic == Grounded(Tx)

\* A thread asleep while its holder has not finished sleeps on the very cell
\* that the holder will take out of the map and release in
\* notify_lock_released, whatever other waiters registered, timed out or
\* withdrew in between; and the count of a cell never exceeds the edges that
\* point to its holder, so the last unregister_wait frees the entry.
SleepersWillBeNotified ==
    /\ \A t \in Tx :
          phase[t] = "sleep" /\ phase[target[t]] # "done" =>
              /\ target[t] # None
              /\ wait_cells[target[t]].cell = arc[t]
              /\ arc[t] \notin released
    /\ \A h \in Tx :
          wait_cells[h].cell # None =>
              wait_cells[h].count \in 1 .. Cardinality({t \in Tx : wait_for[t] = h})

\* A transaction on its way out waits for nobody once it has withdrawn its
\* edge, so no later check_cycle follows a path through it.
FinishedLeaveGraph == \A t \in Tx : phase[t] \in {"notify", "done"} => wait_for[t] = None

============================================================================
