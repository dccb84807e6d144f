------------------------- MODULE TransactionsProofs -------------------------
(***************************************************************************)
(* Proofs about the lock-wait protocol and about transactions, for any     *)
(* transactions, keys and bounds and any supply of wait cells.             *)
(*                                                                         *)
(* The protocol comes first, by itself: WaitForAcyclic is not inductive,   *)
(* for register_wait adds the edge from t to target[t] knowing only that   *)
(* the walk from target[t] ends without meeting t.  That keeps the graph   *)
(* acyclic because t has no earlier edge, which is what EdgeInv records    *)
(* along the phases of put.                                                *)
(*                                                                         *)
(* Every step of a transaction is, as far as locks are concerned, a step   *)
(* of the wait protocol or none, so what is shown of the protocol holds    *)
(* of the transactions.                                                    *)
(***************************************************************************)
EXTENDS Transactions, FiniteSetTheorems, SequenceTheorems, TLAPS

\* Where a thread stands decides whether it has an edge, and to whom.
EdgeInv ==
    \A t \in Tx :
        /\ phase[t] \in {"new", "run", "conflict", "notify", "done"} => wait_for[t] = None
        /\ phase[t] = "conflict" => target[t] \in Tx
        /\ phase[t] \in {"edge", "cell", "sleep", "woken", "timedout"} =>
              target[t] \in Tx /\ wait_for[t] = target[t]

AcyclicInv == LockTypeOK /\ EdgeInv /\ WaitForAcyclic

----------------------------------------------------------------------------
(* The wait-for graph. *)

\* A new edge from w to h keeps the graph acyclic when w had no edge and the
\* walk from h ends without meeting w: what register_wait relies on.
LEMMA AddEdgeAcyclic ==
    ASSUME NEW w \in Tx, NEW h \in Tx,
           wait_for \in [Tx -> Tx \cup {None}],
           wait_for[w] = None,
           ~ check_cycle(w, h),
           WaitForAcyclic,
           wait_for' = [wait_for EXCEPT ![w] = h]
    PROVE  WaitForAcyclic'
<1>1. PICK S \in SUBSET Tx : h \in S /\ w \notin S /\ Closed(S) /\ Grounded(S)
  BY DEF check_cycle
<1> SUFFICES ASSUME NEW C \in SUBSET Tx, C # {}
             PROVE  \E x \in C : wait_for'[x] \notin C
  BY DEF WaitForAcyclic, Grounded
<1>2. CASE w \notin C
  <2>1. PICK x \in C : wait_for[x] \notin C
    BY DEF WaitForAcyclic, Grounded
  <2>2. wait_for'[x] = wait_for[x]
    BY <1>2, <2>1
  <2> QED  BY <2>1, <2>2
<1>3. CASE w \in C /\ h \notin C
  BY <1>3
<1>4. CASE w \in C /\ h \in C
  <2>1. C \cap S \in SUBSET S /\ C \cap S # {}
    BY <1>1, <1>4
  <2>2. PICK x \in C \cap S : wait_for[x] \notin C \cap S
    BY <1>1, <2>1 DEF Grounded
  <2>3. wait_for[x] \notin C
    <3>1. CASE wait_for[x] = None
      BY <3>1, NoneAssumption
    <3>2. CASE wait_for[x] # None
      BY <1>1, <2>2, <3>2 DEF Closed
    <3> QED  BY <3>1, <3>2
  <2>4. x \in Tx /\ x # w
    BY <1>1, <2>2
  <2>5. wait_for'[x] = wait_for[x]
    BY <2>4
  <2> QED  BY <2>2, <2>3, <2>5
<1> QED  BY <1>2, <1>3, <1>4

\* Dropping the edge of a transaction keeps the graph acyclic.
LEMMA DropEdgeAcyclic ==
    ASSUME NEW w \in Tx,
           wait_for \in [Tx -> Tx \cup {None}],
           WaitForAcyclic,
           wait_for' = [wait_for EXCEPT ![w] = None]
    PROVE  WaitForAcyclic'
<1> SUFFICES ASSUME NEW C \in SUBSET Tx, C # {}
             PROVE  \E x \in C : wait_for'[x] \notin C
  BY DEF WaitForAcyclic, Grounded
<1>1. PICK x \in C : wait_for[x] \notin C
  BY DEF WaitForAcyclic, Grounded
<1>2. CASE x = w
  BY <1>2, NoneAssumption
<1>3. CASE x # w
  BY <1>1, <1>3
<1> QED  BY <1>2, <1>3

----------------------------------------------------------------------------
(* Type correctness. *)

\* unregister_wait keeps the types of the two maps of WaitState.
LEMMA UnregisterType ==
    ASSUME NEW t \in Tx, LockTypeOK, unregister_wait(t)
    PROVE  /\ wait_for' \in [Tx -> Tx \cup {None}]
           /\ wait_cells' \in [Tx -> [count : Nat, cell : Cells \cup {None}]]
<1>1. wait_for' \in [Tx -> Tx \cup {None}]
  BY DEF LockTypeOK, unregister_wait
<1>2. CASE wait_for[t] = None \/ wait_cells[wait_for[t]].cell = None
  BY <1>1, <1>2 DEF LockTypeOK, unregister_wait, Unregistered
<1>3. CASE wait_for[t] # None /\ wait_cells[wait_for[t]].cell # None
  <2>1. wait_for[t] \in Tx
    BY <1>3 DEF LockTypeOK
  <2> QED  BY <1>1, <1>3, <2>1 DEF LockTypeOK, unregister_wait, Unregistered, NoEntry
<1> QED  BY <1>2, <1>3

\* Every initial state is well typed.
LEMMA InitType == LockInit => LockTypeOK
  BY DEF LockInit, LockTypeOK, Phases, NoEntry

\* Every step of the protocol keeps the types.
LEMMA StepType ==
    ASSUME LockTypeOK, EdgeInv, [LockNext]_lockVars
    PROVE  LockTypeOK'
<1> USE DEF Phases, MoveTo
<1>0. CASE UNCHANGED lockVars
  BY <1>0 DEF LockTypeOK, lockVars
<1> SUFFICES ASSUME NEW t \in Tx,
                    \/ begin(t)
                    \/ \E h \in Tx : conflict(t, h)
                    \/ register_wait(t) \/ deadlock_error(t) \/ query_timeout(t)
                    \/ recheck_active(t) \/ fetch_cell(t) \/ wake(t) \/ timeout(t)
                    \/ \E next \in {"run", "abort"} : leave_wait(t, next)
                    \/ remove_active(t) \/ unregister_self(t) \/ notify_lock_released(t)
             PROVE  LockTypeOK'
  BY <1>0 DEF LockNext
<1>1. CASE begin(t)
  BY <1>1 DEF LockTypeOK, begin
<1>2. CASE \E h \in Tx : conflict(t, h)
  BY <1>2 DEF LockTypeOK, conflict
<1>3. CASE register_wait(t)
  <2>1. target[t] \in Tx
    BY <1>3 DEF register_wait, EdgeInv
  <2>2. PICK c \in FreshCells :
           /\ wait_cells' = [wait_cells EXCEPT ![target[t]] = Registered(target[t], c)]
           /\ released' = released \ {c}
    BY <1>3 DEF register_wait
  <2>3. c \in Cells
    BY <2>2 DEF FreshCells
  <2>4. Registered(target[t], c) \in [count : Nat, cell : Cells \cup {None}]
    BY <2>1, <2>3 DEF Registered, LockTypeOK
  <2>5. wait_cells' \in [Tx -> [count : Nat, cell : Cells \cup {None}]]
    BY <2>1, <2>2, <2>4 DEF LockTypeOK
  <2> QED  BY <1>3, <2>1, <2>2, <2>5 DEF LockTypeOK, register_wait
<1>4. CASE deadlock_error(t) \/ query_timeout(t) \/ recheck_active(t)
  BY <1>4 DEF LockTypeOK, deadlock_error, query_timeout, recheck_active
<1>5. CASE fetch_cell(t)
  <2>1. target[t] \in Tx
    BY <1>5 DEF fetch_cell, EdgeInv
  <2> QED  BY <1>5, <2>1 DEF LockTypeOK, fetch_cell
<1>6. CASE wake(t) \/ timeout(t)
  BY <1>6 DEF LockTypeOK, wake, timeout
<1>7. CASE \E next \in {"run", "abort"} : leave_wait(t, next)
  <2>1. unregister_wait(t)
    BY <1>7 DEF leave_wait
  <2> QED  BY <1>7, <2>1, UnregisterType DEF LockTypeOK, leave_wait
<1>8. CASE remove_active(t)
  BY <1>8 DEF LockTypeOK, remove_active
<1>9. CASE unregister_self(t)
  BY <1>9, UnregisterType DEF LockTypeOK, unregister_self
<1>10. CASE notify_lock_released(t)
  BY <1>10 DEF LockTypeOK, notify_lock_released, NoEntry
<1> QED
  BY <1>1, <1>2, <1>3, <1>4, <1>5, <1>6, <1>7, <1>8, <1>9, <1>10

----------------------------------------------------------------------------
(* The edges follow the phases. *)

\* Every step keeps the agreement between phases, edges and the active table:
\* put only waits between register_wait and unregister_wait.
LEMMA StepEdge ==
    ASSUME LockTypeOK, EdgeInv, [LockNext]_lockVars
    PROVE  EdgeInv'
<1> USE DEF MoveTo
<1>0. CASE UNCHANGED lockVars
  BY <1>0 DEF EdgeInv, lockVars
<1> SUFFICES ASSUME NEW t \in Tx,
                    \/ begin(t)
                    \/ \E h \in Tx : conflict(t, h)
                    \/ register_wait(t) \/ deadlock_error(t) \/ query_timeout(t)
                    \/ recheck_active(t) \/ fetch_cell(t) \/ wake(t) \/ timeout(t)
                    \/ \E next \in {"run", "abort"} : leave_wait(t, next)
                    \/ remove_active(t) \/ unregister_self(t) \/ notify_lock_released(t)
             PROVE  EdgeInv'
  BY <1>0 DEF LockNext
<1>1. CASE begin(t)
  BY <1>1 DEF LockTypeOK, EdgeInv, begin
<1>2. CASE \E h \in Tx : conflict(t, h)
  BY <1>2 DEF LockTypeOK, EdgeInv, conflict
<1>3. CASE register_wait(t)
  BY <1>3 DEF LockTypeOK, EdgeInv, register_wait
<1>4. CASE deadlock_error(t) \/ query_timeout(t) \/ recheck_active(t)
  BY <1>4 DEF LockTypeOK, EdgeInv, deadlock_error, query_timeout, recheck_active
<1>5. CASE fetch_cell(t) \/ wake(t) \/ timeout(t)
  BY <1>5 DEF LockTypeOK, EdgeInv, fetch_cell, wake, timeout
<1>6. CASE \E next \in {"run", "abort"} : leave_wait(t, next)
  BY <1>6 DEF LockTypeOK, EdgeInv, leave_wait, unregister_wait
<1>7. CASE remove_active(t)
  BY <1>7 DEF LockTypeOK, EdgeInv, remove_active
<1>8. CASE unregister_self(t)
  BY <1>8 DEF LockTypeOK, EdgeInv, unregister_self, unregister_wait
<1>9. CASE notify_lock_released(t)
  BY <1>9 DEF LockTypeOK, EdgeInv, notify_lock_released
<1> QED  BY <1>1, <1>2, <1>3, <1>4, <1>5, <1>6, <1>7, <1>8, <1>9

----------------------------------------------------------------------------
(* The theorems. *)

\* Every step keeps the graph acyclic: edges are added by register_wait only,
\* behind check_cycle.
LEMMA StepAcyclic ==
    ASSUME AcyclicInv, [LockNext]_lockVars
    PROVE  WaitForAcyclic'
<1> USE DEF AcyclicInv
<1>0. CASE wait_for' = wait_for
  BY <1>0 DEF WaitForAcyclic, Grounded
<1>1. ASSUME NEW t \in Tx, register_wait(t)
      PROVE  WaitForAcyclic'
  <2>1. target[t] \in Tx /\ wait_for[t] = None
    BY <1>1 DEF register_wait, EdgeInv
  <2>2. ~ check_cycle(t, target[t]) /\ wait_for' = [wait_for EXCEPT ![t] = target[t]]
    BY <1>1 DEF register_wait
  <2> QED  BY <2>1, <2>2, AddEdgeAcyclic DEF LockTypeOK
<1>2. ASSUME NEW t \in Tx, unregister_wait(t)
      PROVE  WaitForAcyclic'
  BY <1>2, DropEdgeAcyclic DEF unregister_wait, LockTypeOK
<1>3. \/ wait_for' = wait_for
      \/ \E t \in Tx : register_wait(t)
      \/ \E t \in Tx : unregister_wait(t)
  BY DEF LockNext, lockVars, begin, conflict, deadlock_error, query_timeout,
         recheck_active, fetch_cell, wake, timeout, leave_wait, remove_active,
         unregister_self, notify_lock_released
<1> QED  BY <1>0, <1>1, <1>2, <1>3

\* The inductive invariant holds in every reachable state.
THEOREM AcyclicInvariant == LockSpec => []AcyclicInv
<1>1. LockInit => AcyclicInv
  <2> SUFFICES ASSUME LockInit PROVE AcyclicInv
    OBVIOUS
  <2>1. LockTypeOK
    BY InitType
  <2>2. EdgeInv
    BY DEF LockInit, EdgeInv
  <2>3. WaitForAcyclic
    BY NoneAssumption DEF LockInit, WaitForAcyclic, Grounded
  <2> QED  BY <2>1, <2>2, <2>3 DEF AcyclicInv
<1>2. AcyclicInv /\ [LockNext]_lockVars => AcyclicInv'
  <2> SUFFICES ASSUME AcyclicInv, [LockNext]_lockVars PROVE AcyclicInv'
    OBVIOUS
  <2> QED  BY StepType, StepEdge, StepAcyclic DEF AcyclicInv
<1> QED  BY <1>1, <1>2, PTL DEF LockSpec

\* Every state of the wait protocol is well typed: in particular no count of
\* waiters is ever reduced below zero by unregister_wait.
THEOREM LockTypeCorrect == LockSpec => []LockTypeOK
<1>1. AcyclicInv => LockTypeOK
  BY DEF AcyclicInv
<1> QED  BY <1>1, AcyclicInvariant, PTL

\* Deadlock detection is complete: for any number of transactions, whatever
\* waits register, time out or are withdrawn concurrently, the wait-for graph
\* that register_wait maintains never contains a cycle.
THEOREM NoDeadlockedWaiters == LockSpec => []WaitForAcyclic
<1>1. AcyclicInv => WaitForAcyclic
  BY DEF AcyclicInv
<1> QED  BY <1>1, AcyclicInvariant, PTL

\* A transaction that has left (remove_active_tx) leaves no edge behind.
THEOREM FinishedHaveNoEdge == LockSpec => []FinishedLeaveGraph
<1>1. AcyclicInv => FinishedLeaveGraph
  BY DEF AcyclicInv, EdgeInv, FinishedLeaveGraph
<1> QED  BY <1>1, AcyclicInvariant, PTL

----------------------------------------------------------------------------
(* Wait cells.                                                             *)
(*                                                                         *)
(* SleepersWillBeNotified needs the exact count: unregister_wait frees the *)
(* entry of a holder when the count drops to zero, and that is the last    *)
(* waiter only if every edge to the holder was counted in this very cell.  *)
(* So it is until notify_lock_released has taken the cell out; afterwards  *)
(* late waiters get a cell of their own and only the bound remains.        *)

Waiters(h) == {t \in Tx : wait_for[t] = h}

CountInv ==
    \A h \in Tx :
        /\ IsFiniteSet(Waiters(h))
        /\ phase[h] # "done" => wait_cells[h].count = Cardinality(Waiters(h))
        /\ phase[h] # "done" /\ wait_cells[h].cell = None => wait_cells[h].count = 0
        /\ wait_cells[h].cell # None => wait_cells[h].count \in 1 .. Cardinality(Waiters(h))

\* No cell in the map has been released, and no two holders share one.
CellInv ==
    /\ \A h \in Tx : wait_cells[h].cell \notin released
    /\ \A g, h \in Tx : wait_cells[g].cell = wait_cells[h].cell => g = h \/ wait_cells[g].cell = None

SleepInv ==
    \A t \in Tx : phase[t] = "sleep" /\ phase[target[t]] # "done" => wait_cells[target[t]].cell = arc[t]

WaitCellInv == LockTypeOK /\ EdgeInv /\ CountInv /\ CellInv /\ SleepInv

\* The steps that touch neither the two maps of WaitState nor the cells: they
\* finish no transaction and let none fall asleep.
PlainStep ==
    /\ UNCHANGED <<wait_for, wait_cells, released>>
    /\ \A t \in Tx : /\ phase'[t] = "done" <=> phase[t] = "done"
                     /\ phase'[t] = "sleep" =>
                           phase[t] = "sleep" /\ arc'[t] = arc[t] /\ target'[t] = target[t]

\* The kinds of steps of the wait protocol.
LEMMA LockStepKinds ==
    ASSUME LockTypeOK, EdgeInv, [LockNext]_lockVars
    PROVE  \/ PlainStep
           \/ \E t \in Tx : register_wait(t) \/ fetch_cell(t) \/ notify_lock_released(t)
           \/ \E t \in Tx : \E next \in {"run", "abort"} : leave_wait(t, next)
           \/ \E t \in Tx : unregister_self(t)
<1> USE DEF MoveTo, PlainStep, LockTypeOK
<1>1. CASE UNCHANGED lockVars
  BY <1>1 DEF lockVars
<1>2. ASSUME NEW t \in Tx, begin(t) \/ deadlock_error(t) \/ query_timeout(t) \/ remove_active(t)
      PROVE  PlainStep
  BY <1>2 DEF begin, deadlock_error, query_timeout, remove_active
<1>3. ASSUME NEW t \in Tx, NEW h \in Tx, conflict(t, h) PROVE PlainStep
  BY <1>3 DEF conflict
<1>4. ASSUME NEW t \in Tx, recheck_active(t) PROVE PlainStep
  BY <1>4 DEF recheck_active
<1>5. ASSUME NEW t \in Tx, wake(t) \/ timeout(t) PROVE PlainStep
  BY <1>5 DEF wake, timeout
<1> HIDE DEF PlainStep
<1> QED  BY <1>1, <1>2, <1>3, <1>4, <1>5 DEF LockNext

\* A plain step keeps what is said about cells.
LEMMA PlainKeeps ==
    ASSUME WaitCellInv, PlainStep
    PROVE  CountInv' /\ CellInv' /\ SleepInv'
<1>1. \A h \in Tx : Waiters(h)' = Waiters(h)
  BY DEF PlainStep, Waiters
<1>2. CountInv'
  BY <1>1 DEF PlainStep, WaitCellInv, CountInv
<1>3. CellInv'
  BY DEF PlainStep, WaitCellInv, CellInv
<1>4. SleepInv'
  <2> SUFFICES ASSUME NEW t \in Tx, phase'[t] = "sleep", phase'[target'[t]] # "done"
               PROVE  wait_cells'[target'[t]].cell = arc'[t]
    BY DEF SleepInv
  <2>1. phase[t] = "sleep" /\ arc'[t] = arc[t] /\ target'[t] = target[t] /\ target[t] \in Tx
    BY DEF PlainStep, WaitCellInv, EdgeInv
  <2>2. phase[target[t]] # "done"
    BY <2>1 DEF PlainStep
  <2> QED  BY <2>1, <2>2 DEF PlainStep, WaitCellInv, SleepInv
<1> QED  BY <1>2, <1>3, <1>4

\* register_wait counts its new edge, in the cell of the holder or in a new one.
LEMMA RegisterKeeps ==
    ASSUME WaitCellInv, NEW t \in Tx, register_wait(t)
    PROVE  CountInv' /\ CellInv' /\ SleepInv'
<1>0. PICK h : h = target[t]
  OBVIOUS
<1>1. /\ h \in Tx /\ wait_for[t] = None /\ phase[t] = "conflict"
      /\ wait_for' = [wait_for EXCEPT ![t] = h] /\ phase' = [phase EXCEPT ![t] = "edge"]
      /\ UNCHANGED <<target, arc>>
  BY <1>0 DEF register_wait, MoveTo, WaitCellInv, EdgeInv
<1>2. PICK c \in FreshCells :
         /\ wait_cells' = [wait_cells EXCEPT ![h] = Registered(h, c)]
         /\ released' = released \ {c}
  BY <1>0 DEF register_wait
<1>3. /\ c \in Cells /\ c # None
      /\ \A g \in Tx : wait_cells[g].cell # c /\ arc[g] # c
  BY <1>2, NoneAssumption DEF FreshCells
<1>4. /\ wait_cells \in [Tx -> [count : Nat, cell : Cells \cup {None}]]
      /\ wait_for \in [Tx -> Tx \cup {None}] /\ phase \in [Tx -> Phases]
  BY DEF WaitCellInv, LockTypeOK
<1>5. /\ wait_cells'[h].cell = IF wait_cells[h].cell = None THEN c ELSE wait_cells[h].cell
      /\ wait_cells'[h].count = IF wait_cells[h].cell = None THEN 1 ELSE wait_cells[h].count + 1
      /\ \A g \in Tx : g # h => wait_cells'[g] = wait_cells[g]
  BY <1>1, <1>2, <1>4 DEF Registered
<1>6. /\ Waiters(h)' = Waiters(h) \cup {t} /\ t \notin Waiters(h)
      /\ \A g \in Tx : g # h => Waiters(g)' = Waiters(g)
  BY <1>1, <1>4, NoneAssumption DEF Waiters
<1>7. \A g \in Tx : (phase'[g] = "done" <=> phase[g] = "done") /\ (phase'[g] = "sleep" => phase[g] = "sleep")
  BY <1>1, <1>4
<1>8. CountInv'
  <2> SUFFICES ASSUME NEW g \in Tx
               PROVE  /\ IsFiniteSet(Waiters(g)')
                      /\ phase'[g] # "done" => wait_cells'[g].count = Cardinality(Waiters(g)')
                      /\ phase'[g] # "done" /\ wait_cells'[g].cell = None => wait_cells'[g].count = 0
                      /\ wait_cells'[g].cell # None => wait_cells'[g].count \in 1 .. Cardinality(Waiters(g)')
    BY DEF CountInv
  <2>1. CASE g # h
    BY <1>5, <1>6, <1>7, <2>1 DEF WaitCellInv, CountInv
  <2>2. CASE g = h
    <3>1. IsFiniteSet(Waiters(h)) /\ Cardinality(Waiters(h)) \in Nat
      BY <1>1, FS_CardinalityType DEF WaitCellInv, CountInv
    <3>2. IsFiniteSet(Waiters(h)') /\ Cardinality(Waiters(h)') = Cardinality(Waiters(h)) + 1
      BY <1>6, <3>1, FS_AddElement
    <3>3. /\ wait_cells[h].count \in Nat
          /\ phase[h] # "done" => wait_cells[h].count = Cardinality(Waiters(h))
          /\ phase[h] # "done" /\ wait_cells[h].cell = None => wait_cells[h].count = 0
          /\ wait_cells[h].cell # None => wait_cells[h].count \in 1 .. Cardinality(Waiters(h))
      BY <1>1, <1>4 DEF WaitCellInv, CountInv
    <3>4. CASE wait_cells[h].cell = None
      BY <1>1, <1>3, <1>5, <1>7, <2>2, <3>1, <3>2, <3>3, <3>4
    <3>5. CASE wait_cells[h].cell # None
      BY <1>1, <1>3, <1>5, <1>7, <2>2, <3>1, <3>2, <3>3, <3>5
    <3> QED  BY <3>4, <3>5
  <2> QED  BY <2>1, <2>2
<1>9. CellInv'
  BY <1>1, <1>2, <1>3, <1>5 DEF WaitCellInv, CellInv
<1>10. SleepInv'
  <2> SUFFICES ASSUME NEW u \in Tx, phase'[u] = "sleep", phase'[target'[u]] # "done"
               PROVE  wait_cells'[target'[u]].cell = arc'[u]
    BY DEF SleepInv
  <2>1. phase[u] = "sleep" /\ target[u] \in Tx /\ wait_for[u] = target[u] /\ phase[target[u]] # "done"
    BY <1>1, <1>7 DEF WaitCellInv, EdgeInv
  <2>2. wait_cells[target[u]].cell = arc[u]
    BY <2>1 DEF WaitCellInv, SleepInv
  <2>3. wait_cells[target[u]].cell # None
    <3>1. u \in Waiters(target[u]) /\ IsFiniteSet(Waiters(target[u]))
      BY <2>1 DEF Waiters, WaitCellInv, CountInv
    <3>2. Cardinality(Waiters(target[u])) # 0
      BY <3>1, FS_EmptySet
    <3> QED  BY <2>1, <3>2 DEF WaitCellInv, CountInv
  <2> QED  BY <1>1, <1>5, <2>1, <2>2, <2>3
<1> QED  BY <1>8, <1>9, <1>10

\* unregister_wait frees the entry of a holder only with its last edge.
LEMMA UnregisterKeeps ==
    ASSUME WaitCellInv, NEW t \in Tx, unregister_wait(t), UNCHANGED <<arc, released>>,
           phase[t] # "sleep",
           \A u \in Tx : /\ phase'[u] = "done" <=> phase[u] = "done"
                         /\ phase'[u] = "sleep" => phase[u] = "sleep" /\ target'[u] = target[u]
    PROVE  CountInv' /\ CellInv' /\ SleepInv'
<1>0. PICK h : h = wait_for[t]
  OBVIOUS
<1>1. /\ wait_cells \in [Tx -> [count : Nat, cell : Cells \cup {None}]]
      /\ wait_for \in [Tx -> Tx \cup {None}]
  BY DEF WaitCellInv, LockTypeOK
<1>2. wait_for' = [wait_for EXCEPT ![t] = None] /\ wait_cells' = Unregistered(t)
  BY DEF unregister_wait
<1>3. \A g \in Tx : Waiters(g)' = Waiters(g) \ {t}
  BY <1>1, <1>2, NoneAssumption DEF Waiters
<1>4. \A g \in Tx : IsFiniteSet(Waiters(g)) /\ Cardinality(Waiters(g)) \in Nat
  BY FS_CardinalityType DEF WaitCellInv, CountInv
<1>5. \A g \in Tx : g # h => wait_cells'[g] = wait_cells[g] /\ Waiters(g)' = Waiters(g)
  <2>1. \A g \in Tx : g # h => wait_cells'[g] = wait_cells[g]
    BY <1>0, <1>1, <1>2 DEF Unregistered
  <2>2. \A g \in Tx : g # h => Waiters(g)' = Waiters(g)
    BY <1>0, <1>3 DEF Waiters
  <2> QED  BY <2>1, <2>2
<1>6. ASSUME h \in Tx
      PROVE  /\ t \in Waiters(h)
             /\ IsFiniteSet(Waiters(h)') /\ Cardinality(Waiters(h)') = Cardinality(Waiters(h)) - 1
             /\ Cardinality(Waiters(h)) >= 1
             /\ wait_cells[h].cell = None \/ wait_cells[h].count <= 1 =>
                   /\ wait_cells'[h].cell = None
                   /\ wait_cells'[h].count # 0 => wait_cells[h].cell = None /\ wait_cells'[h] = wait_cells[h]
             /\ wait_cells[h].cell # None /\ wait_cells[h].count > 1 =>
                   wait_cells'[h].cell = wait_cells[h].cell /\ wait_cells'[h].count = wait_cells[h].count - 1
  <2>1. t \in Waiters(h)
    BY <1>0 DEF Waiters
  <2>2. IsFiniteSet(Waiters(h)') /\ Cardinality(Waiters(h)') = Cardinality(Waiters(h)) - 1
    BY <1>3, <1>4, <1>6, <2>1, FS_RemoveElement
  <2>3. Cardinality(Waiters(h)) >= 1
    <3>1. Cardinality(Waiters(h)) # 0
      BY <1>4, <1>6, <2>1, FS_EmptySet
    <3> QED  BY <1>4, <1>6, <3>1
  <2>4. h # None
    BY <1>6, NoneAssumption
  <2>5. wait_cells[h].count \in Nat
    BY <1>1, <1>6
  <2>6. CASE wait_cells[h].cell = None
    BY <1>0, <1>1, <1>2, <1>6, <2>1, <2>2, <2>3, <2>6 DEF Unregistered
  <2>7. CASE wait_cells[h].cell # None /\ wait_cells[h].count <= 1
    <3>1. wait_cells' = [wait_cells EXCEPT ![h] = NoEntry]
      BY <1>0, <1>2, <2>4, <2>7 DEF Unregistered
    <3>2. wait_cells'[h].cell = None /\ wait_cells'[h].count = 0
      BY <1>1, <1>6, <3>1 DEF NoEntry
    <3>3. ~(wait_cells[h].count > 1)
      BY <2>5, <2>7
    <3> QED  BY <2>1, <2>2, <2>3, <3>2, <3>3
  <2>8. CASE wait_cells[h].cell # None /\ wait_cells[h].count > 1
    BY <1>0, <1>1, <1>2, <1>6, <2>1, <2>2, <2>3, <2>4, <2>5, <2>8 DEF Unregistered
  <2> QED  BY <2>5, <2>6, <2>7, <2>8
<1>7. CountInv'
  <2> SUFFICES ASSUME NEW g \in Tx
               PROVE  /\ IsFiniteSet(Waiters(g)')
                      /\ phase'[g] # "done" => wait_cells'[g].count = Cardinality(Waiters(g)')
                      /\ phase'[g] # "done" /\ wait_cells'[g].cell = None => wait_cells'[g].count = 0
                      /\ wait_cells'[g].cell # None => wait_cells'[g].count \in 1 .. Cardinality(Waiters(g)')
    BY DEF CountInv
  <2>1. CASE g # h
    BY <1>5, <2>1 DEF WaitCellInv, CountInv
  <2>2. CASE g = h
    <3>1. /\ wait_cells[h].count \in Nat
          /\ phase[h] # "done" => wait_cells[h].count = Cardinality(Waiters(h))
          /\ phase[h] # "done" /\ wait_cells[h].cell = None => wait_cells[h].count = 0
          /\ wait_cells[h].cell # None => wait_cells[h].count \in 1 .. Cardinality(Waiters(h))
      BY <1>1, <2>2 DEF WaitCellInv, CountInv
    <3>2. Cardinality(Waiters(h)) \in Nat
      BY <1>4, <2>2
    <3>3. CASE wait_cells[h].cell = None \/ wait_cells[h].count <= 1
      BY <1>6, <2>2, <3>1, <3>2, <3>3
    <3>4. CASE wait_cells[h].cell # None /\ wait_cells[h].count > 1
      BY <1>6, <2>2, <3>1, <3>2, <3>4
    <3> QED  BY <3>1, <3>3, <3>4
  <2> QED  BY <2>1, <2>2
<1>8. \A g \in Tx : wait_cells'[g].cell = wait_cells[g].cell \/ wait_cells'[g].cell = None
  <2>1. \A g \in Tx : wait_cells[g].count \in Nat
    BY <1>1
  <2> QED  BY <1>5, <1>6, <2>1
<1>9. CellInv'
  BY <1>8, NoneAssumption DEF WaitCellInv, CellInv, LockTypeOK
<1>10. SleepInv'
  <2> SUFFICES ASSUME NEW u \in Tx, phase'[u] = "sleep", phase'[target'[u]] # "done"
               PROVE  wait_cells'[target'[u]].cell = arc'[u]
    BY DEF SleepInv
  <2>1. phase[u] = "sleep" /\ target'[u] = target[u] /\ target[u] \in Tx /\ wait_for[u] = target[u]
    BY DEF WaitCellInv, EdgeInv
  <2>2. phase[target[u]] # "done" /\ wait_cells[target[u]].cell = arc[u] /\ u # t
    BY <2>1 DEF WaitCellInv, SleepInv
  <2>3. CASE target[u] # h
    BY <1>5, <2>1, <2>2, <2>3
  <2>4. CASE target[u] = h
    <3>1. u \in Waiters(h)'
      BY <1>3, <2>1, <2>2, <2>4 DEF Waiters
    <3>2. Cardinality(Waiters(h)') # 0
      BY <1>6, <2>1, <2>4, <3>1, FS_EmptySet
    <3>3. wait_cells[h].count = Cardinality(Waiters(h)) /\ wait_cells[h].count \in Nat
      BY <1>1, <2>1, <2>2, <2>4 DEF WaitCellInv, CountInv
    <3>4. wait_cells[h].count > 1
      BY <1>6, <2>1, <2>4, <3>2, <3>3
    <3>5. wait_cells[h].cell # None
      BY <2>1, <2>2, <2>4, <3>3, <3>4 DEF WaitCellInv, CountInv
    <3> QED  BY <1>6, <2>1, <2>2, <2>4, <3>4, <3>5
  <2> QED  BY <2>3, <2>4
<1> QED  BY <1>7, <1>9, <1>10

\* notify_lock_released takes out the cell of its own transaction and no other.
LEMMA NotifyKeeps ==
    ASSUME WaitCellInv, NEW t \in Tx, notify_lock_released(t)
    PROVE  CountInv' /\ CellInv' /\ SleepInv'
<1>1. /\ wait_cells \in [Tx -> [count : Nat, cell : Cells \cup {None}]]
      /\ phase \in [Tx -> Phases] /\ released \subseteq Cells
  BY DEF WaitCellInv, LockTypeOK
<1>2. /\ wait_cells'[t].cell = None /\ wait_cells'[t].count = 0
      /\ \A g \in Tx : g # t => wait_cells'[g] = wait_cells[g]
      /\ released' = released \cup ({wait_cells[t].cell} \ {None})
      /\ phase'[t] = "done" /\ \A g \in Tx : g # t => phase'[g] = phase[g]
      /\ UNCHANGED <<target, wait_for, arc>>
  BY <1>1 DEF notify_lock_released, MoveTo, NoEntry
<1>3. \A g \in Tx : Waiters(g)' = Waiters(g)
  BY <1>2 DEF Waiters
<1>4. CountInv'
  BY <1>2, <1>3 DEF WaitCellInv, CountInv
<1>5. CellInv'
  <2>1. ASSUME NEW g \in Tx PROVE wait_cells'[g].cell \notin released'
    <3>1. CASE g = t
      BY <1>1, <1>2, <3>1, NoneAssumption
    <3>2. CASE g # t
      BY <1>2, <3>2 DEF WaitCellInv, CellInv
    <3> QED  BY <3>1, <3>2
  <2>2. ASSUME NEW g \in Tx, NEW h \in Tx, wait_cells'[g].cell = wait_cells'[h].cell
        PROVE  g = h \/ wait_cells'[g].cell = None
    BY <1>2, <2>2 DEF WaitCellInv, CellInv
  <2> QED  BY <2>1, <2>2 DEF CellInv
<1>6. SleepInv'
  <2> SUFFICES ASSUME NEW u \in Tx, phase'[u] = "sleep", phase'[target'[u]] # "done"
               PROVE  wait_cells'[target'[u]].cell = arc'[u]
    BY DEF SleepInv
  <2>1. phase[u] = "sleep" /\ target[u] \in Tx /\ target[u] # t
    BY <1>2 DEF WaitCellInv, EdgeInv
  <2> QED  BY <1>2, <2>1 DEF WaitCellInv, SleepInv
<1> QED  BY <1>4, <1>5, <1>6

\* The waiter takes the cell its holder has at that moment.
LEMMA FetchKeeps ==
    ASSUME WaitCellInv, NEW t \in Tx, fetch_cell(t)
    PROVE  CountInv' /\ CellInv' /\ SleepInv'
<1>1. phase \in [Tx -> Phases] /\ arc \in [Tx -> Cells \cup {None}] /\ target[t] \in Tx
  BY DEF WaitCellInv, LockTypeOK, EdgeInv, fetch_cell
<1>2. /\ UNCHANGED <<target, wait_for, wait_cells, released>>
      /\ \A g \in Tx : phase'[g] = "done" <=> phase[g] = "done"
      /\ \A g \in Tx : g # t => phase'[g] = phase[g] /\ arc'[g] = arc[g]
      /\ phase'[t] = "sleep" => arc'[t] = wait_cells[target[t]].cell
  BY <1>1 DEF fetch_cell, MoveTo
<1>3. \A g \in Tx : Waiters(g)' = Waiters(g)
  BY <1>2 DEF Waiters
<1>4. CountInv' /\ CellInv'
  BY <1>2, <1>3 DEF WaitCellInv, CountInv, CellInv
<1>5. SleepInv'
  <2> SUFFICES ASSUME NEW u \in Tx, phase'[u] = "sleep", phase'[target'[u]] # "done"
               PROVE  wait_cells'[target'[u]].cell = arc'[u]
    BY DEF SleepInv
  <2>1. CASE u = t
    BY <1>2, <2>1
  <2>2. CASE u # t
    <3>1. phase[u] = "sleep" /\ target[u] \in Tx
      BY <1>2, <2>2 DEF WaitCellInv, EdgeInv
    <3> QED  BY <1>2, <2>2, <3>1 DEF WaitCellInv, SleepInv
  <2> QED  BY <2>1, <2>2
<1> QED  BY <1>4, <1>5

\* The inductive invariant of the wait cells.
THEOREM WaitCellInvariant == LockSpec => []WaitCellInv
<1>1. LockInit => WaitCellInv
  <2> SUFFICES ASSUME LockInit PROVE WaitCellInv
    OBVIOUS
  <2>1. LockTypeOK /\ EdgeInv
    BY InitType DEF LockInit, EdgeInv
  <2>2. \A h \in Tx : Waiters(h) = {} /\ wait_cells[h].count = 0 /\ wait_cells[h].cell = None
    BY NoneAssumption DEF LockInit, Waiters, NoEntry
  <2>3. CountInv
    BY <2>2, FS_EmptySet DEF CountInv
  <2>4. CellInv /\ SleepInv
    BY <2>2 DEF LockInit, CellInv, SleepInv
  <2> QED  BY <2>1, <2>3, <2>4 DEF WaitCellInv
<1>2. WaitCellInv /\ [LockNext]_lockVars => WaitCellInv'
  <2> SUFFICES ASSUME WaitCellInv, [LockNext]_lockVars PROVE WaitCellInv'
    OBVIOUS
  <2>1. LockTypeOK' /\ EdgeInv'
    BY StepType, StepEdge DEF WaitCellInv
  <2>2. ASSUME NEW t \in Tx, NEW next \in {"run", "abort"}, leave_wait(t, next)
        PROVE  CountInv' /\ CellInv' /\ SleepInv'
    BY <2>2, UnregisterKeeps DEF leave_wait, MoveTo, WaitCellInv, LockTypeOK
  <2>3. ASSUME NEW t \in Tx, unregister_self(t)
        PROVE  CountInv' /\ CellInv' /\ SleepInv'
    BY <2>3, UnregisterKeeps DEF unregister_self, MoveTo, WaitCellInv, LockTypeOK
  <2>4. CountInv' /\ CellInv' /\ SleepInv'
    BY <2>2, <2>3, LockStepKinds, PlainKeeps, RegisterKeeps, NotifyKeeps, FetchKeeps DEF WaitCellInv
  <2> QED  BY <2>1, <2>4 DEF WaitCellInv
<1> QED  BY <1>1, <1>2, PTL DEF LockSpec

\* A sleeping waiter is never forgotten: for any number of transactions and
\* whatever other waiters register, time out or withdraw, it sleeps on the cell
\* that its holder will release.
THEOREM SleepersAreNotified == LockSpec => []SleepersWillBeNotified
<1>1. WaitCellInv => SleepersWillBeNotified
  <2> SUFFICES ASSUME WaitCellInv PROVE SleepersWillBeNotified
    OBVIOUS
  <2>1. ASSUME NEW t \in Tx, phase[t] = "sleep", phase[target[t]] # "done"
        PROVE  target[t] # None /\ wait_cells[target[t]].cell = arc[t] /\ arc[t] \notin released
    <3>1. target[t] \in Tx
      BY <2>1 DEF WaitCellInv, EdgeInv
    <3>2. wait_cells[target[t]].cell = arc[t]
      BY <2>1 DEF WaitCellInv, SleepInv
    <3> QED  BY <3>1, <3>2, NoneAssumption DEF WaitCellInv, CellInv
  <2>2. ASSUME NEW h \in Tx, wait_cells[h].cell # None
        PROVE  wait_cells[h].count \in 1 .. Cardinality({t \in Tx : wait_for[t] = h})
    BY <2>2 DEF WaitCellInv, CountInv, Waiters
  <2> QED  BY <2>1, <2>2 DEF SleepersWillBeNotified
<1> QED  BY <1>1, WaitCellInvariant, PTL

----------------------------------------------------------------------------
(* The wait protocol within transactions. *)

\* One step. put waits only for a transaction it has seen in
\* active_transactions.
LEMMA StepIsLockStep ==
    ASSUME active \subseteq Tx, [Next]_vars
    PROVE  [LockNext]_lockVars
<1>1. CASE UNCHANGED vars
  BY <1>1 DEF vars
<1>2. ASSUME NEW t \in Tx, begin_enter(t) PROVE LockNext
  BY <1>2 DEF begin_enter, LockNext
<1>3. ASSUME NEW t \in Tx, write_conflict(t) PROVE LockNext
  <2>1. conflict(t, OtherTx(t))
    BY <1>3 DEF write_conflict
  <2>2. OtherTx(t) \in Tx
    BY <2>1 DEF conflict
  <2> QED  BY <2>1, <2>2 DEF LockNext
<1>4. ASSUME NEW t \in Tx, wait_step(t) PROVE LockNext
  <2>1. \/ register_wait(t) \/ recheck_active(t) \/ fetch_cell(t) \/ wake(t) \/ timeout(t)
        \/ deadlock_error(t) \/ query_timeout(t)
        \/ leave_wait(t, "run") \/ leave_wait(t, "abort")
    BY <1>4 DEF wait_step
  <2> QED  BY <2>1 DEF LockNext
<1>5. ASSUME NEW t \in Tx, commit_empty(t) \/ commit_returns(t) \/ rollback_returns(t) PROVE LockNext
  <2>1. remove_active(t)
    BY <1>5 DEF commit_empty, commit_returns, rollback_returns
  <2> QED  BY <2>1 DEF LockNext
<1>6. ASSUME NEW t \in Tx, leave_step(t) PROVE LockNext
  <2>1. unregister_self(t) \/ notify_lock_released(t)
    BY <1>6 DEF leave_step
  <2> QED  BY <2>1 DEF LockNext
<1>7. ASSUME NEW t \in Tx, \/ begin_read_version(t) \/ write_retry(t) \/ write_install(t)
                           \/ \E k, v : write_call(t, k, v)
                           \/ rollback_call(t) \/ undo_entry(t)
      PROVE  UNCHANGED lockVars
  BY <1>7 DEF begin_read_version, write_retry, write_install, write_call, lock_and_read,
              rollback_call, undo_entry
<1>8. ASSUME NEW t \in Tx, \/ commit_start(t) \/ prepare_entry(t) \/ enqueue(t) \/ append_fails(t)
                           \/ lead(t) \/ sync_succeeds(t) \/ sync_fails(t)
                           \/ apply_change(t) \/ publish(t) \/ commit_failed(t)
      PROVE  UNCHANGED lockVars
  BY <1>8 DEF commit_start, prepare_entry, enqueue, append_fails, lead, sync_succeeds,
              sync_fails, apply_change, publish, commit_failed
<1>9. CASE vacuum_step
  BY <1>9 DEF vacuum_step, vacuum_horizon, vacuum_scan, vacuum_entry, vacuum_returns
<1> QED  BY <1>1, <1>2, <1>3, <1>4, <1>5, <1>6, <1>7, <1>8, <1>9
            DEF Next, commit_step, rollback_step

\* The lock protocol that put, remove, commit and rollback drive is the one of
\* LockManager.
THEOREM TransactionsFollowProtocol == Spec => LockSpec
<1>1. Init => LockInit
  BY DEF Init
<1>2. Init => AcyclicInv
  <2> SUFFICES ASSUME LockInit PROVE AcyclicInv
    BY <1>1
  <2>1. LockTypeOK /\ EdgeInv
    BY InitType DEF LockInit, EdgeInv
  <2>2. WaitForAcyclic
    BY NoneAssumption DEF LockInit, WaitForAcyclic, Grounded
  <2> QED  BY <2>1, <2>2 DEF AcyclicInv
<1>3. AcyclicInv /\ [Next]_vars => [LockNext]_lockVars
  BY StepIsLockStep DEF AcyclicInv, LockTypeOK
<1>4. AcyclicInv /\ [LockNext]_lockVars => AcyclicInv'
  BY StepType, StepEdge, StepAcyclic DEF AcyclicInv
<1> QED  BY <1>1, <1>2, <1>3, <1>4, PTL DEF Spec, LockSpec

\* No set of transactions waits in a circle, and nobody who sleeps is forgotten.
THEOREM WaitsAreSafe == Spec => [](WaitForAcyclic /\ SleepersWillBeNotified)
  BY TransactionsFollowProtocol, NoDeadlockedWaiters, SleepersAreNotified, PTL

----------------------------------------------------------------------------
(* Entries and records. *)

MaybeEntries == Entries \cup {NoValue}
Changes == [key : Keys, value : MaybeEntries]
WalRecords == [tx_id : Tx \cup {None}, commit_version : Nat, changes : Seq(Changes)]
Calls == [key : Keys, value : Tx \cup {NoValue}]

\* A record of D carries version v of key k.
Backed(D, k, v) == \E r \in D : r.commit_version = v /\ \E c \in Range(r.changes) : c.key = k

Descending(h) == \A i, j \in DOMAIN h : i < j => h[i].commit_version > h[j].commit_version

\* The committed records of an entry of k all come from D, newest first.
Sound(D, k, vv) ==
    vv # NoValue =>
        /\ \A i \in DOMAIN vv.committed_history : Backed(D, k, vv.committed_history[i].commit_version)
        /\ Descending(vv.committed_history)

\* The same of a change of record r, which may bring the version of r itself.
SoundIn(D, r, c) ==
    c.value # NoValue =>
        /\ \A i \in DOMAIN c.value.committed_history :
              LET v == c.value.committed_history[i].commit_version
              IN  v = r.commit_version \/ Backed(D, c.key, v)
        /\ Descending(c.value.committed_history)

\* The members of a sequence that grows.
LEMMA RangeGrows ==
    ASSUME NEW S, NEW s \in Seq(S), NEW u \in Seq(S), NEW x \in S
    PROVE  /\ Append(s, x) \in Seq(S) /\ Range(Append(s, x)) = Range(s) \cup {x}
           /\ s \o u \in Seq(S) /\ Range(s \o u) = Range(s) \cup Range(u)
           /\ Range(<<>>) = {} /\ Range(s) \subseteq S
<1>1. Append(s, x) \in Seq(S) /\ Range(Append(s, x)) = Range(s) \cup {x}
  <2> DEFINE a == Append(s, x)
  <2>1. a \in Seq(S) /\ DOMAIN a = 1 .. Len(s) + 1 /\ DOMAIN s = 1 .. Len(s) /\ Len(s) \in Nat
    OBVIOUS
  <2>2. (\A i \in 1 .. Len(s) : a[i] = s[i]) /\ a[Len(s) + 1] = x
    OBVIOUS
  <2> HIDE DEF a
  <2>3. Range(a) = Range(s) \cup {x}
    BY <2>1, <2>2 DEF Range
  <2> QED  BY <2>1, <2>3 DEF a
<1>2. s \o u \in Seq(S) /\ Range(s \o u) = Range(s) \cup Range(u)
  <2> DEFINE a == s \o u
  <2>1. /\ a \in Seq(S) /\ DOMAIN a = 1 .. Len(s) + Len(u)
        /\ DOMAIN s = 1 .. Len(s) /\ DOMAIN u = 1 .. Len(u) /\ Len(s) \in Nat /\ Len(u) \in Nat
    OBVIOUS
  <2>2. /\ \A i \in 1 .. Len(s) : a[i] = s[i]
        /\ \A i \in 1 .. Len(u) : a[Len(s) + i] = u[i]
        /\ \A i \in 1 .. Len(s) + Len(u) : i > Len(s) => a[i] = u[i - Len(s)]
    BY ConcatProperties
  <2> HIDE DEF a
  <2>3. Range(s) \subseteq Range(a)
    BY <2>1, <2>2 DEF Range
  <2>4. Range(u) \subseteq Range(a)
    <3>1. ASSUME NEW i \in DOMAIN u PROVE Len(s) + i \in DOMAIN a /\ a[Len(s) + i] = u[i]
      BY <2>1, <2>2
    <3> QED  BY <3>1 DEF Range
  <2>5. ASSUME NEW i \in DOMAIN a PROVE a[i] \in Range(s) \cup Range(u)
    <3>1. CASE i <= Len(s)
      BY <2>1, <2>2, <3>1 DEF Range
    <3>2. CASE i > Len(s)
      <4>1. a[i] = u[i - Len(s)] /\ i - Len(s) \in DOMAIN u
        BY <2>1, <2>2, <3>2
      <4> QED  BY <4>1 DEF Range
    <3> QED  BY <2>1, <3>1, <3>2
  <2>6. Range(a) \subseteq Range(s) \cup Range(u)
    BY <2>5 DEF Range
  <2> QED  BY <2>1, <2>3, <2>4, <2>6 DEF a
<1>3. Range(<<>>) = {} /\ Range(s) \subseteq S
  BY DEF Range
<1> QED  BY <1>1, <1>2, <1>3

\* What is sound stays sound when more records become durable.
LEMMA SoundGrows ==
    ASSUME NEW D, NEW E, D \subseteq E
    PROVE  /\ \A k, vv : Sound(D, k, vv) => Sound(E, k, vv)
           /\ \A r, c : SoundIn(D, r, c) => SoundIn(E, r, c)
<1>1. \A k, v : Backed(D, k, v) => Backed(E, k, v)
  BY DEF Backed
<1> QED  BY <1>1 DEF Sound, SoundIn

\* A change of a durable record is sound.
LEMMA DurableChangeSound ==
    ASSUME NEW D, NEW r \in D, NEW c \in Range(r.changes), SoundIn(D, r, c)
    PROVE  Sound(D, c.key, c.value)
<1>1. Backed(D, c.key, r.commit_version)
  BY DEF Backed
<1> QED  BY <1>1 DEF Sound, SoundIn

\* A non-empty set of numbers has a least one.
LEMMA LeastNumber ==
    ASSUME NEW S \in SUBSET Nat, S # {}
    PROVE  \E i \in S : \A j \in S : i <= j
<1> DEFINE R == OpToRel(<, Nat)
<1>1. PICK i \in S : \A j \in S : ~ (<<j, i>> \in R)
  BY NatLessThanWellFounded, WFMin
<1>2. \A j \in S : j < i => <<j, i>> \in R
  BY DEF OpToRel
<1> HIDE DEF R
<1>3. \A j \in S : ~ (j < i)
  BY <1>1, <1>2
<1> QED  BY <1>3

\* The beginning of a history: what truncation and pruning leave.
LEMMA TruncateIsPrefix ==
    ASSUME NEW S, NEW h \in Seq(S), NEW n \in Nat
    PROVE  /\ Truncate(h, n) \in Seq(S)
           /\ DOMAIN Truncate(h, n) \subseteq DOMAIN h
           /\ \A i \in DOMAIN Truncate(h, n) : Truncate(h, n)[i] = h[i]
<1> DEFINE m == IF Len(h) < n THEN Len(h) ELSE n
<1>1. m \in Nat /\ m <= Len(h) /\ Len(h) \in Nat
  OBVIOUS
<1> HIDE DEF m
<1>2. /\ SubSeq(h, 1, m) \in Seq(S) /\ Len(SubSeq(h, 1, m)) = m
      /\ \A i \in 1 .. m : SubSeq(h, 1, m)[i] = h[i]
  BY <1>1
<1>3. Truncate(h, n) = SubSeq(h, 1, m)
  BY DEF Truncate, m
<1> QED  BY <1>1, <1>2, <1>3

\* set_uncommitted keeps the committed records, and so does a rollback.
LEMMA UncommittedKeepsHistory ==
    ASSUME NEW D, NEW k, NEW vv \in MaybeEntries, Sound(D, k, vv), NEW t \in Tx, NEW v \in Tx \cup {NoValue}
    PROVE  /\ LET base == IF vv = NoValue THEN EmptyVV ELSE vv
              IN  /\ set_uncommitted(base, t, v) \in Entries
                  /\ Sound(D, k, set_uncommitted(base, t, v))
           /\ RolledBack(t, vv) \in MaybeEntries
           /\ Sound(D, k, RolledBack(t, vv))
<1>1. EmptyVV \in Entries /\ Sound(D, k, EmptyVV)
  BY DEF EmptyVV, Entries, Sound, Descending
<1>2. ASSUME NEW base \in Entries, Sound(D, k, base), base # NoValue
      PROVE  /\ set_uncommitted(base, t, v) \in Entries
             /\ Sound(D, k, set_uncommitted(base, t, v))
             /\ rollback_uncommitted(base) \in Entries
             /\ Sound(D, k, rollback_uncommitted(base))
  <2>1. /\ set_uncommitted(base, t, v) \in Entries
        /\ set_uncommitted(base, t, v).committed_history = base.committed_history
    BY DEF set_uncommitted, Entries, Uncommitted
  <2>2. /\ rollback_uncommitted(base) \in Entries
        /\ rollback_uncommitted(base).committed_history = base.committed_history
    BY DEF rollback_uncommitted, Entries
  <2> QED  BY <1>2, <2>1, <2>2 DEF Sound
<1>3. ASSUME vv = NoValue
      PROVE  set_uncommitted(EmptyVV, t, v) \in Entries /\ Sound(D, k, set_uncommitted(EmptyVV, t, v))
  <2>1. /\ set_uncommitted(EmptyVV, t, v) \in Entries
        /\ set_uncommitted(EmptyVV, t, v).committed_history = <<>>
    <3>1. set_uncommitted(EmptyVV, t, v) = [uncommitted |-> [tx_id |-> t, value |-> v], committed_history |-> <<>>]
      BY DEF set_uncommitted, EmptyVV
    <3> QED  BY <3>1 DEF Entries, Uncommitted
  <2> QED  BY <2>1 DEF Sound, Descending
<1> QED  BY <1>2, <1>3 DEF MaybeEntries, RolledBack, Sound

\* A newer version on top of an entry leaves a sound change of its record.
LEMMA CommitSound ==
    ASSUME NEW D, NEW r, NEW k, NEW vv \in Entries, vv # NoValue, Sound(D, k, vv),
           r.commit_version \in Nat,
           \A x \in D : x.commit_version \in Nat /\ x.commit_version < r.commit_version
    PROVE  /\ commit_uncommitted(vv, r.commit_version) \in Entries
           /\ SoundIn(D, r, [key |-> k, value |-> commit_uncommitted(vv, r.commit_version)])
<1> DEFINE new == commit_uncommitted(vv, r.commit_version)
           h == vv.committed_history
           top == [value |-> vv.uncommitted.value, commit_version |-> r.commit_version]
           g == <<top>> \o h
<1>1. h \in Seq(Versions) /\ Descending(h) /\ \A i \in DOMAIN h : Backed(D, k, h[i].commit_version)
  BY DEF Entries, Sound
<1>2. CASE vv.uncommitted = NoValue
  BY <1>1, <1>2 DEF commit_uncommitted, SoundIn
<1>3. CASE vv.uncommitted # NoValue
  <2>1. top \in Versions
    BY <1>3 DEF Entries, Uncommitted, Versions
  <2> HIDE DEF top
  <2>2. /\ g \in Seq(Versions) /\ DOMAIN g = 1 .. Len(h) + 1 /\ DOMAIN h = 1 .. Len(h) /\ Len(h) \in Nat
        /\ g[1] = top /\ \A i \in 1 .. Len(h) + 1 : i > 1 => g[i] = h[i - 1]
    BY <1>1, <2>1
  <2>3. MaxGenerations \in Nat
    BY GenerationsAssumption
  <2>4. /\ Truncate(g, MaxGenerations) \in Seq(Versions)
        /\ DOMAIN Truncate(g, MaxGenerations) \subseteq DOMAIN g
        /\ \A i \in DOMAIN Truncate(g, MaxGenerations) : Truncate(g, MaxGenerations)[i] = g[i]
    BY <2>2, <2>3, TruncateIsPrefix
  <2>5. new = [uncommitted |-> NoValue, committed_history |-> Truncate(g, MaxGenerations)]
    BY <1>3 DEF commit_uncommitted, top
  <2>6. new \in Entries /\ new.committed_history = Truncate(g, MaxGenerations)
    BY <2>4, <2>5 DEF Entries
  <2>7. top.commit_version = r.commit_version
    BY DEF top
  <2>8. \A i \in DOMAIN h : h[i].commit_version \in Nat /\ h[i].commit_version < r.commit_version
    BY <1>1 DEF Backed
  <2>9. ASSUME NEW i \in DOMAIN g
        PROVE  g[i].commit_version = r.commit_version \/ Backed(D, k, g[i].commit_version)
    BY <1>1, <2>2, <2>7
  <2>10. Descending(g)
    <3> SUFFICES ASSUME NEW i \in DOMAIN g, NEW j \in DOMAIN g, i < j
                 PROVE  g[i].commit_version > g[j].commit_version
      BY DEF Descending
    <3>1. j - 1 \in DOMAIN h /\ g[j] = h[j - 1]
      BY <2>2
    <3>2. CASE i = 1
      BY <2>2, <2>7, <2>8, <3>1, <3>2
    <3>3. CASE i > 1
      <4>1. i - 1 \in DOMAIN h /\ g[i] = h[i - 1] /\ i - 1 < j - 1
        BY <2>2, <3>3
      <4> QED  BY <1>1, <3>1, <4>1 DEF Descending
    <3> QED  BY <2>2, <3>2, <3>3
  <2> HIDE DEF g, new
  <2>11. /\ \A i \in DOMAIN new.committed_history :
               LET v == new.committed_history[i].commit_version
               IN  v = r.commit_version \/ Backed(D, k, v)
         /\ Descending(new.committed_history)
    <3>1. \A i \in DOMAIN new.committed_history : i \in DOMAIN g /\ new.committed_history[i] = g[i]
      BY <2>4, <2>6
    <3>2. Descending(new.committed_history)
      BY <2>10, <3>1 DEF Descending
    <3> QED  BY <2>9, <3>1, <3>2
  <2>12. [key |-> k, value |-> new].key = k /\ [key |-> k, value |-> new].value = new
    OBVIOUS
  <2>13. SoundIn(D, r, [key |-> k, value |-> new])
    BY <2>11, <2>12 DEF SoundIn
  <2> QED  BY <2>6, <2>13 DEF new
<1> QED  BY <1>2, <1>3

\* Pruning leaves a beginning of the history.
LEMMA PruneSound ==
    ASSUME NEW D, NEW k, NEW vv \in Entries, vv # NoValue, Sound(D, k, vv), NEW horizon
    PROVE  prune_old_versions(vv, horizon) \in Entries /\ Sound(D, k, prune_old_versions(vv, horizon))
<1> DEFINE h == vv.committed_history
           i == FirstAt(h, horizon)
           new == prune_old_versions(vv, horizon)
<1>1. h \in Seq(Versions) /\ Descending(h) /\ \A j \in DOMAIN h : Backed(D, k, h[j].commit_version)
  BY DEF Entries, Sound
<1>2. i \in Nat
  <2> DEFINE Seen == {j \in DOMAIN h : h[j].commit_version <= horizon}
  <2>1. Seen \in SUBSET Nat
    BY <1>1
  <2>2. Seen # {} => (CHOOSE m \in Seen : \A j \in Seen : m <= j) \in Nat
    BY <2>1, LeastNumber
  <2> QED  BY <2>2 DEF FirstAt
<1>3. CASE i = 0
  BY <1>3 DEF prune_old_versions
<1>4. CASE i # 0
  <2> HIDE DEF i
  <2>1. /\ Truncate(h, i) \in Seq(Versions) /\ DOMAIN Truncate(h, i) \subseteq DOMAIN h
        /\ \A j \in DOMAIN Truncate(h, i) : Truncate(h, i)[j] = h[j]
    BY <1>1, <1>2, TruncateIsPrefix
  <2>2. new = [vv EXCEPT !.committed_history = Truncate(h, i)]
    BY <1>4 DEF prune_old_versions, i
  <2>3. new \in Entries /\ new.committed_history = Truncate(h, i)
    BY <2>1, <2>2 DEF Entries
  <2> HIDE DEF new
  <2>4. Sound(D, k, new)
    BY <1>1, <2>1, <2>3 DEF Sound, Descending
  <2> QED  BY <2>3, <2>4 DEF new
<1> QED  BY <1>3, <1>4

----------------------------------------------------------------------------
(* The invariant.                                                          *)
(*                                                                         *)
(* DurableBeforeVisible speaks of the map only. Entries travel, though: a  *)
(* put installs over the entry it read, a prepared change waits in a       *)
(* record, in pending and in a batch, and the vacuum writes back what it   *)
(* scanned. HistoryInv follows them on these ways. That a version is new   *)
(* when it is prepared needs VersionInv, and MutexInv, for versions are    *)
(* handed out under the queue mutex.                                       *)

Pcs == {"begin", "enter", "idle", "locked", "wait", "retry", "prepare", "queued",
        "lead", "sync", "apply", "undo", "end"}
InQueue == {"prepare", "sync", "apply"}
Leads == {"lead", "sync", "apply"}

VacuumShape ==
    /\ vacuum = [at |-> vacuum.at, runs |-> vacuum.runs, horizon |-> vacuum.horizon,
                 entries |-> vacuum.entries, left |-> vacuum.left]
    /\ vacuum.at = "prune" => /\ vacuum.entries \in [Keys -> MaybeEntries]
                              /\ vacuum.left \subseteq {k \in Keys : vacuum.entries[k] # NoValue}

DataType ==
    /\ map \in [Keys -> MaybeEntries]
    /\ pc \in [Tx -> Pcs]
    /\ undo \in [Tx -> Seq(Keys)] /\ todo \in [Tx -> Seq(Keys)]
    /\ seen \in [Tx -> MaybeEntries]
    /\ call \in [Tx -> Calls \cup {NoValue}]
    /\ \A t \in Tx : pc[t] \in {"locked", "wait", "retry"} => call[t] \in Calls
    /\ record \in [Tx -> WalRecords]
    /\ pending \in Seq(WalRecords) /\ batch \in Seq(WalRecords) /\ durable \in Seq(WalRecords)
    /\ next_commit_version \in Nat
    /\ VacuumShape

\* The queue mutex is held inside its critical sections.
MutexInv == \A t \in Tx : pc[t] \in InQueue => queue = t

\* Versions of records are handed out in order: the one being prepared is newer
\* than all others.
VersionInv ==
    /\ \A r \in Range(durable) \cup Range(pending) \cup Range(batch) : r.commit_version <= next_commit_version
    /\ \A t \in Tx : pc[t] = "prepare" =>
          /\ record[t].commit_version = next_commit_version
          /\ \A r \in Range(durable) \cup Range(pending) \cup Range(batch) :
                r.commit_version < next_commit_version

HistoryInv ==
    /\ \A k \in Keys : Sound(Range(durable), k, map[k])
    /\ \A t \in Tx : pc[t] = "locked" => Sound(Range(durable), call[t].key, seen[t])
    /\ vacuum.at = "prune" => \A k \in Keys : Sound(Range(durable), k, vacuum.entries[k])
    /\ \A t \in Tx : pc[t] = "prepare" =>
          \A c \in Range(record[t].changes) : SoundIn(Range(durable), record[t], c)
    /\ \A r \in Range(pending) \cup Range(batch) : \A c \in Range(r.changes) : SoundIn(Range(durable), r, c)

\* What the leader puts into the maps has been synced.
ApplyInv ==
    \A t \in Tx : pc[t] = "apply" => Range(batch) \subseteq Range(durable) /\ applying \subseteq Positions(batch)

DataInv == DataType /\ MutexInv /\ VersionInv /\ HistoryInv /\ ApplyInv

\* The members of a sequence of WAL records.
LEMMA KnownRecords ==
    ASSUME NEW s \in Seq(WalRecords), NEW r \in Range(s)
    PROVE  r \in WalRecords /\ r.commit_version \in Nat /\ r.changes \in Seq(Changes)
<1>1. r \in WalRecords
  BY DEF Range
<1> QED  BY <1>1 DEF WalRecords

\* A step that only moves the thread of t, outside the queue mutex or out of it.
Quiet(t) ==
    /\ UNCHANGED <<map, undo, todo, seen, call, record, pending, batch, durable,
                   next_commit_version, applying, vacuum>>
    /\ \E p \in Pcs \ ({"locked"} \cup InQueue \cup Leads) :
          /\ pc' = [pc EXCEPT ![t] = p]
          /\ p \in {"wait", "retry"} => pc[t] \in {"locked", "wait", "retry"}
    /\ UNCHANGED queue \/ pc[t] \in InQueue

LEMMA QuietSteps ==
    ASSUME DataType, NEW t \in Tx,
           \/ begin_read_version(t) \/ begin_enter(t) \/ write_conflict(t) \/ wait_step(t)
           \/ commit_empty(t) \/ append_fails(t) \/ commit_returns(t) \/ commit_failed(t)
           \/ rollback_call(t) \/ rollback_returns(t) \/ leave_step(t)
    PROVE  Quiet(t)
<1> USE DEF Quiet, Goto, Pcs, InQueue, Leads
<1>1. pc = [pc EXCEPT ![t] = pc[t]]
  BY DEF DataType
<1>2. CASE begin_read_version(t) \/ begin_enter(t)
  BY <1>2 DEF begin_read_version, begin_enter
<1>3. CASE write_conflict(t)
  BY <1>3 DEF write_conflict
<1>4. CASE wait_step(t)
  <2>1. /\ pc[t] = "wait"
        /\ \/ UNCHANGED pc \/ Goto(t, "undo") \/ Goto(t, "retry") \/ Goto(t, "idle")
        /\ UNCHANGED <<map, undo, todo, seen, call, record, pending, batch, durable,
                       next_commit_version, applying, vacuum, queue>>
    BY <1>4 DEF wait_step
  <2> QED  BY <1>1, <2>1
<1>5. CASE commit_empty(t) \/ append_fails(t) \/ commit_returns(t) \/ commit_failed(t)
  BY <1>5 DEF commit_empty, append_fails, commit_returns, commit_failed
<1>6. CASE rollback_call(t) \/ rollback_returns(t)
  BY <1>6 DEF rollback_call, rollback_returns
<1>7. CASE leave_step(t)
  BY <1>1, <1>7 DEF leave_step, dataVars
<1> QED  BY <1>2, <1>3, <1>4, <1>5, <1>6, <1>7

LEMMA QuietKeeps ==
    ASSUME DataInv, NEW t \in Tx, Quiet(t)
    PROVE  DataInv'
<1>1. PICK p \in Pcs \ ({"locked"} \cup InQueue \cup Leads) :
         /\ pc' = [pc EXCEPT ![t] = p]
         /\ p \in {"wait", "retry"} => pc[t] \in {"locked", "wait", "retry"}
  BY DEF Quiet
<1>2. UNCHANGED <<map, undo, todo, seen, call, record, pending, batch, durable,
                  next_commit_version, applying, vacuum>>
  BY DEF Quiet
<1>3. pc' \in [Tx -> Pcs] /\ pc'[t] = p /\ \A u \in Tx \ {t} : pc'[u] = pc[u]
  BY <1>1 DEF DataInv, DataType
<1>4. DataType'
  BY <1>1, <1>2, <1>3 DEF DataInv, DataType, VacuumShape
<1>5. MutexInv'
  BY <1>1, <1>3 DEF DataInv, MutexInv, Quiet
<1>6. \A u \in Tx : pc'[u] \in {"locked"} \cup InQueue => pc'[u] = pc[u]
  BY <1>1, <1>3
<1>7. VersionInv' /\ ApplyInv'
  BY <1>2, <1>6 DEF DataInv, VersionInv, ApplyInv, InQueue
<1>8. HistoryInv'
  BY <1>2, <1>6 DEF DataInv, HistoryInv, InQueue
<1> QED  BY <1>4, <1>5, <1>7, <1>8 DEF DataInv

\* lock_key and map.get: the entry read is the one in the map.
LEMMA ReadKeeps ==
    ASSUME DataInv, NEW t \in Tx, pc[t] \in {"idle", "retry"},
           NEW k \in Keys, NEW v \in Tx \cup {NoValue}, lock_and_read(t, k, v)
    PROVE  DataInv'
<1>1. /\ UNCHANGED <<map, undo, todo, record, pending, batch, durable, next_commit_version,
                     applying, vacuum, queue>>
      /\ seen' = [seen EXCEPT ![t] = map[k]]
  BY DEF lock_and_read
<1>2. \/ pc' = [pc EXCEPT ![t] = "idle"] /\ call' = [call EXCEPT ![t] = NoValue]
      \/ pc' = [pc EXCEPT ![t] = "locked"] /\ call' = [call EXCEPT ![t] = [key |-> k, value |-> v]]
  BY DEF lock_and_read, Goto
<1>3. pc \in [Tx -> Pcs] /\ map[k] \in MaybeEntries /\ [key |-> k, value |-> v] \in Calls
  BY DEF DataInv, DataType, Calls
<1>4. DataType'
  BY <1>1, <1>2, <1>3 DEF DataInv, DataType, VacuumShape, Pcs
<1>5. /\ \A u \in Tx \ {t} : pc'[u] = pc[u] /\ call'[u] = call[u] /\ seen'[u] = seen[u]
      /\ pc'[t] = "locked" => call'[t].key = k /\ seen'[t] = map[k]
      /\ pc'[t] \notin InQueue
  BY <1>1, <1>2, <1>3 DEF DataInv, DataType, InQueue
<1>6. MutexInv'
  BY <1>1, <1>5 DEF DataInv, MutexInv
<1>7. VersionInv' /\ ApplyInv'
  BY <1>1, <1>5 DEF DataInv, VersionInv, ApplyInv, InQueue
<1>8. HistoryInv'
  <2>1. ASSUME NEW u \in Tx, pc'[u] = "locked" PROVE Sound(Range(durable'), call'[u].key, seen'[u])
    BY <1>1, <1>5, <2>1 DEF DataInv, HistoryInv
  <2> QED  BY <1>1, <1>5, <2>1 DEF DataInv, HistoryInv, InQueue
<1> QED  BY <1>4, <1>6, <1>7, <1>8 DEF DataInv

\* A put or remove installs over the entry it read.
LEMMA InstallKeeps ==
    ASSUME DataInv, NEW t \in Tx, write_install(t)
    PROVE  DataInv'
<1> DEFINE k == call[t].key
           vv == IF seen[t] = NoValue THEN EmptyVV ELSE seen[t]
           new == set_uncommitted(vv, t, call[t].value)
<1>1. /\ UNCHANGED <<todo, record, pending, batch, durable, next_commit_version, applying, vacuum, queue>>
      /\ pc[t] = "locked" /\ pc' = [pc EXCEPT ![t] = "idle"]
      /\ seen' = [seen EXCEPT ![t] = NoValue] /\ call' = [call EXCEPT ![t] = NoValue]
      /\ \/ UNCHANGED <<map, undo>>
         \/ map' = [map EXCEPT ![k] = new] /\ undo' = [undo EXCEPT ![t] = Append(@, k)]
  BY DEF write_install, Goto
<1>2. k \in Keys /\ call[t].value \in Tx \cup {NoValue} /\ seen[t] \in MaybeEntries
  BY <1>1 DEF DataInv, DataType, Calls
<1>3. Sound(Range(durable), k, seen[t])
  BY <1>1 DEF DataInv, HistoryInv
<1>4. new \in Entries /\ Sound(Range(durable), k, new)
  BY <1>2, <1>3, UncommittedKeepsHistory
<1> HIDE DEF k, vv, new
<1>5. /\ map' \in [Keys -> MaybeEntries] /\ undo' \in [Tx -> Seq(Keys)]
      /\ \A j \in Keys : map'[j] = map[j] \/ (j = k /\ map'[j] = new)
  <2>1. map \in [Keys -> MaybeEntries] /\ undo \in [Tx -> Seq(Keys)] /\ new \in MaybeEntries
    BY <1>4 DEF DataInv, DataType, MaybeEntries
  <2>2. Append(undo[t], k) \in Seq(Keys)
    BY <1>2, <2>1
  <2> QED  BY <1>1, <2>1, <2>2
<1>6. DataType'
  BY <1>1, <1>5 DEF DataInv, DataType, VacuumShape, Pcs, MaybeEntries
<1>7. /\ \A u \in Tx \ {t} : pc'[u] = pc[u] /\ call'[u] = call[u] /\ seen'[u] = seen[u]
      /\ pc'[t] = "idle"
  BY <1>1 DEF DataInv, DataType
<1>8. MutexInv'
  BY <1>1, <1>7 DEF DataInv, MutexInv, InQueue
<1>9. VersionInv' /\ ApplyInv'
  BY <1>1, <1>7 DEF DataInv, VersionInv, ApplyInv
<1>10. HistoryInv'
  BY <1>1, <1>4, <1>5, <1>7 DEF DataInv, HistoryInv
<1> QED  BY <1>6, <1>8, <1>9, <1>10 DEF DataInv

\* A commit takes the mutex and a version that nobody has.
LEMMA StartKeeps ==
    ASSUME DataInv, NEW t \in Tx, commit_start(t)
    PROVE  DataInv'
<1> DEFINE new == [tx_id |-> t, changes |-> <<>>, commit_version |-> next_commit_version + 1]
<1>1. /\ UNCHANGED <<map, undo, seen, call, pending, batch, durable, applying, vacuum>>
      /\ pc[t] = "idle" /\ pc' = [pc EXCEPT ![t] = "prepare"]
      /\ queue = None /\ queue' = t
      /\ next_commit_version' = next_commit_version + 1
      /\ record' = [record EXCEPT ![t] = new] /\ todo' = [todo EXCEPT ![t] = undo[t]]
  BY DEF commit_start, Goto
<1>2. new \in WalRecords /\ new.commit_version = next_commit_version + 1 /\ Range(new.changes) = {}
  BY DEF DataInv, DataType, WalRecords, Range
<1> HIDE DEF new
<1>3. DataType'
  BY <1>1, <1>2 DEF DataInv, DataType, VacuumShape, Pcs
<1>4. /\ \A u \in Tx \ {t} : pc'[u] = pc[u] /\ record'[u] = record[u]
      /\ pc'[t] = "prepare" /\ record'[t] = new
  BY <1>1 DEF DataInv, DataType
<1>5. \A u \in Tx : pc[u] \notin InQueue
  BY <1>1, NoneAssumption DEF DataInv, MutexInv
<1>6. MutexInv'
  BY <1>1, <1>4, <1>5 DEF MutexInv
<1>7. VersionInv'
  <2>1. \A r \in Range(durable) \cup Range(pending) \cup Range(batch) :
           r.commit_version \in Nat /\ r.commit_version <= next_commit_version
    BY KnownRecords DEF DataInv, DataType, VersionInv
  <2>2. next_commit_version \in Nat
    BY DEF DataInv, DataType
  <2> QED  BY <1>1, <1>2, <1>4, <1>5, <2>1, <2>2 DEF VersionInv, InQueue
<1>8. ApplyInv'
  BY <1>1, <1>4, <1>5 DEF ApplyInv, InQueue
<1>9. HistoryInv'
  BY <1>1, <1>2, <1>4, <1>5 DEF DataInv, HistoryInv, InQueue
<1> QED  BY <1>3, <1>6, <1>7, <1>8, <1>9 DEF DataInv

\* The change prepared for one undo entry is the newest of its record.
LEMMA PrepareKeeps ==
    ASSUME DataInv, NEW t \in Tx, prepare_entry(t)
    PROVE  DataInv'
<1> DEFINE k == Head(todo[t])
           new == PreparedChanges(t, k)
           D == Range(durable)
<1>1. /\ UNCHANGED <<map, undo, seen, call, pending, batch, durable, applying, vacuum, pc, queue,
                     next_commit_version>>
      /\ pc[t] = "prepare" /\ todo[t] # <<>>
      /\ record' = [record EXCEPT ![t].changes = @ \o new]
      /\ todo' = [todo EXCEPT ![t] = Tail(@)]
  BY DEF prepare_entry
<1>2. k \in Keys /\ Tail(todo[t]) \in Seq(Keys)
  <2>1. todo[t] \in Seq(Keys)
    BY DEF DataInv, DataType
  <2> QED  BY <1>1, <2>1
<1>3. map[k] \in MaybeEntries /\ Sound(D, k, map[k])
  BY <1>2 DEF DataInv, DataType, HistoryInv
<1>4. /\ record \in [Tx -> WalRecords] /\ record[t] \in WalRecords
      /\ record[t].commit_version \in Nat /\ record[t].changes \in Seq(Changes)
  BY DEF DataInv, DataType, WalRecords
<1>5. \A x \in D : x.commit_version \in Nat /\ x.commit_version < record[t].commit_version
  BY <1>1, KnownRecords DEF DataInv, DataType, VersionInv
<1> HIDE DEF k
<1>6. new \in Seq(Changes) /\ \A c \in Range(new) : SoundIn(D, record[t], c)
  <2>1. CASE map[k] = NoValue
    <3> DEFINE c == [key |-> k, value |-> NoValue]
    <3>1. c \in Changes /\ SoundIn(D, record[t], c)
      BY <1>2 DEF Changes, MaybeEntries, SoundIn
    <3>2. new = <<c>>
      BY <2>1 DEF PreparedChanges
    <3> QED  BY <3>1, <3>2 DEF Range
  <2>2. CASE map[k] # NoValue /\ active_tx_id(map[k]) = t
    <3> DEFINE c == [key |-> k, value |-> commit_uncommitted(map[k], record[t].commit_version)]
    <3>0. map[k] \in Entries
      BY <1>3, <2>2 DEF MaybeEntries
    <3>1. commit_uncommitted(map[k], record[t].commit_version) \in Entries /\ SoundIn(D, record[t], c)
      BY <1>3, <1>4, <1>5, <2>2, <3>0, CommitSound
    <3>2. c \in Changes
      BY <1>2, <3>1 DEF Changes, MaybeEntries
    <3>3. new = <<c>>
      BY <2>2 DEF PreparedChanges
    <3> QED  BY <3>1, <3>2, <3>3 DEF Range
  <2>3. CASE map[k] # NoValue /\ active_tx_id(map[k]) # t
    <3>1. new = <<>>
      BY <2>3 DEF PreparedChanges
    <3> QED  BY <3>1 DEF Range
  <2> QED  BY <2>1, <2>2, <2>3
<1> HIDE DEF new
<1>7. record[t].changes \o new \in Seq(Changes)
      /\ Range(record[t].changes \o new) = Range(record[t].changes) \cup Range(new)
  <2>1. CASE Changes = {}
    <3>1. \A q \in Seq(Changes) : Len(q) = 0
      BY <2>1
    <3> QED  BY <1>4, <1>6, <3>1 DEF Range
  <2>2. CASE Changes # {}
    BY <1>4, <1>6, <2>2, RangeGrows
  <2> QED  BY <2>1, <2>2
<1>8. /\ record' \in [Tx -> WalRecords]
      /\ \A u \in Tx \ {t} : record'[u] = record[u]
      /\ record'[t].commit_version = record[t].commit_version
      /\ record'[t].changes = record[t].changes \o new
  <2>1. record' = [record EXCEPT ![t] = [record[t] EXCEPT !.changes = record[t].changes \o new]]
    BY <1>1
  <2> DEFINE r == [record[t] EXCEPT !.changes = record[t].changes \o new]
  <2>2. r \in WalRecords /\ r.commit_version = record[t].commit_version /\ r.changes = record[t].changes \o new
    BY <1>4, <1>7 DEF WalRecords
  <2> HIDE DEF r
  <2>3. record' = [record EXCEPT ![t] = r]
    BY <2>1 DEF r
  <2> QED  BY <1>4, <2>2, <2>3
<1>9. todo' \in [Tx -> Seq(Keys)]
  BY <1>1, <1>2 DEF DataInv, DataType
<1>10. DataType'
  BY <1>1, <1>8, <1>9 DEF DataInv, DataType, VacuumShape
<1>11. MutexInv' /\ ApplyInv'
  BY <1>1 DEF DataInv, MutexInv, ApplyInv
<1>12. VersionInv'
  BY <1>1, <1>8 DEF DataInv, VersionInv
<1>13. HistoryInv'
  <2>1. ASSUME NEW u \in Tx, pc'[u] = "prepare", NEW c \in Range(record'[u].changes)
        PROVE  SoundIn(Range(durable'), record'[u], c)
    <3>1. CASE u # t
      BY <1>1, <1>8, <2>1, <3>1 DEF DataInv, HistoryInv
    <3>2. CASE u = t
      <4>1. SoundIn(D, record[t], c)
        BY <1>1, <1>6, <1>7, <1>8, <2>1, <3>2 DEF DataInv, HistoryInv
      <4> QED  BY <1>1, <1>8, <3>2, <4>1 DEF SoundIn
    <3> QED  BY <3>1, <3>2
  <2> QED  BY <1>1, <2>1 DEF DataInv, HistoryInv
<1> QED  BY <1>10, <1>11, <1>12, <1>13 DEF DataInv

\* The finished record joins the pending ones.
LEMMA EnqueueKeeps ==
    ASSUME DataInv, NEW t \in Tx, enqueue(t)
    PROVE  DataInv'
<1>1. /\ UNCHANGED <<map, undo, seen, call, batch, durable, applying, vacuum, record, todo,
                     next_commit_version>>
      /\ pc[t] = "prepare" /\ queue' = None
      /\ pending' = Append(pending, record[t])
      /\ \E p \in {"queued", "lead"} : pc' = [pc EXCEPT ![t] = p]
  BY DEF enqueue, Goto
<1>2. pending \in Seq(WalRecords) /\ record[t] \in WalRecords
  BY DEF DataInv, DataType
<1>3. pending' \in Seq(WalRecords) /\ Range(pending') = Range(pending) \cup {record[t]}
  BY <1>1, <1>2, RangeGrows
<1>4. pc' \in [Tx -> Pcs] /\ pc'[t] \in {"queued", "lead"} /\ \A u \in Tx \ {t} : pc'[u] = pc[u]
  BY <1>1 DEF DataInv, DataType, Pcs
<1>5. DataType'
  BY <1>1, <1>3, <1>4 DEF DataInv, DataType, VacuumShape
<1>6. \A u \in Tx : pc'[u] \notin InQueue
  BY <1>1, <1>4 DEF DataInv, MutexInv, InQueue
<1>7. MutexInv' /\ ApplyInv'
  BY <1>6 DEF MutexInv, ApplyInv, InQueue
<1>8. VersionInv'
  <2>1. record[t].commit_version = next_commit_version /\ next_commit_version \in Nat
    BY <1>1 DEF DataInv, VersionInv, DataType
  <2> QED  BY <1>1, <1>3, <1>6, <2>1 DEF DataInv, VersionInv, InQueue
<1>9. \A c \in Range(record[t].changes) : SoundIn(Range(durable), record[t], c)
  BY <1>1 DEF DataInv, HistoryInv
<1>10. HistoryInv'
  BY <1>1, <1>3, <1>4, <1>6, <1>9 DEF DataInv, HistoryInv, InQueue
<1> QED  BY <1>5, <1>7, <1>8, <1>10 DEF DataInv

\* The leader takes the pending records.
LEMMA LeadKeeps ==
    ASSUME DataInv, NEW t \in Tx, lead(t)
    PROVE  DataInv'
<1>1. /\ UNCHANGED <<map, undo, seen, call, durable, applying, vacuum, record, todo, next_commit_version>>
      /\ queue = None /\ queue' = t /\ batch' = pending /\ pending' = <<>>
      /\ pc' = [pc EXCEPT ![t] = "sync"]
  BY DEF lead, Goto
<1>2. pc' \in [Tx -> Pcs] /\ pc'[t] = "sync" /\ \A u \in Tx \ {t} : pc'[u] = pc[u]
  BY <1>1 DEF DataInv, DataType, Pcs
<1>3. DataType'
  BY <1>1, <1>2 DEF DataInv, DataType, VacuumShape
<1>4. \A u \in Tx : pc[u] \notin InQueue
  BY <1>1, NoneAssumption DEF DataInv, MutexInv
<1>5. MutexInv' /\ ApplyInv'
  BY <1>1, <1>2, <1>4 DEF MutexInv, ApplyInv, InQueue
<1>6. Range(pending') = {}
  BY <1>1 DEF Range
<1>7. VersionInv'
  BY <1>1, <1>2, <1>4, <1>6 DEF DataInv, VersionInv, InQueue
<1>8. HistoryInv'
  BY <1>1, <1>2, <1>4, <1>6 DEF DataInv, HistoryInv, InQueue
<1> QED  BY <1>3, <1>5, <1>7, <1>8 DEF DataInv

\* The batch is durable, and its changes are to be put into the maps.
LEMMA SyncKeeps ==
    ASSUME DataInv, NEW t \in Tx, sync_succeeds(t)
    PROVE  DataInv'
<1>1. /\ UNCHANGED <<map, undo, seen, call, pending, batch, vacuum, record, todo, queue, next_commit_version>>
      /\ pc[t] = "sync" /\ pc' = [pc EXCEPT ![t] = "apply"]
      /\ durable' = durable \o batch /\ applying' = Positions(batch)
  BY DEF sync_succeeds, Goto
<1>2. pc' \in [Tx -> Pcs] /\ pc'[t] = "apply" /\ \A u \in Tx \ {t} : pc'[u] = pc[u]
  BY <1>1 DEF DataInv, DataType, Pcs
<1>3. durable \in Seq(WalRecords) /\ batch \in Seq(WalRecords) /\ record[t] \in WalRecords
  BY DEF DataInv, DataType
<1>4. durable' \in Seq(WalRecords) /\ Range(durable') = Range(durable) \cup Range(batch)
  BY <1>1, <1>3, RangeGrows
<1>5. DataType'
  BY <1>1, <1>2, <1>4 DEF DataInv, DataType, VacuumShape
<1>6. \A u \in Tx \ {t} : pc'[u] \notin InQueue
  BY <1>1, <1>2 DEF DataInv, MutexInv, InQueue
<1>7. MutexInv'
  BY <1>1, <1>2 DEF DataInv, MutexInv, InQueue
<1>8. ApplyInv'
  BY <1>1, <1>2, <1>4, <1>6 DEF ApplyInv, InQueue
<1>9. VersionInv'
  BY <1>1, <1>2, <1>4, <1>6 DEF DataInv, VersionInv, InQueue
<1>10. HistoryInv'
  <2>1. /\ \A k, vv : Sound(Range(durable), k, vv) => Sound(Range(durable'), k, vv)
        /\ \A r, c : SoundIn(Range(durable), r, c) => SoundIn(Range(durable'), r, c)
    BY <1>4, SoundGrows
  <2> QED  BY <1>1, <1>2, <1>6, <2>1 DEF DataInv, HistoryInv, InQueue
<1> QED  BY <1>5, <1>7, <1>8, <1>9, <1>10 DEF DataInv

\* The leader ends, with or without success.
LEMMA CompleteKeeps ==
    ASSUME DataInv, NEW t \in Tx, sync_fails(t) \/ publish(t)
    PROVE  DataInv'
<1>1. /\ UNCHANGED <<map, undo, seen, call, pending, vacuum, record, todo, durable, next_commit_version>>
      /\ pc[t] \in InQueue /\ pc' = [pc EXCEPT ![t] = "queued"]
      /\ queue' = None /\ batch' = <<>>
  BY DEF sync_fails, publish, Complete, Goto, InQueue
<1>2. pc' \in [Tx -> Pcs] /\ pc'[t] = "queued" /\ \A u \in Tx \ {t} : pc'[u] = pc[u]
  BY <1>1 DEF DataInv, DataType, Pcs
<1>3. DataType'
  BY <1>1, <1>2 DEF DataInv, DataType, VacuumShape
<1>4. \A u \in Tx : pc'[u] \notin InQueue
  BY <1>1, <1>2 DEF DataInv, MutexInv, InQueue
<1>5. MutexInv' /\ ApplyInv'
  BY <1>4 DEF MutexInv, ApplyInv, InQueue
<1>6. Range(batch') = {}
  BY <1>1 DEF Range
<1>7. VersionInv'
  BY <1>1, <1>4, <1>6 DEF DataInv, VersionInv, InQueue
<1>8. HistoryInv'
  BY <1>1, <1>2, <1>4, <1>6 DEF DataInv, HistoryInv, InQueue
<1> QED  BY <1>3, <1>5, <1>7, <1>8 DEF DataInv

\* A step that writes sound entries back and leaves threads and records alone.
LEMMA MapWriteKeeps ==
    ASSUME DataInv,
           UNCHANGED <<pc, todo, seen, call, record, pending, batch, durable, next_commit_version, queue>>,
           undo' \in [Tx -> Seq(Keys)], applying' \subseteq applying,
           map' \in [Keys -> MaybeEntries],
           \A k \in Keys : Sound(Range(durable), k, map'[k]),
           VacuumShape',
           vacuum'.at = "prune" => \A k \in Keys : Sound(Range(durable), k, vacuum'.entries[k])
    PROVE  DataInv'
<1>1. DataType'
  BY DEF DataInv, DataType
<1>2. MutexInv' /\ VersionInv' /\ ApplyInv'
  BY DEF DataInv, MutexInv, VersionInv, ApplyInv
<1>3. HistoryInv'
  BY DEF DataInv, HistoryInv
<1> QED  BY <1>1, <1>2, <1>3 DEF DataInv

\* The leader puts a change of a durable record into the map.
LEMMA ApplyKeeps ==
    ASSUME DataInv, NEW t \in Tx, apply_change(t)
    PROVE  DataInv'
<1>1. PICK p \in applying :
         LET c == batch[p[1]].changes[p[2]]
         IN  map' = [map EXCEPT ![c.key] = c.value] /\ applying' = applying \ {p}
  BY DEF apply_change
<1>2. /\ UNCHANGED <<undo, pc, todo, seen, call, record, pending, batch, durable, next_commit_version,
                     queue, vacuum>>
      /\ pc[t] = "apply"
  BY DEF apply_change
<1> DEFINE r == batch[p[1]]
           c == r.changes[p[2]]
<1>3. p \in Positions(batch) /\ Range(batch) \subseteq Range(durable)
  BY <1>2 DEF DataInv, ApplyInv
<1>4. p[1] \in DOMAIN batch /\ p[2] \in DOMAIN r.changes
  BY <1>3 DEF Positions
<1>5. r \in Range(batch) /\ c \in Range(r.changes)
  BY <1>4 DEF Range
<1>6. c \in Changes
  <2>1. r.changes \in Seq(Changes)
    BY <1>5, KnownRecords DEF DataInv, DataType
  <2> QED  BY <1>4, <2>1
<1>7. SoundIn(Range(durable), r, c)
  BY <1>5 DEF DataInv, HistoryInv
<1>8. Sound(Range(durable), c.key, c.value)
  BY <1>3, <1>5, <1>7, DurableChangeSound
<1>9. map' = [map EXCEPT ![c.key] = c.value] /\ applying' \subseteq applying
  BY <1>1
<1> HIDE DEF r, c
<1>10. /\ map' \in [Keys -> MaybeEntries]
       /\ \A k \in Keys : map'[k] = map[k] \/ (k = c.key /\ map'[k] = c.value)
  BY <1>6, <1>9 DEF DataInv, DataType, Changes
<1>11. \A k \in Keys : Sound(Range(durable), k, map'[k])
  BY <1>8, <1>10 DEF DataInv, HistoryInv
<1>12. /\ undo' \in [Tx -> Seq(Keys)] /\ VacuumShape'
       /\ vacuum'.at = "prune" => \A k \in Keys : Sound(Range(durable), k, vacuum'.entries[k])
  BY <1>2 DEF DataInv, DataType, HistoryInv, VacuumShape
<1> QED  BY <1>2, <1>9, <1>10, <1>11, <1>12, MapWriteKeeps

\* A rollback takes the transaction's own record out of the entry.
LEMMA UndoKeeps ==
    ASSUME DataInv, NEW t \in Tx, undo_entry(t)
    PROVE  DataInv'
<1> DEFINE k == Last(undo[t])
<1>1. /\ UNCHANGED <<applying, pc, todo, seen, call, record, pending, batch, durable, next_commit_version,
                     queue, vacuum>>
      /\ undo[t] # <<>> /\ undo' = [undo EXCEPT ![t] = Front(undo[t])]
      /\ map' = [map EXCEPT ![k] = RolledBack(t, map[k])]
  <2>1. undo' = [undo EXCEPT ![t] = Front(undo[t])]
    BY DEF undo_entry
  <2> QED  BY <2>1 DEF undo_entry
<1>2. k \in Keys /\ Front(undo[t]) \in Seq(Keys)
  <2>1. undo[t] \in Seq(Keys)
    BY DEF DataInv, DataType
  <2>2. Len(undo[t]) \in Nat /\ Len(undo[t]) # 0
    BY <1>1, <2>1
  <2> QED  BY <2>1, <2>2 DEF Last, Front
<1> HIDE DEF k
<1>3. map[k] \in MaybeEntries /\ Sound(Range(durable), k, map[k])
  BY <1>2 DEF DataInv, DataType, HistoryInv
<1>4. RolledBack(t, map[k]) \in MaybeEntries /\ Sound(Range(durable), k, RolledBack(t, map[k]))
  BY <1>3, UncommittedKeepsHistory
<1>5. /\ map' \in [Keys -> MaybeEntries] /\ undo' \in [Tx -> Seq(Keys)]
      /\ \A j \in Keys : map'[j] = map[j] \/ (j = k /\ map'[j] = RolledBack(t, map[k]))
  BY <1>1, <1>2, <1>4 DEF DataInv, DataType
<1>6. \A j \in Keys : Sound(Range(durable), j, map'[j])
  BY <1>4, <1>5 DEF DataInv, HistoryInv
<1>7. /\ VacuumShape'
      /\ vacuum'.at = "prune" => \A j \in Keys : Sound(Range(durable), j, vacuum'.entries[j])
  BY <1>1 DEF DataInv, DataType, HistoryInv, VacuumShape
<1> QED  BY <1>1, <1>5, <1>6, <1>7, MapWriteKeeps

\* The vacuum writes back what it scanned, pruned, or removes the entry.
LEMMA VacuumKeeps ==
    ASSUME DataInv, vacuum_step
    PROVE  DataInv'
<1>1. UNCHANGED <<undo, applying, pc, todo, seen, call, record, pending, batch, durable,
                  next_commit_version, queue>>
  BY DEF vacuum_step, vacuum_horizon, vacuum_scan, vacuum_entry, vacuum_returns
<1>2. /\ map \in [Keys -> MaybeEntries] /\ undo' \in [Tx -> Seq(Keys)] /\ applying' \subseteq applying
      /\ \A k \in Keys : Sound(Range(durable), k, map[k])
  BY <1>1 DEF DataInv, DataType, HistoryInv
<1>3. /\ vacuum = [at |-> vacuum.at, runs |-> vacuum.runs, horizon |-> vacuum.horizon,
                   entries |-> vacuum.entries, left |-> vacuum.left]
      /\ vacuum.at = "prune" => /\ vacuum.entries \in [Keys -> MaybeEntries]
                                /\ vacuum.left \subseteq {k \in Keys : vacuum.entries[k] # NoValue}
                                /\ \A k \in Keys : Sound(Range(durable), k, vacuum.entries[k])
  BY DEF DataInv, DataType, VacuumShape, HistoryInv
<1>4. ASSUME NEW a, NEW n, NEW h, NEW e, NEW l,
             vacuum' = [at |-> a, runs |-> n, horizon |-> h, entries |-> e, left |-> l],
             a = "prune" => /\ e \in [Keys -> MaybeEntries] /\ l \subseteq {k \in Keys : e[k] # NoValue}
                            /\ \A k \in Keys : Sound(Range(durable), k, e[k])
      PROVE  /\ VacuumShape'
             /\ vacuum'.at = "prune" => \A k \in Keys : Sound(Range(durable), k, vacuum'.entries[k])
  <2>1. vacuum'.at = a /\ vacuum'.runs = n /\ vacuum'.horizon = h /\ vacuum'.entries = e /\ vacuum'.left = l
    BY <1>4
  <2> QED  BY <1>4, <2>1 DEF VacuumShape
<1>5. CASE vacuum_horizon
  <2>1. vacuum' = [at |-> "scan", runs |-> vacuum.runs + 1, horizon |-> oldest_active_version,
                   entries |-> vacuum.entries, left |-> vacuum.left]
    BY <1>3, <1>5 DEF vacuum_horizon
  <2>2. UNCHANGED map
    BY <1>5 DEF vacuum_horizon
  <2> QED  BY <1>1, <1>2, <1>4, <2>1, <2>2, MapWriteKeeps
<1>6. CASE vacuum_scan
  <2>1. vacuum' = [at |-> "prune", runs |-> vacuum.runs, horizon |-> vacuum.horizon,
                   entries |-> map, left |-> {k \in Keys : map[k] # NoValue}]
    BY <1>3, <1>6 DEF vacuum_scan
  <2>2. UNCHANGED map
    BY <1>6 DEF vacuum_scan
  <2> QED  BY <1>1, <1>2, <1>4, <2>1, <2>2, MapWriteKeeps
<1>7. CASE vacuum_entry
  <2> DEFINE k == CHOOSE k \in vacuum.left : \A j \in vacuum.left : k <= j
             vv == vacuum.entries[k]
             pruned == prune_old_versions(vv, vacuum.horizon)
  <2>1. /\ vacuum.at = "prune"
        /\ \/ map' = [map EXCEPT ![k] = NoValue]
           \/ map' = [map EXCEPT ![k] = pruned]
           \/ map' = map
        /\ vacuum' = [vacuum EXCEPT !.left = vacuum.left \ {k}]
    BY <1>7 DEF vacuum_entry
  <2>0. k \in Keys /\ vv # NoValue
    <3>1. vacuum.left # {} /\ vacuum.left \subseteq {j \in Keys : vacuum.entries[j] # NoValue}
      BY <1>3, <1>7 DEF vacuum_entry
    <3>2. vacuum.left \in SUBSET Nat
      BY <3>1, KeysAssumption
    <3>3. k \in vacuum.left
      BY <3>1, <3>2, LeastNumber
    <3> QED  BY <3>1, <3>3
  <2> HIDE DEF k
  <2>2. vacuum' = [at |-> vacuum.at, runs |-> vacuum.runs, horizon |-> vacuum.horizon,
                   entries |-> vacuum.entries, left |-> vacuum.left \ {k}]
    BY <1>3, <2>1
  <2>3. pruned \in MaybeEntries /\ Sound(Range(durable), k, pruned)
    <3>1. vv \in Entries /\ Sound(Range(durable), k, vv)
      BY <1>3, <2>0, <2>1 DEF MaybeEntries
    <3> HIDE DEF vv
    <3> QED  BY <2>0, <3>1, PruneSound DEF MaybeEntries
  <2> HIDE DEF pruned, vv
  <2>4. map' \in [Keys -> MaybeEntries] /\ \A j \in Keys : Sound(Range(durable), j, map'[j])
    <3>1. NoValue \in MaybeEntries /\ Sound(Range(durable), k, NoValue)
      BY DEF MaybeEntries, Sound
    <3> QED  BY <1>2, <2>0, <2>1, <2>3, <3>1
  <2>5. /\ VacuumShape'
        /\ vacuum'.at = "prune" => \A j \in Keys : Sound(Range(durable), j, vacuum'.entries[j])
    BY <1>3, <1>4, <2>2
  <2> QED  BY <1>1, <1>2, <2>4, <2>5, MapWriteKeeps
<1>8. CASE vacuum_returns
  <2>1. vacuum' = [at |-> "idle", runs |-> vacuum.runs, horizon |-> 0, entries |-> <<>>, left |-> {}]
    BY <1>8 DEF vacuum_returns, Idle
  <2>2. UNCHANGED map
    BY <1>8 DEF vacuum_returns
  <2> QED  BY <1>1, <1>2, <1>4, <2>1, <2>2, MapWriteKeeps
<1> QED  BY <1>5, <1>6, <1>7, <1>8 DEF vacuum_step

\* The load is one record with a change for every key loaded.
LEMMA LoadIsRecord ==
    ASSUME NEW L \in SUBSET Keys
    PROVE  /\ LoadRecord(L) \in WalRecords
           /\ LoadRecord(L).commit_version = 1
           /\ \A k \in L : \E c \in Range(LoadRecord(L).changes) : c.key = k
           /\ \A c \in Range(LoadRecord(L).changes) : c.key \in L /\ c = [key |-> c.key, value |-> LoadedVV]
<1> DEFINE n == Cardinality(L)
           Orders == {s \in [1 .. n -> L] : Range(s) = L}
           order == CHOOSE s \in [1 .. n -> L] : Range(s) = L
           changes == [i \in DOMAIN order |-> [key |-> order[i], value |-> LoadedVV]]
<1>1. n \in Nat /\ ExistsBijection(1 .. n, L)
  BY KeysAssumption, FS_Subset, FS_CardinalityType
<1>2. Orders # {}
  <2>1. PICK f : f \in Bijection(1 .. n, L)
    BY <1>1 DEF ExistsBijection
  <2>2. f \in [1 .. n -> L] /\ \A x \in L : \E i \in 1 .. n : f[i] = x
    BY <2>1 DEF Bijection, Surjection
  <2>3. DOMAIN f = 1 .. n /\ Range(f) = L
    BY <2>2 DEF Range
  <2> QED  BY <2>2, <2>3
<1>3. order \in [1 .. n -> L] /\ Range(order) = L
  BY <1>2
<1> HIDE DEF order
<1>4. LoadedVV \in Entries
  <2>1. [value |-> Loaded, commit_version |-> 1] \in Versions
    BY DEF Versions
  <2> QED  BY <2>1 DEF LoadedVV, Entries
<1>5. changes \in [1 .. n -> Changes]
  BY <1>3, <1>4 DEF Changes, MaybeEntries
<1>6. changes \in Seq(Changes)
  BY <1>1, <1>5
<1>7. \A k \in L : \E c \in Range(changes) : c.key = k
  <2> SUFFICES ASSUME NEW k \in L PROVE \E c \in Range(changes) : c.key = k
    OBVIOUS
  <2>1. PICK i \in DOMAIN order : order[i] = k
    BY <1>3 DEF Range
  <2>2. changes[i].key = k /\ i \in DOMAIN changes
    BY <2>1
  <2> QED  BY <2>2 DEF Range
<1>8. \A c \in Range(changes) : c.key \in L /\ c = [key |-> c.key, value |-> LoadedVV]
  BY <1>3 DEF Range
<1> HIDE DEF changes
<1>9. LoadRecord(L) = [tx_id |-> None, commit_version |-> 1, changes |-> changes]
  BY DEF LoadRecord, changes, order
<1> QED  BY <1>6, <1>7, <1>8, <1>9 DEF WalRecords

LEMMA DataInit ==
    ASSUME Init
    PROVE  DataInv
<1>1. PICK L \in SUBSET Keys :
         /\ map = [k \in Keys |-> IF k \in L THEN LoadedVV ELSE NoValue]
         /\ durable = IF L = {} THEN <<>> ELSE <<LoadRecord(L)>>
  BY DEF Init
<1>2. /\ LoadRecord(L) \in WalRecords /\ LoadRecord(L).commit_version = 1
      /\ \A k \in L : \E c \in Range(LoadRecord(L).changes) : c.key = k
  BY LoadIsRecord
<1>3. durable \in Seq(WalRecords) /\ (\A r \in Range(durable) : r = LoadRecord(L))
      /\ (L # {} => LoadRecord(L) \in Range(durable))
  BY <1>1, <1>2 DEF Range
<1>4. /\ LoadedVV \in Entries
      /\ LoadedVV.committed_history = <<[value |-> Loaded, commit_version |-> 1]>>
  <2>1. [value |-> Loaded, commit_version |-> 1] \in Versions
    BY DEF Versions
  <2> QED  BY <2>1 DEF LoadedVV, Entries
<1>5. /\ pc = [t \in Tx |-> "begin"] /\ undo = [t \in Tx |-> <<>>] /\ todo = [t \in Tx |-> <<>>]
      /\ seen = [t \in Tx |-> NoValue] /\ call = [t \in Tx |-> NoValue]
      /\ record = [t \in Tx |-> NoRecord] /\ pending = <<>> /\ batch = <<>>
      /\ next_commit_version = 1
  BY DEF Init
<1>6. NoRecord \in WalRecords
  BY DEF NoRecord, WalRecords
<1>7. map \in [Keys -> MaybeEntries]
  BY <1>1, <1>4 DEF MaybeEntries
<1>8. VacuumShape /\ vacuum.at = "idle"
  <2>1. vacuum = Idle
    BY DEF Init
  <2> QED  BY <2>1 DEF VacuumShape, Idle
<1>9. /\ undo \in [Tx -> Seq(Keys)] /\ todo \in [Tx -> Seq(Keys)]
      /\ pending \in Seq(WalRecords) /\ batch \in Seq(WalRecords)
      /\ Range(pending) = {} /\ Range(batch) = {}
  BY <1>5 DEF Range
<1>10. /\ pc \in [Tx -> Pcs] /\ seen \in [Tx -> MaybeEntries] /\ call \in [Tx -> Calls \cup {NoValue}]
       /\ record \in [Tx -> WalRecords] /\ next_commit_version \in Nat
       /\ \A t \in Tx : pc[t] = "begin"
  BY <1>5, <1>6 DEF Pcs, MaybeEntries
<1>11. DataType
  BY <1>3, <1>7, <1>8, <1>9, <1>10 DEF DataType
<1>12. MutexInv /\ ApplyInv
  BY <1>10 DEF MutexInv, ApplyInv, InQueue
<1>13. VersionInv
  BY <1>2, <1>3, <1>5, <1>9, <1>10 DEF VersionInv
<1>14. ASSUME NEW k \in Keys PROVE Sound(Range(durable), k, map[k])
  <2>1. CASE k \notin L
    BY <1>1, <2>1 DEF Sound
  <2>2. CASE k \in L
    <3>1. map[k] = LoadedVV
      BY <1>1, <2>2
    <3>2. Backed(Range(durable), k, 1)
      BY <1>2, <1>3, <2>2 DEF Backed
    <3> QED  BY <1>4, <3>1, <3>2 DEF Sound, Descending
  <2> QED  BY <2>1, <2>2
<1>15. HistoryInv
  BY <1>8, <1>9, <1>10, <1>14 DEF HistoryInv
<1> QED  BY <1>11, <1>12, <1>13, <1>15 DEF DataInv

LEMMA DataNext ==
    ASSUME DataInv, [Next]_vars
    PROVE  DataInv'
<1>1. CASE UNCHANGED vars
  BY <1>1 DEF vars, dataVars, DataInv, DataType, VacuumShape, MutexInv, VersionInv, HistoryInv, ApplyInv
<1>2. ASSUME NEW t \in Tx, \/ begin_read_version(t) \/ begin_enter(t) \/ write_conflict(t) \/ wait_step(t)
                           \/ commit_empty(t) \/ append_fails(t) \/ commit_returns(t) \/ commit_failed(t)
                           \/ rollback_call(t) \/ rollback_returns(t) \/ leave_step(t)
      PROVE  DataInv'
  <2>1. Quiet(t)
    BY <1>2, QuietSteps DEF DataInv
  <2> QED  BY <2>1, QuietKeeps
<1>3. ASSUME NEW t \in Tx, NEW k \in Keys, NEW v \in {t} \cup (IF Removes THEN {NoValue} ELSE {}),
             write_call(t, k, v)
      PROVE  DataInv'
  <2>1. v \in Tx \cup {NoValue} /\ pc[t] = "idle" /\ lock_and_read(t, k, v)
    BY <1>3 DEF write_call
  <2> QED  BY <2>1, ReadKeeps
<1>4. ASSUME NEW t \in Tx, write_retry(t) PROVE DataInv'
  <2>1. pc[t] = "retry" /\ lock_and_read(t, call[t].key, call[t].value)
    BY <1>4 DEF write_retry
  <2>2. call[t].key \in Keys /\ call[t].value \in Tx \cup {NoValue}
    BY <2>1 DEF DataInv, DataType, Calls
  <2> QED  BY <2>1, <2>2, ReadKeeps
<1>5. ASSUME NEW t \in Tx, write_install(t) \/ commit_start(t) \/ prepare_entry(t) \/ enqueue(t)
                           \/ lead(t) \/ undo_entry(t)
      PROVE  DataInv'
  BY <1>5, InstallKeeps, StartKeeps, PrepareKeeps, EnqueueKeeps, LeadKeeps, UndoKeeps
<1>6. ASSUME NEW t \in Tx, sync_succeeds(t) \/ sync_fails(t) \/ apply_change(t) \/ publish(t)
      PROVE  DataInv'
  BY <1>6, SyncKeeps, CompleteKeeps, ApplyKeeps
<1>7. CASE vacuum_step
  BY <1>7, VacuumKeeps
<1> QED  BY <1>1, <1>2, <1>3, <1>4, <1>5, <1>6, <1>7 DEF Next, commit_step, rollback_step

\* Entries in the map, on their way through a put, a commit or the vacuum, hold
\* durable versions only, newest first.
THEOREM EntriesStaySound == Spec => []DataInv
<1>1. Init => DataInv
  BY DataInit
<1>2. DataInv /\ [Next]_vars => DataInv'
  BY DataNext
<1> QED  BY <1>1, <1>2, PTL DEF Spec

\* A version is in an entry only when the record that carries it is durable,
\* and the versions of an entry descend: commit_with syncs before it applies,
\* and what put, rollback and vacuum write back is never newer than the WAL.
THEOREM DurableFirst == Spec => []DurableBeforeVisible
<1>1. DataInv => DurableBeforeVisible
  <2> SUFFICES ASSUME DataInv, NEW k \in Keys, map[k] # NoValue,
                      NEW i \in DOMAIN map[k].committed_history
               PROVE  LET history == map[k].committed_history
                      IN  /\ \E j \in DOMAIN durable :
                                /\ durable[j].commit_version = history[i].commit_version
                                /\ k \in {c.key : c \in Range(durable[j].changes)}
                          /\ \A j \in DOMAIN history :
                                i < j => history[i].commit_version > history[j].commit_version
    BY DEF DurableBeforeVisible
  <2> DEFINE h == map[k].committed_history
  <2>1. Backed(Range(durable), k, h[i].commit_version) /\ Descending(h)
    BY DEF DataInv, HistoryInv, Sound
  <2>2. PICK r \in Range(durable) : r.commit_version = h[i].commit_version /\ \E c \in Range(r.changes) : c.key = k
    BY <2>1 DEF Backed
  <2>3. PICK j \in DOMAIN durable : durable[j] = r
    BY DEF Range
  <2> QED  BY <2>1, <2>2, <2>3 DEF Descending
<1> QED  BY <1>1, EntriesStaySound, PTL

=============================================================================
