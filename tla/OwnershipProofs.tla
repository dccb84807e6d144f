-------------------------- MODULE OwnershipProofs --------------------------
(***************************************************************************)
(* Proofs about who owns the entries of the map, and about what a snapshot *)
(* reads, for any transactions and keys, when no vacuum runs and no        *)
(* transaction writes a key twice; for snapshots also when no two open     *)
(* transactions write the same key, for a put that waited loses the commit *)
(* of the other (with any of the three the properties fail: see the        *)
(* README).                                                                *)
(***************************************************************************)
EXTENDS TransactionsProofs

----------------------------------------------------------------------------
(* The invariant.                                                          *)
(*                                                                         *)
(* From the put that installs it until the change of its commit is applied *)
(* or its rollback takes it out, a record of t is in the entry (OwnInv).   *)
(* Only holders of the stripe may install or take out, and an entry that   *)
(* a put has read can change before it installs only when a leader settles *)
(* it (SeenInv); the put then waits for the transaction it saw, or comes   *)
(* after it (AppliedInv). RecordInv follows what is logged.                *)

\* vv holds the uncommitted record of t; nobody's; a committed value x.
HeldBy(vv, t) == vv # NoValue /\ vv.uncommitted # NoValue /\ vv.uncommitted.tx_id = t
Settled(vv) == vv # NoValue => vv.uncommitted = NoValue
Has(vv, x) == vv # NoValue /\ \E i \in DOMAIN vv.committed_history : vv.committed_history[i].value = x

Open(t) == pc[t] \notin {"begin", "enter", "end"}
Committing == {"queued", "lead", "sync", "apply"}
Writing == {"locked", "wait", "retry"}
Applies == \E u \in Tx : pc[u] = "apply"
Logged(t) == \E r \in Range(durable) : r.tx_id = t

\* No transaction has two records in s.
OneEach(s) == \A i, j \in DOMAIN s : s[i].tx_id = s[j].tx_id => i = j

ThreadInv ==
    /\ active \subseteq Tx /\ \A t \in Tx : t \in active <=> Open(t)
    /\ DOMAIN stripe = Keys
    /\ \A t \in Tx : pc[t] = "locked" => stripe[call[t].key] = t
    /\ vacuum = Idle

UndoInv ==
    \A t \in Tx :
        /\ \A i, j \in DOMAIN undo[t] : undo[t][i] = undo[t][j] => i = j
        /\ pc[t] \in {"begin", "enter"} => undo[t] = <<>>
        /\ pc[t] \in Writing => call[t].key \notin Range(undo[t]) /\ call[t].value \in {t, NoValue}

OutcomeInv ==
    /\ DOMAIN outcome = Tx /\ DOMAIN status = Tx
    /\ \A t \in Tx :
          /\ outcome[t] \in {NoValue, "ok", "failed"}
          /\ outcome[t] = "ok" => pc[t] \in {"queued", "end"} /\ Logged(t)
          /\ outcome[t] = "failed" => pc[t] \in {"queued", "undo", "end"} /\ ~ Logged(t)
          /\ status[t] = "Committed" => pc[t] = "end" /\ (undo[t] = <<>> \/ outcome[t] = "ok")
          /\ status[t] = "RolledBack" => pc[t] = "end" /\ undo[t] = <<>> /\ outcome[t] # "ok"

\* The record of t: a change for each undo entry prepared so far.
Prepares(t) ==
    /\ record[t].tx_id = t
    /\ Len(record[t].changes) + Len(todo[t]) = Len(undo[t])
    /\ \A i \in DOMAIN record[t].changes :
          LET c == record[t].changes[i]
          IN  /\ c.key = undo[t][i]
              /\ c.value # NoValue /\ c.value.uncommitted = NoValue /\ c.value.committed_history # <<>>
    /\ \A i \in DOMAIN todo[t] : todo[t][i] = undo[t][Len(record[t].changes) + i]

RecordInv ==
    /\ \A t \in Tx : pc[t] = "prepare" => Prepares(t)
    /\ \A t \in Tx : pc[t] \in Committing \/ Logged(t) => Prepares(t) /\ todo[t] = <<>>
    /\ \A r \in Range(pending) \cup Range(batch) :
          r.tx_id \in Tx /\ r = record[r.tx_id] /\ pc[r.tx_id] \in Committing /\ outcome[r.tx_id] = NoValue
    /\ OneEach(pending) /\ OneEach(batch)
    /\ \A r \in Range(pending), s \in Range(batch) : r.tx_id # s.tx_id
    /\ \A r \in Range(durable) : r.tx_id \in Tx =>
          r = record[r.tx_id] /\ (outcome[r.tx_id] = "ok" \/ (Applies /\ r \in Range(batch)))

PosTx(p) == batch[p[1]].tx_id
PosChange(p) == batch[p[1]].changes[p[2]]

OwnInv ==
    /\ \A t \in Tx : \A k \in Range(undo[t]) : Open(t) /\ ~ Logged(t) => HeldBy(map[k], t)
    /\ \A t \in Tx, k \in Keys : HeldBy(map[k], t) =>
          /\ k \in Range(undo[t]) /\ Open(t)
          /\ map[k].uncommitted.value \in {t, NoValue}
          /\ Logged(t) => \E p \in applying : PosTx(p) = t /\ PosChange(p).key = k

SeenInv == \A u \in Tx : pc[u] = "locked" => map[call[u].key] = seen[u] \/ Settled(map[call[u].key])

AppliedInv ==
    /\ ~ Applies => applying = {}
    /\ \A p \in applying : HeldBy(map[PosChange(p).key], PosTx(p))
    /\ Applies =>
          /\ \A p, q \in Positions(batch) : PosChange(p).key = PosChange(q).key => p = q
          /\ \A p \in Positions(batch) \ applying :
                LET c == PosChange(p)
                IN  /\ map[c.key] # NoValue
                    /\ c.value.committed_history[1] \in Range(map[c.key].committed_history)
                    /\ \A u \in Tx : pc[u] = "locked" /\ call[u].key = c.key =>
                          seen[u] = map[c.key] \/ HeldBy(seen[u], PosTx(p))

ValuesInv ==
    \A x \in Tx :
        /\ \A k \in Keys : Has(map[k], x) => Logged(x)
        /\ \A u \in Tx : pc[u] = "locked" /\ Has(seen[u], x) => Logged(x)
        /\ \A t \in Tx : pc[t] \in {"prepare"} \cup Committing =>
              \A c \in Range(record[t].changes) : Has(c.value, x) => x = t \/ Logged(x)

\* At most one transaction leads.
LeadInv ==
    /\ leader \in BOOLEAN
    /\ \A u \in Tx : pc[u] \in Leads => leader /\ \A w \in Tx : pc[w] \in Leads => w = u

OwnershipInv ==
    /\ DataInv /\ LeadInv /\ ThreadInv /\ UndoInv /\ OutcomeInv /\ RecordInv /\ OwnInv /\ SeenInv
    /\ AppliedInv /\ ValuesInv

----------------------------------------------------------------------------
(* Steps that only move the thread of a transaction.                       *)

Move(t, p) ==
    /\ UNCHANGED <<map, undo, todo, seen, call, record, pending, batch, durable, applying, outcome, vacuum>>
    /\ pc' = [pc EXCEPT ![t] = p]
    /\ \/ /\ <<pc[t], p>> \in {<<"begin", "enter">>, <<"idle", "undo">>, <<"prepare", "undo">>, <<"end", "end">>}
                              \cup {"wait"} \X {"wait", "retry", "idle", "undo"}
          /\ UNCHANGED <<active, status, stripe>>
       \/ /\ pc[t] = "queued" /\ p = "undo" /\ outcome[t] = "failed"
          /\ UNCHANGED <<active, status, stripe>>
       \/ /\ pc[t] = "enter" /\ p = "idle" /\ active' = active \cup {t}
          /\ UNCHANGED <<status, stripe>>
       \/ /\ pc[t] = "locked" /\ p = "wait" /\ stripe' = [stripe EXCEPT ![call[t].key] = None]
          /\ UNCHANGED <<active, status>>
       \/ /\ p = "end" /\ active' = active \ {t} /\ UNCHANGED stripe
          /\ \/ /\ pc[t] = "idle" /\ undo[t] = <<>> /\ status' = [status EXCEPT ![t] = "Committed"]
             \/ /\ pc[t] = "queued" /\ outcome[t] = "ok" /\ status' = [status EXCEPT ![t] = "Committed"]
             \/ /\ pc[t] = "undo" /\ undo[t] = <<>> /\ status' = [status EXCEPT ![t] = "RolledBack"]

LEMMA Moves ==
    ASSUME DataType, NEW t \in Tx,
           \/ begin_read_version(t) \/ begin_enter(t) \/ write_conflict(t) \/ wait_step(t)
           \/ commit_empty(t) \/ append_fails(t) \/ commit_returns(t) \/ commit_failed(t)
           \/ rollback_call(t) \/ rollback_returns(t) \/ leave_step(t)
    PROVE  \E p \in Pcs : Move(t, p)
<1>1. pc = [pc EXCEPT ![t] = pc[t]]
  BY DEF DataType
<1>2. CASE begin_read_version(t)
  <2>1. Move(t, "enter")
    BY <1>2 DEF Move, Goto, begin_read_version, lockVars
  <2> QED  BY <2>1 DEF Pcs
<1>3. CASE begin_enter(t)
  <2>1. Move(t, "idle")
    BY <1>3 DEF Move, Goto, begin_enter, begin
  <2> QED  BY <2>1 DEF Pcs
<1>4. CASE write_conflict(t)
  <2>1. Move(t, "wait")
    BY <1>4 DEF Move, Goto, write_conflict, conflict, Unlock
  <2> QED  BY <2>1 DEF Pcs
<1>5. CASE wait_step(t)
  <2>1. UNCHANGED active
    BY <1>5 DEF wait_step, register_wait, recheck_active, fetch_cell, wake, timeout, deadlock_error,
                query_timeout, leave_wait
  <2>2. pc[t] = "wait" /\ \E p \in {"wait", "undo", "retry", "idle"} : pc' = [pc EXCEPT ![t] = p]
    BY <1>1, <1>5 DEF wait_step, Goto
  <2>3. UNCHANGED <<map, undo, todo, seen, call, record, pending, batch, durable, applying, outcome,
                    vacuum, status, stripe>>
    BY <1>5 DEF wait_step
  <2>4. PICK p \in {"wait", "undo", "retry", "idle"} : pc' = [pc EXCEPT ![t] = p]
    BY <2>2
  <2>5. Move(t, p)
    BY <2>1, <2>2, <2>3, <2>4 DEF Move
  <2> QED  BY <2>5 DEF Pcs
<1>6. CASE commit_empty(t) \/ commit_returns(t)
  <2>1. Move(t, "end")
    BY <1>6 DEF Move, Goto, commit_empty, commit_returns, remove_active
  <2> QED  BY <2>1 DEF Pcs
<1>7. CASE append_fails(t) \/ commit_failed(t) \/ rollback_call(t)
  <2>1. Move(t, "undo")
    BY <1>7 DEF Move, Goto, append_fails, commit_failed, rollback_call, lockVars
  <2> QED  BY <2>1 DEF Pcs
<1>8. CASE rollback_returns(t)
  <2>1. Move(t, "end")
    BY <1>8 DEF Move, Goto, rollback_returns, remove_active
  <2> QED  BY <2>1 DEF Pcs
<1>9. CASE leave_step(t)
  <2>1. UNCHANGED active
    BY <1>9 DEF leave_step, unregister_self, notify_lock_released
  <2>2. Move(t, "end")
    BY <1>1, <1>9, <2>1 DEF Move, leave_step, dataVars
  <2> QED  BY <2>2 DEF Pcs
<1> QED  BY <1>2, <1>3, <1>4, <1>5, <1>6, <1>7, <1>8, <1>9

\* A transaction whose commit is acknowledged holds nothing.
LEMMA AcknowledgedHoldsNothing ==
    ASSUME OwnershipInv, NEW t \in Tx, outcome[t] = "ok", NEW k \in Keys
    PROVE  ~ HeldBy(map[k], t)
<1> SUFFICES ASSUME HeldBy(map[k], t) PROVE FALSE
  OBVIOUS
<1>1. Logged(t)
  BY DEF OwnershipInv, OutcomeInv
<1>2. PICK p \in applying : PosTx(p) = t
  BY <1>1 DEF OwnershipInv, OwnInv
<1>3. p \in Positions(batch)
  BY <1>2 DEF OwnershipInv, AppliedInv, DataInv, ApplyInv, Applies
<1>4. batch[p[1]] \in Range(batch)
  BY <1>3 DEF Positions, Range
<1>5. outcome[t] = NoValue
  BY <1>2, <1>4 DEF OwnershipInv, RecordInv, PosTx
<1> QED  BY <1>5, ValuesAssumption

LEMMA MoveKeeps ==
    ASSUME OwnershipInv, NEW t \in Tx, NEW p \in Pcs, Move(t, p)
    PROVE  ThreadInv' /\ UndoInv' /\ OutcomeInv' /\ RecordInv' /\ OwnInv' /\ SeenInv' /\ AppliedInv' /\ ValuesInv'
<1>1. UNCHANGED <<map, undo, todo, seen, call, record, pending, batch, durable, applying, outcome, vacuum>>
  BY DEF Move
<1>2. pc'[t] = p /\ \A u \in Tx \ {t} : pc'[u] = pc[u]
  BY DEF Move, OwnershipInv, DataInv, DataType
<1>3. /\ p \notin {"begin", "locked", "prepare"} \cup Committing
      /\ p \in Writing => pc[t] \in Writing
      /\ p = "enter" => pc[t] = "begin"
      /\ pc[t] # "apply"
  BY DEF Move, Committing, Writing
<1>4. (Applies' <=> Applies) /\ \A u : Logged(u)' <=> Logged(u)
  BY <1>1, <1>2, <1>3 DEF Applies, Logged, Committing
<1>5. \A u \in Tx : pc'[u] \in {"locked", "prepare"} \cup Committing => pc'[u] = pc[u]
  BY <1>2, <1>3
<1>6. ThreadInv'
  <2>1. pc'[t] = "end" <=> (p = "end")
    BY <1>2
  <2>2. active' \subseteq Tx /\ \A u \in Tx : u \in active' <=> Open(u)'
    BY <1>2 DEF Move, OwnershipInv, ThreadInv, Open
  <2>3. DOMAIN stripe' = Keys
    BY DEF Move, OwnershipInv, ThreadInv
  <2>4. ASSUME NEW u \in Tx, pc'[u] = "locked" PROVE stripe'[call'[u].key] = u
    <3>1. pc[u] = "locked" /\ u # t /\ stripe[call[u].key] = u
      BY <1>2, <1>3, <2>4 DEF OwnershipInv, ThreadInv
    <3>2. stripe' = stripe \/ (pc[t] = "locked" /\ stripe' = [stripe EXCEPT ![call[t].key] = None])
      BY DEF Move
    <3>3. pc[t] = "locked" => stripe[call[t].key] = t
      BY DEF OwnershipInv, ThreadInv
    <3>4. call[u].key \in DOMAIN stripe
      BY <3>1 DEF OwnershipInv, ThreadInv, DataInv, DataType, Calls
    <3> QED  BY <1>1, <3>1, <3>2, <3>3, <3>4
  <2> QED  BY <1>1, <2>2, <2>3, <2>4 DEF OwnershipInv, ThreadInv
<1>7. UndoInv'
  BY <1>1, <1>2, <1>3 DEF OwnershipInv, UndoInv
<1>8. OutcomeInv'
  <2>1. /\ DOMAIN outcome' = Tx /\ DOMAIN status' = Tx
        /\ \A u \in Tx \ {t} : status'[u] = status[u]
    BY <1>1 DEF Move, OwnershipInv, OutcomeInv
  <2>2. ASSUME NEW u \in Tx
        PROVE  /\ outcome[u] = "ok" => pc'[u] \in {"queued", "end"}
               /\ outcome[u] = "failed" => pc'[u] \in {"queued", "undo", "end"}
    BY <1>2 DEF Move, OwnershipInv, OutcomeInv
  <2>3. /\ status'[t] = "Committed" => pc'[t] = "end" /\ (undo[t] = <<>> \/ outcome[t] = "ok")
        /\ status'[t] = "RolledBack" => pc'[t] = "end" /\ undo[t] = <<>> /\ outcome[t] # "ok"
    BY <1>2 DEF Move, OwnershipInv, OutcomeInv
  <2> QED  BY <1>1, <1>2, <1>4, <2>1, <2>2, <2>3 DEF OwnershipInv, OutcomeInv
<1>9. RecordInv'
  <2>1. \A u \in Tx : Prepares(u)' <=> Prepares(u)
    BY <1>1 DEF Prepares
  <2>2. ASSUME NEW r \in Range(pending) \cup Range(batch) PROVE pc'[r.tx_id] \in Committing
    <3>1. r.tx_id \in Tx /\ pc[r.tx_id] \in Committing /\ outcome[r.tx_id] = NoValue
      BY DEF OwnershipInv, RecordInv
    <3>2. CASE r.tx_id = t
      BY <3>1, <3>2, ValuesAssumption DEF Move, Committing
    <3> QED  BY <1>2, <3>1, <3>2
  <2> QED  BY <1>1, <1>4, <1>5, <2>1, <2>2 DEF OwnershipInv, RecordInv
<1>10. OwnInv'
  <2>1. \A u \in Tx : Open(u)' /\ ~ Open(u) => undo[u] = <<>>
    BY <1>2 DEF Move, Open, OwnershipInv, UndoInv
  <2>2. ASSUME NEW u \in Tx, NEW k \in Keys, HeldBy(map[k], u) PROVE Open(u)'
    <3>1. k \in Range(undo[u]) /\ Open(u) /\ outcome[u] # "ok"
      BY <2>2, AcknowledgedHoldsNothing DEF OwnershipInv, OwnInv
    <3>2. undo[u] # <<>>
      BY <3>1 DEF Range
    <3> QED  BY <1>2, <3>1, <3>2 DEF Move, Open
  <2>3. \A u \in Tx : undo[u] = <<>> => Range(undo[u]) = {}
    BY DEF Range
  <2> QED  BY <1>1, <1>4, <2>1, <2>2, <2>3 DEF OwnershipInv, OwnInv, PosTx, PosChange
<1>11. SeenInv'
  BY <1>1, <1>5 DEF OwnershipInv, SeenInv
<1>12. AppliedInv'
  BY <1>1, <1>4, <1>5 DEF OwnershipInv, AppliedInv, PosTx, PosChange
<1>13. ValuesInv'
  BY <1>1, <1>4, <1>5 DEF OwnershipInv, ValuesInv
<1> QED  BY <1>6, <1>7, <1>8, <1>9, <1>10, <1>11, <1>12, <1>13

----------------------------------------------------------------------------
(* put and remove.                                                         *)

\* lock_key and map.get.
LEMMA ReadKeepsOwners ==
    ASSUME OwnershipInv, NEW t \in Tx, pc[t] \in {"idle", "retry"}, NEW k \in Keys,
           NEW v \in {t, NoValue}, k \notin Range(undo[t]), lock_and_read(t, k, v)
    PROVE  ThreadInv' /\ UndoInv' /\ OutcomeInv' /\ RecordInv' /\ OwnInv' /\ SeenInv' /\ AppliedInv' /\ ValuesInv'
<1>1. /\ UNCHANGED <<active, status, map, undo, todo, record, pending, batch, durable, applying, outcome, vacuum>>
      /\ seen' = [seen EXCEPT ![t] = map[k]] /\ stripe[k] = None
  BY DEF lock_and_read, lockVars
<1>2. \/ pc' = [pc EXCEPT ![t] = "idle"] /\ call' = [call EXCEPT ![t] = NoValue] /\ UNCHANGED stripe
      \/ /\ pc' = [pc EXCEPT ![t] = "locked"] /\ call' = [call EXCEPT ![t] = [key |-> k, value |-> v]]
         /\ stripe' = [stripe EXCEPT ![k] = t]
  BY DEF lock_and_read, Goto
<1>3. /\ \A u \in Tx \ {t} : pc'[u] = pc[u] /\ call'[u] = call[u] /\ seen'[u] = seen[u]
      /\ pc'[t] = "idle" \/ (/\ pc'[t] = "locked" /\ call'[t].key = k /\ call'[t].value = v
                             /\ seen'[t] = map[k] /\ stripe' = [stripe EXCEPT ![k] = t])
  BY <1>1, <1>2 DEF OwnershipInv, DataInv, DataType
<1>4. (Applies' <=> Applies) /\ \A u : Logged(u)' <=> Logged(u)
  BY <1>1, <1>3 DEF Applies, Logged
<1>5. \A u \in Tx : pc'[u] \in {"prepare"} \cup Committing => pc'[u] = pc[u]
  BY <1>3 DEF Committing
<1>6. ThreadInv'
  <2>1. \A u \in Tx : u \in active' <=> Open(u)'
    BY <1>1, <1>3 DEF OwnershipInv, ThreadInv, Open
  <2>2. DOMAIN stripe' = Keys
    BY <1>2 DEF OwnershipInv, ThreadInv
  <2>3. ASSUME NEW u \in Tx, pc'[u] = "locked" PROVE stripe'[call'[u].key] = u
    <3>1. CASE u = t
      BY <1>3, <2>3, <3>1 DEF OwnershipInv, ThreadInv
    <3>2. CASE u # t
      <4>1. pc[u] = "locked" /\ call'[u].key = call[u].key /\ stripe[call[u].key] = u
        BY <1>3, <2>3, <3>2 DEF OwnershipInv, ThreadInv
      <4>2. call[u].key \in DOMAIN stripe /\ call[u].key # k
        BY <1>1, <4>1, NoneAssumption DEF OwnershipInv, ThreadInv, DataInv, DataType, Calls
      <4> QED  BY <1>2, <4>1, <4>2
    <3> QED  BY <3>1, <3>2
  <2> QED  BY <1>1, <2>1, <2>2, <2>3 DEF OwnershipInv, ThreadInv
<1>7. UndoInv'
  BY <1>1, <1>3 DEF OwnershipInv, UndoInv, Writing
<1>8. OutcomeInv'
  BY <1>1, <1>3, <1>4 DEF OwnershipInv, OutcomeInv
<1>9. RecordInv'
  <2>1. \A u \in Tx : Prepares(u)' <=> Prepares(u)
    BY <1>1 DEF Prepares
  <2>2. ASSUME NEW r \in Range(pending) \cup Range(batch) PROVE pc'[r.tx_id] \in Committing
    BY <1>3 DEF OwnershipInv, RecordInv, Committing
  <2> QED  BY <1>1, <1>4, <1>5, <2>1, <2>2 DEF OwnershipInv, RecordInv
<1>10. OwnInv'
  <2>1. \A u \in Tx : Open(u)' <=> Open(u)
    BY <1>3 DEF Open
  <2> QED  BY <1>1, <1>4, <2>1 DEF OwnershipInv, OwnInv, PosTx, PosChange
<1>11. SeenInv'
  BY <1>1, <1>3 DEF OwnershipInv, SeenInv
<1>12. AppliedInv'
  <2>1. \A p : PosTx(p)' = PosTx(p) /\ PosChange(p)' = PosChange(p)
    BY <1>1 DEF PosTx, PosChange
  <2>2. ASSUME Applies, NEW p \in Positions(batch) \ applying
        PROVE  \A u \in Tx : pc'[u] = "locked" /\ call'[u].key = PosChange(p).key =>
                  seen'[u] = map[PosChange(p).key] \/ HeldBy(seen'[u], PosTx(p))
    BY <1>3, <2>2 DEF OwnershipInv, AppliedInv
  <2>3. AppliedInv
    BY DEF OwnershipInv
  <2> QED  BY <1>1, <1>4, <2>1, <2>2, <2>3 DEF AppliedInv
<1>13. ValuesInv'
  BY <1>1, <1>3, <1>4, <1>5 DEF OwnershipInv, ValuesInv
<1> QED  BY <1>6, <1>7, <1>8, <1>9, <1>10, <1>11, <1>12, <1>13

\* What a put leaves in an entry: its own record over the history it read.
LEMMA InstalledEntry ==
    ASSUME NEW vv \in MaybeEntries, NEW t \in Tx, NEW v \in {t, NoValue}
    PROVE  LET base == IF vv = NoValue THEN EmptyVV ELSE vv
               new  == set_uncommitted(base, t, v)
           IN  /\ new \in Entries /\ new # NoValue /\ new.uncommitted # NoValue
               /\ HeldBy(new, t) /\ new.uncommitted.value = v
               /\ \A u \in Tx : HeldBy(new, u) => u = t
               /\ \A x \in Tx : Has(new, x) => Has(vv, x)
               /\ vv # NoValue => new.committed_history = vv.committed_history
<1> DEFINE own == [tx_id |-> t, value |-> v]
<1>1. own \in Uncommitted /\ own # NoValue /\ own.tx_id = t /\ own.value = v
  BY ValuesAssumption DEF Uncommitted
<1> HIDE DEF own
<1>2. ASSUME NEW base \in Entries
      PROVE  /\ set_uncommitted(base, t, v) \in Entries
             /\ set_uncommitted(base, t, v).uncommitted = own
             /\ set_uncommitted(base, t, v).committed_history = base.committed_history
  BY <1>1 DEF set_uncommitted, Entries, own
<1>3. EmptyVV \in Entries /\ EmptyVV.committed_history = <<>>
  BY DEF EmptyVV, Entries
<1>4. CASE vv = NoValue
  <2> DEFINE new == set_uncommitted(EmptyVV, t, v)
  <2>1. new \in Entries /\ new.uncommitted = own /\ new.committed_history = <<>>
    BY <1>2, <1>3
  <2> HIDE DEF new
  <2>2. new # NoValue
    BY <2>1, ValuesAssumption
  <2>3. HeldBy(new, t) /\ \A u \in Tx : HeldBy(new, u) => u = t
    BY <1>1, <2>1, <2>2 DEF HeldBy
  <2>4. \A x \in Tx : ~ Has(new, x)
    BY <2>1 DEF Has
  <2> QED  BY <1>1, <1>4, <2>1, <2>2, <2>3, <2>4 DEF new
<1>5. CASE vv # NoValue
  <2> DEFINE new == set_uncommitted(vv, t, v)
  <2>1. new \in Entries /\ new.uncommitted = own /\ new.committed_history = vv.committed_history
    BY <1>2, <1>5 DEF MaybeEntries
  <2> HIDE DEF new
  <2>2. new # NoValue
    BY <2>1, ValuesAssumption
  <2>3. HeldBy(new, t) /\ \A u \in Tx : HeldBy(new, u) => u = t
    BY <1>1, <2>1, <2>2 DEF HeldBy
  <2>4. \A x \in Tx : Has(new, x) => Has(vv, x)
    BY <1>5, <2>1 DEF Has
  <2> QED  BY <1>1, <1>5, <2>1, <2>2, <2>3, <2>4 DEF new
<1> QED  BY <1>4, <1>5

\* The changes of a batch.
LEMMA PositionsKnown ==
    ASSUME OwnershipInv, NEW p \in Positions(batch)
    PROVE  /\ batch[p[1]] \in Range(batch) /\ PosTx(p) \in Tx /\ batch[p[1]] = record[PosTx(p)]
           /\ PosChange(p) \in Range(record[PosTx(p)].changes)
           /\ PosChange(p) \in Changes /\ PosChange(p).key \in Keys /\ PosChange(p).value \in MaybeEntries
           /\ pc[PosTx(p)] \in Committing
<1>1. p[1] \in DOMAIN batch /\ p[2] \in DOMAIN batch[p[1]].changes
  BY DEF Positions
<1>2. batch[p[1]] \in Range(batch)
  BY <1>1 DEF Range
<1>3. PosTx(p) \in Tx /\ batch[p[1]] = record[PosTx(p)] /\ pc[PosTx(p)] \in Committing
  BY <1>2 DEF OwnershipInv, RecordInv, PosTx
<1>4. batch[p[1]].changes \in Seq(Changes)
  BY <1>2, KnownRecords DEF OwnershipInv, DataInv, DataType
<1>5. PosChange(p) \in Range(batch[p[1]].changes) /\ PosChange(p) \in Changes
  BY <1>1, <1>4 DEF PosChange, Range
<1> QED  BY <1>2, <1>3, <1>5 DEF Changes

\* A transaction is logged late in its life.
LEMMA LoggedStage ==
    ASSUME OwnershipInv, NEW t \in Tx, Logged(t)
    PROVE  /\ pc[t] \in Committing \cup {"end"} /\ pc[t] # "undo"
           /\ outcome[t] = "ok" \/ (Applies /\ \E r \in Range(batch) : r.tx_id = t)
<1>1. outcome[t] = "ok" \/ (Applies /\ \E r \in Range(batch) : r.tx_id = t)
  BY DEF Logged, OwnershipInv, RecordInv
<1>2. pc[t] \in Committing \cup {"end"}
  BY <1>1 DEF OwnershipInv, OutcomeInv, RecordInv, Committing
<1> QED  BY <1>1, <1>2 DEF Committing

\* When a put installs, nobody else holds the key, and it has seen what the
\* leader has applied.
LEMMA PutIsAlone ==
    ASSUME OwnershipInv, NEW t \in Tx, write_install(t)
    PROVE  /\ \A u \in Tx : ~ HeldBy(map[call[t].key], u)
           /\ Applies => \A p \in Positions(batch) \ applying :
                            PosChange(p).key = call[t].key => seen[t] = map[call[t].key]
<1> DEFINE k == call[t].key
<1>1. pc[t] = "locked" /\ (OtherTx(t) = NoValue \/ OtherTx(t) \notin active)
  BY DEF write_install
<1>2. k \in Keys /\ k \notin Range(undo[t])
  BY <1>1 DEF OwnershipInv, UndoInv, Writing, DataInv, DataType, Calls
<1>3. ASSUME NEW u \in Tx \ {t}, HeldBy(seen[t], u) PROVE ~ Open(u)
  <2>1. OtherTx(t) = u
    BY <1>3, ValuesAssumption DEF HeldBy, OtherTx, active_tx_id
  <2> QED  BY <1>1, <2>1, ValuesAssumption DEF OwnershipInv, ThreadInv
<1>4. ASSUME NEW u \in Tx, HeldBy(map[k], u) PROVE FALSE
  <2>1. k \in Range(undo[u]) /\ Open(u)
    BY <1>2, <1>4 DEF OwnershipInv, OwnInv
  <2>2. seen[t] = map[k]
    BY <1>1, <1>4 DEF OwnershipInv, SeenInv, Settled, HeldBy
  <2> QED  BY <1>2, <1>3, <1>4, <2>1, <2>2
<1>5. ASSUME Applies, NEW p \in Positions(batch) \ applying, PosChange(p).key = k
      PROVE  seen[t] = map[k]
  <2>1. seen[t] = map[k] \/ HeldBy(seen[t], PosTx(p))
    BY <1>1, <1>5 DEF OwnershipInv, AppliedInv
  <2>2. batch[p[1]] \in Range(batch)
    BY DEF Positions, Range
  <2>3. PosTx(p) \in Tx /\ pc[PosTx(p)] \in Committing
    BY <2>2 DEF OwnershipInv, RecordInv, PosTx
  <2>4. PosTx(p) # t /\ Open(PosTx(p))
    BY <1>1, <2>3 DEF Committing, Open
  <2> QED  BY <1>3, <2>1, <2>3, <2>4
<1> QED  BY <1>4, <1>5

\* The uncommitted record goes into the entry.
LEMMA InstallKeepsOwners ==
    ASSUME OwnershipInv, NEW t \in Tx, write_install(t)
    PROVE  ThreadInv' /\ UndoInv' /\ OutcomeInv' /\ RecordInv' /\ OwnInv' /\ SeenInv' /\ AppliedInv' /\ ValuesInv'
<1> DEFINE k == call[t].key
           base == IF seen[t] = NoValue THEN EmptyVV ELSE seen[t]
           new == set_uncommitted(base, t, call[t].value)
<1>1. /\ UNCHANGED <<active, status, todo, record, pending, batch, durable, applying, outcome, vacuum>>
      /\ pc[t] = "locked" /\ pc' = [pc EXCEPT ![t] = "idle"] /\ stripe' = [stripe EXCEPT ![k] = None]
      /\ seen' = [seen EXCEPT ![t] = NoValue] /\ call' = [call EXCEPT ![t] = NoValue]
      /\ \/ UNCHANGED <<map, undo>>
         \/ map' = [map EXCEPT ![k] = new] /\ undo' = [undo EXCEPT ![t] = Append(undo[t], k)]
  <2>1. [undo EXCEPT ![t] = Append(@, k)] = [undo EXCEPT ![t] = Append(undo[t], k)]
    OBVIOUS
  <2> QED  BY <2>1 DEF write_install, Goto, Unlock, lockVars
<1>2. /\ k \in Keys /\ k \notin Range(undo[t]) /\ call[t].value \in {t, NoValue}
      /\ seen[t] \in MaybeEntries /\ undo[t] \in Seq(Keys)
  BY <1>1 DEF OwnershipInv, UndoInv, Writing, DataInv, DataType, Calls
<1>3. /\ HeldBy(new, t) /\ new.uncommitted.value \in {t, NoValue} /\ new # NoValue
      /\ \A u \in Tx : HeldBy(new, u) => u = t
      /\ \A x \in Tx : Has(new, x) => Has(seen[t], x)
      /\ seen[t] # NoValue => new.committed_history = seen[t].committed_history
  BY <1>2, InstalledEntry
<1>4. /\ \A u \in Tx : ~ HeldBy(map[k], u)
      /\ Applies => \A p \in Positions(batch) \ applying : PosChange(p).key = k => seen[t] = map[k]
  BY PutIsAlone
<1>5. \A u \in Tx \ {t} : pc[u] = "locked" => call[u].key # k /\ call[u].key \in Keys
  BY <1>1 DEF OwnershipInv, ThreadInv, DataInv, DataType, Calls
<1> HIDE DEF k, new
<1>6. /\ \A u \in Tx \ {t} : pc'[u] = pc[u] /\ call'[u] = call[u] /\ seen'[u] = seen[u] /\ undo'[u] = undo[u]
      /\ pc'[t] = "idle"
      /\ \A j \in Keys \ {k} : map'[j] = map[j]
      /\ \/ map' = map /\ undo' = undo
         \/ map'[k] = new /\ undo'[t] = Append(undo[t], k)
  BY <1>1, <1>2 DEF OwnershipInv, DataInv, DataType
<1>7. (Applies' <=> Applies) /\ \A u : Logged(u)' <=> Logged(u)
  BY <1>1, <1>6 DEF Applies, Logged
<1>8. ~ Logged(t)
  BY <1>1, LoggedStage DEF Committing
<1>9. \A u \in Tx : pc'[u] \in {"locked", "prepare"} \cup Committing => u # t /\ pc'[u] = pc[u]
  BY <1>6 DEF Committing
<1>10. Range(Append(undo[t], k)) = Range(undo[t]) \cup {k}
  BY <1>2, RangeGrows
<1>11. \A u \in Tx : Open(u)' <=> Open(u)
  BY <1>1, <1>6 DEF Open
<1>12. ThreadInv'
  <2>1. \A u \in Tx : u \in active' <=> Open(u)'
    BY <1>1, <1>11 DEF OwnershipInv, ThreadInv
  <2>2. DOMAIN stripe' = Keys /\ \A j \in Keys \ {k} : stripe'[j] = stripe[j]
    BY <1>1 DEF OwnershipInv, ThreadInv
  <2> QED  BY <1>1, <1>5, <1>6, <1>9, <2>1, <2>2 DEF OwnershipInv, ThreadInv
<1>13. UndoInv'
  <2>1. ASSUME NEW i \in DOMAIN undo'[t], NEW j \in DOMAIN undo'[t], undo'[t][i] = undo'[t][j] PROVE i = j
    <3>1. CASE undo'[t] = undo[t]
      BY <2>1, <3>1 DEF OwnershipInv, UndoInv
    <3>2. CASE undo'[t] = Append(undo[t], k)
      <4>1. /\ DOMAIN undo[t] = 1 .. Len(undo[t]) /\ DOMAIN undo'[t] = 1 .. Len(undo[t]) + 1 /\ Len(undo[t]) \in Nat
            /\ undo'[t][Len(undo[t]) + 1] = k /\ \A n \in 1 .. Len(undo[t]) : undo'[t][n] = undo[t][n]
        BY <1>2, <3>2
      <4>2. \A n \in DOMAIN undo[t] : undo[t][n] # k
        BY <1>2 DEF Range
      <4>3. \A n, m \in DOMAIN undo[t] : undo[t][n] = undo[t][m] => n = m
        BY DEF OwnershipInv, UndoInv
      <4> QED  BY <2>1, <4>1, <4>2, <4>3
    <3> QED  BY <1>6, <3>1, <3>2
  <2> QED  BY <1>6, <2>1 DEF OwnershipInv, UndoInv, Writing
<1>14. OutcomeInv'
  <2>1. outcome[t] \notin {"ok", "failed"} /\ status[t] \notin {"Committed", "RolledBack"}
    BY <1>1 DEF OwnershipInv, OutcomeInv
  <2> QED  BY <1>1, <1>6, <1>7, <2>1 DEF OwnershipInv, OutcomeInv
<1>15. RecordInv'
  <2>1. ASSUME NEW u \in Tx \ {t} PROVE Prepares(u)' <=> Prepares(u)
    <3>1. undo'[u] = undo[u] /\ todo'[u] = todo[u] /\ record'[u] = record[u]
      BY <1>1, <1>6
    <3> QED  BY <3>1 DEF Prepares
  <2>2. ASSUME NEW r \in Range(pending) \cup Range(batch) PROVE pc'[r.tx_id] \in Committing
    BY <1>1, <1>6 DEF OwnershipInv, RecordInv, Committing
  <2> QED  BY <1>1, <1>7, <1>8, <1>9, <2>1, <2>2 DEF OwnershipInv, RecordInv
<1>16. OwnInv'
  <2>1. ASSUME NEW u \in Tx, NEW j \in Range(undo'[u]), Open(u)', ~ Logged(u)' PROVE HeldBy(map'[j], u)
    <3>1. undo[u] \in Seq(Keys)
      BY DEF OwnershipInv, DataInv, DataType
    <3>2. CASE j \in Range(undo[u])
      <4>1. j \in Keys /\ HeldBy(map[j], u)
        BY <1>7, <1>11, <2>1, <3>1, <3>2 DEF OwnershipInv, OwnInv, Range
      <4>2. j # k
        BY <1>4, <4>1
      <4> QED  BY <1>6, <4>1, <4>2
    <3>3. CASE j \notin Range(undo[u])
      <4>1. u = t /\ j = k /\ map'[k] = new
        BY <1>6, <1>10, <2>1, <3>3
      <4> QED  BY <1>3, <4>1
    <3> QED  BY <3>2, <3>3
  <2>2. ASSUME NEW u \in Tx, NEW j \in Keys, HeldBy(map'[j], u)
        PROVE  /\ j \in Range(undo'[u]) /\ Open(u)'
               /\ map'[j].uncommitted.value \in {u, NoValue}
               /\ Logged(u)' => \E p \in applying' : PosTx(p)' = u /\ PosChange(p)'.key = j
    <3>1. CASE map'[j] = map[j]
      <4>1. /\ j \in Range(undo[u]) /\ Open(u) /\ map[j].uncommitted.value \in {u, NoValue}
            /\ Logged(u) => \E p \in applying : PosTx(p) = u /\ PosChange(p).key = j
        BY <2>2, <3>1 DEF OwnershipInv, OwnInv
      <4>2. j \in Range(undo'[u])
        BY <1>6, <1>10, <4>1
      <4> QED  BY <1>1, <1>7, <1>11, <3>1, <4>1, <4>2 DEF PosTx, PosChange
    <3>2. CASE map'[j] # map[j]
      <4>1. j = k /\ map'[k] = new /\ undo'[t] = Append(undo[t], k)
        BY <1>6, <3>2
      <4>2. u = t
        BY <1>3, <2>2, <4>1
      <4> QED  BY <1>3, <1>7, <1>8, <1>10, <1>11, <4>1, <4>2, <1>1 DEF Open
    <3> QED  BY <3>1, <3>2
  <2> QED  BY <2>1, <2>2 DEF OwnInv
<1>17. SeenInv'
  BY <1>5, <1>6, <1>9 DEF OwnershipInv, SeenInv
<1>18. AppliedInv'
  <2>1. \A p : PosTx(p)' = PosTx(p) /\ PosChange(p)' = PosChange(p)
    BY <1>1 DEF PosTx, PosChange
  <2>2. ASSUME NEW p \in applying PROVE PosChange(p).key \in Keys /\ HeldBy(map[PosChange(p).key], PosTx(p)) /\ PosTx(p) \in Tx
    <3>1. p \in Positions(batch)
      BY DEF OwnershipInv, AppliedInv, DataInv, ApplyInv, Applies
    <3> QED  BY <3>1, PositionsKnown DEF OwnershipInv, AppliedInv
  <2>3. ASSUME NEW p \in applying PROVE HeldBy(map'[PosChange(p).key], PosTx(p))
    BY <1>4, <1>6, <2>2
  <2>4. ASSUME Applies, NEW p \in Positions(batch) \ applying
        PROVE  LET c == PosChange(p)
               IN  /\ map'[c.key] # NoValue
                   /\ c.value.committed_history[1] \in Range(map'[c.key].committed_history)
                   /\ \A u \in Tx : pc'[u] = "locked" /\ call'[u].key = c.key =>
                         seen'[u] = map'[c.key] \/ HeldBy(seen'[u], PosTx(p))
    <3> DEFINE c == PosChange(p)
    <3>1. /\ c.key \in Keys /\ map[c.key] # NoValue
          /\ c.value.committed_history[1] \in Range(map[c.key].committed_history)
          /\ \A u \in Tx : pc[u] = "locked" /\ call[u].key = c.key => seen[u] = map[c.key] \/ HeldBy(seen[u], PosTx(p))
      BY <2>4, PositionsKnown DEF OwnershipInv, AppliedInv
    <3>2. CASE map'[c.key] = map[c.key]
      BY <1>6, <1>9, <3>1, <3>2
    <3>3. CASE map'[c.key] # map[c.key]
      <4>1. c.key = k /\ map'[k] = new
        BY <1>6, <3>1, <3>3
      <4>2. seen[t] = map[k]
        BY <1>4, <2>4, <4>1
      <4>3. new.committed_history = map[k].committed_history
        BY <1>3, <3>1, <4>1, <4>2
      <4> QED  BY <1>3, <1>5, <1>6, <1>9, <3>1, <4>1, <4>3
    <3> QED  BY <3>2, <3>3
  <2> QED  BY <1>1, <1>7, <2>1, <2>3, <2>4 DEF OwnershipInv, AppliedInv
<1>19. ValuesInv'
  <2>1. ASSUME NEW x \in Tx, NEW j \in Keys, Has(map'[j], x) PROVE Logged(x)
    BY <1>1, <1>3, <1>6, <2>1 DEF OwnershipInv, ValuesInv
  <2> QED  BY <1>1, <1>6, <1>7, <1>9, <2>1 DEF OwnershipInv, ValuesInv
<1> QED  BY <1>12, <1>13, <1>14, <1>15, <1>16, <1>17, <1>18, <1>19

----------------------------------------------------------------------------
(* commit: preparing and queueing.                                         *)

\* A step of a committer that writes no entry and completes nothing.
LEMMA QueueFrame ==
    ASSUME OwnershipInv, NEW t \in Tx, NEW p \in {"prepare", "queued", "lead", "sync"},
           pc[t] \in {"idle", "prepare", "lead"}, pc' = [pc EXCEPT ![t] = p],
           UNCHANGED <<active, status, stripe, map, undo, seen, call, durable, outcome, vacuum, applying>>,
           batch' = batch \/ ~ Applies
    PROVE  /\ ThreadInv' /\ UndoInv' /\ OutcomeInv' /\ OwnInv' /\ SeenInv' /\ AppliedInv'
           /\ pc'[t] = p /\ \A u \in Tx \ {t} : pc'[u] = pc[u]
           /\ (Applies' <=> Applies) /\ \A u : Logged(u)' <=> Logged(u)
<1>1. pc'[t] = p /\ \A u \in Tx \ {t} : pc'[u] = pc[u]
  BY DEF OwnershipInv, DataInv, DataType
<1>2. (Applies' <=> Applies) /\ \A u : Logged(u)' <=> Logged(u)
  BY <1>1 DEF Applies, Logged
<1>3. \A u \in Tx : Open(u)' <=> Open(u)
  BY <1>1 DEF Open
<1>4. \A u \in Tx : pc'[u] = "locked" => pc[u] = "locked"
  BY <1>1
<1>5. ThreadInv'
  BY <1>3, <1>4 DEF OwnershipInv, ThreadInv
<1>6. UndoInv'
  BY <1>1 DEF OwnershipInv, UndoInv, Writing
<1>7. OutcomeInv'
  BY <1>1, <1>2 DEF OwnershipInv, OutcomeInv
<1>8. applying # {} => batch' = batch
  BY DEF OwnershipInv, AppliedInv
<1>9. OwnInv'
  BY <1>2, <1>3, <1>8 DEF OwnershipInv, OwnInv, PosTx, PosChange
<1>10. SeenInv'
  BY <1>4 DEF OwnershipInv, SeenInv
<1>11. AppliedInv'
  BY <1>2, <1>4, <1>8 DEF OwnershipInv, AppliedInv, PosTx, PosChange
<1> QED  BY <1>1, <1>2, <1>5, <1>6, <1>7, <1>9, <1>10, <1>11

LEMMA StartKeepsOwners ==
    ASSUME OwnershipInv, NEW t \in Tx, commit_start(t)
    PROVE  ThreadInv' /\ UndoInv' /\ OutcomeInv' /\ RecordInv' /\ OwnInv' /\ SeenInv' /\ AppliedInv' /\ ValuesInv'
<1> DEFINE new == [tx_id |-> t, changes |-> <<>>, commit_version |-> next_commit_version + 1]
<1>1. /\ UNCHANGED <<active, status, stripe, map, undo, seen, call, durable, outcome, vacuum, applying,
                     batch, pending>>
      /\ pc[t] = "idle" /\ pc' = [pc EXCEPT ![t] = "prepare"]
      /\ record' = [record EXCEPT ![t] = new] /\ todo' = [todo EXCEPT ![t] = undo[t]]
  BY DEF commit_start, Goto, lockVars
<1>2. new.tx_id = t /\ new.changes = <<>>
  OBVIOUS
<1> HIDE DEF new
<1>3. /\ ThreadInv' /\ UndoInv' /\ OutcomeInv' /\ OwnInv' /\ SeenInv' /\ AppliedInv'
      /\ pc'[t] = "prepare" /\ \A u \in Tx \ {t} : pc'[u] = pc[u]
      /\ (Applies' <=> Applies) /\ \A u : Logged(u)' <=> Logged(u)
  BY <1>1, QueueFrame
<1>4. ~ Logged(t)
  BY <1>1, LoggedStage DEF Committing
<1>5. /\ record'[t] = new /\ todo'[t] = undo[t]
      /\ \A u \in Tx \ {t} : record'[u] = record[u] /\ todo'[u] = todo[u]
  BY <1>1 DEF OwnershipInv, DataInv, DataType
<1>6. Prepares(t)'
  <2>1. undo[t] \in Seq(Keys)
    BY DEF OwnershipInv, DataInv, DataType
  <2>2. /\ record'[t].tx_id = t /\ record'[t].changes = <<>> /\ todo'[t] = undo[t] /\ undo'[t] = undo[t]
        /\ Len(undo[t]) \in Nat /\ DOMAIN undo[t] = 1 .. Len(undo[t])
    BY <1>1, <1>2, <1>5, <2>1
  <2> QED  BY <2>2 DEF Prepares
<1>7. ASSUME NEW u \in Tx \ {t} PROVE Prepares(u)' <=> Prepares(u)
  <2>1. undo'[u] = undo[u] /\ todo'[u] = todo[u] /\ record'[u] = record[u]
    BY <1>1, <1>5
  <2> QED  BY <2>1 DEF Prepares
<1>8. RecordInv'
  <2>1. ASSUME NEW r \in Range(pending) \cup Range(batch) PROVE r.tx_id # t /\ pc'[r.tx_id] \in Committing
    BY <1>1, <1>3 DEF OwnershipInv, RecordInv, Committing
  <2>2. ASSUME NEW r \in Range(durable), r.tx_id \in Tx PROVE r.tx_id # t
    BY <1>4, <2>2 DEF Logged
  <2>3. ASSUME NEW u \in Tx, pc'[u] \in Committing \/ Logged(u)' PROVE Prepares(u)' /\ todo'[u] = <<>>
    BY <1>3, <1>4, <1>5, <1>7, <2>3 DEF OwnershipInv, RecordInv, Committing
  <2>4. ASSUME NEW u \in Tx, pc'[u] = "prepare" PROVE Prepares(u)'
    BY <1>3, <1>6, <1>7, <2>4 DEF OwnershipInv, RecordInv
  <2> QED  BY <1>1, <1>3, <1>5, <2>1, <2>2, <2>3, <2>4 DEF OwnershipInv, RecordInv
<1>9. ValuesInv'
  <2>1. Range(record'[t].changes) = {}
    BY <1>2, <1>5 DEF Range
  <2> QED  BY <1>1, <1>3, <1>5, <2>1 DEF OwnershipInv, ValuesInv, Committing
<1> QED  BY <1>3, <1>8, <1>9

\* The committed form of an entry: settled, with the value of its holder on top.
LEMMA CommittedEntry ==
    ASSUME NEW vv \in Entries, NEW t \in Tx, HeldBy(vv, t), vv.uncommitted.value \in {t, NoValue}, NEW n \in Nat
    PROVE  LET new == commit_uncommitted(vv, n)
           IN  /\ new \in Entries /\ new # NoValue /\ new.uncommitted = NoValue
               /\ new.committed_history # <<>>
               /\ \A x \in Tx : Has(new, x) => x = t \/ Has(vv, x)
<1> DEFINE h == vv.committed_history
           top == [value |-> vv.uncommitted.value, commit_version |-> n]
           g == <<top>> \o h
           new == commit_uncommitted(vv, n)
           cut == Truncate(g, MaxGenerations)
<1>1. h \in Seq(Versions) /\ vv # NoValue /\ vv.uncommitted # NoValue
  BY DEF Entries, HeldBy
<1>2. top \in Versions /\ top.value \in {t, NoValue}
  BY DEF Versions
<1> HIDE DEF top
<1>3. /\ g \in Seq(Versions) /\ DOMAIN g = 1 .. Len(h) + 1 /\ DOMAIN h = 1 .. Len(h) /\ Len(h) \in Nat
      /\ Len(g) = Len(h) + 1
      /\ g[1] = top /\ \A i \in 1 .. Len(h) + 1 : i > 1 => g[i] = h[i - 1]
  BY <1>1, <1>2
<1>4. MaxGenerations \in Nat /\ MaxGenerations > 0
  BY GenerationsAssumption
<1> HIDE DEF g
<1>5. cut \in Seq(Versions) /\ DOMAIN cut \subseteq DOMAIN g /\ \A i \in DOMAIN cut : cut[i] = g[i]
  BY <1>3, <1>4, TruncateIsPrefix
<1>6. cut # <<>>
  <2> DEFINE m == IF Len(g) < MaxGenerations THEN Len(g) ELSE MaxGenerations
  <2>1. m \in Nat /\ m > 0 /\ m <= Len(g)
    BY <1>3, <1>4
  <2> HIDE DEF m
  <2>2. Len(SubSeq(g, 1, m)) = m
    BY <1>3, <2>1
  <2>3. cut = SubSeq(g, 1, m)
    BY DEF Truncate, m
  <2> QED  BY <2>1, <2>2, <2>3
<1> HIDE DEF cut
<1>7. new = [uncommitted |-> NoValue, committed_history |-> cut]
  BY <1>1 DEF commit_uncommitted, top, g, cut
<1>8. new \in Entries /\ new.uncommitted = NoValue /\ new.committed_history = cut
  BY <1>5, <1>7 DEF Entries
<1> HIDE DEF new
<1>9. new # NoValue
  BY <1>8, ValuesAssumption
<1>10. ASSUME NEW x \in Tx, Has(new, x) PROVE x = t \/ Has(vv, x)
  <2>1. PICK i \in DOMAIN cut : cut[i].value = x
    BY <1>8, <1>10 DEF Has
  <2>2. i \in DOMAIN g /\ g[i].value = x
    BY <1>5, <2>1
  <2>3. CASE i = 1
    BY <1>2, <1>3, <2>2, <2>3, ValuesAssumption
  <2>4. CASE i # 1
    <3>1. i - 1 \in DOMAIN h /\ h[i - 1].value = x
      BY <1>3, <2>2, <2>4
    <3> QED  BY <1>1, <3>1 DEF Has
  <2> QED  BY <2>3, <2>4
<1> QED  BY <1>6, <1>8, <1>9, <1>10 DEF new

LEMMA RestOfSequence ==
    ASSUME NEW S, NEW s \in Seq(S), s # <<>>
    PROVE  /\ Len(s) \in Nat /\ Len(s) > 0 /\ DOMAIN s = 1 .. Len(s) /\ Head(s) = s[1]
           /\ Tail(s) \in Seq(S) /\ Len(Tail(s)) = Len(s) - 1 /\ DOMAIN Tail(s) = 1 .. Len(s) - 1
           /\ \A i \in 1 .. Len(s) - 1 : Tail(s)[i] = s[i + 1]
  OBVIOUS

\* An undo entry is prepared: the key is still the transaction's own.
LEMMA PrepareKeepsOwners ==
    ASSUME OwnershipInv, NEW t \in Tx, prepare_entry(t)
    PROVE  ThreadInv' /\ UndoInv' /\ OutcomeInv' /\ RecordInv' /\ OwnInv' /\ SeenInv' /\ AppliedInv' /\ ValuesInv'
<1> DEFINE k == Head(todo[t])
           c == [key |-> k, value |-> commit_uncommitted(map[k], record[t].commit_version)]
           n == Len(record[t].changes)
<1>1. /\ UNCHANGED <<active, status, stripe, map, undo, seen, call, durable, outcome, vacuum, applying,
                     batch, pending, pc>>
      /\ pc[t] = "prepare" /\ todo[t] # <<>>
      /\ record' = [record EXCEPT ![t] = [record[t] EXCEPT !.changes = record[t].changes \o PreparedChanges(t, k)]]
      /\ todo' = [todo EXCEPT ![t] = Tail(todo[t])]
  BY DEF prepare_entry, lockVars
<1>2. pc' = [pc EXCEPT ![t] = "prepare"]
  BY <1>1 DEF OwnershipInv, DataInv, DataType
<1>3. /\ ThreadInv' /\ UndoInv' /\ OutcomeInv' /\ OwnInv' /\ SeenInv' /\ AppliedInv'
      /\ (Applies' <=> Applies) /\ \A u : Logged(u)' <=> Logged(u)
  BY <1>1, <1>2, QueueFrame
<1>4. ~ Logged(t) /\ Open(t)
  BY <1>1, LoggedStage DEF Committing, Open
<1>5. /\ record[t] \in WalRecords /\ record[t].changes \in Seq(Changes) /\ record[t].commit_version \in Nat
      /\ undo[t] \in Seq(Keys) /\ todo[t] \in Seq(Keys)
  BY DEF OwnershipInv, DataInv, DataType, WalRecords
<1>6. Prepares(t)
  BY <1>1 DEF OwnershipInv, RecordInv
<1>7. /\ n \in Nat /\ Len(todo[t]) \in Nat /\ Len(todo[t]) > 0 /\ Len(undo[t]) \in Nat
      /\ n + Len(todo[t]) = Len(undo[t]) /\ n + 1 + Len(Tail(todo[t])) = Len(undo[t])
  <2>1. n + Len(todo[t]) = Len(undo[t])
    BY <1>6 DEF Prepares
  <2>2. n \in Nat /\ Len(undo[t]) \in Nat
    BY <1>5
  <2>3. Len(todo[t]) \in Nat /\ Len(todo[t]) > 0 /\ Len(Tail(todo[t])) = Len(todo[t]) - 1
    BY <1>1, <1>5, RestOfSequence
  <2> HIDE DEF n
  <2>5. PICK a, b, d, e : a = n /\ b = Len(todo[t]) /\ d = Len(undo[t]) /\ e = Len(Tail(todo[t]))
    OBVIOUS
  <2>6. a \in Nat /\ b \in Nat /\ a + b = d /\ e = b - 1
    BY <2>1, <2>2, <2>3, <2>5
  <2>7. a + 1 + e = d
    BY <2>6
  <2> QED  BY <2>1, <2>2, <2>3, <2>5, <2>7
<1>0. /\ k = todo[t][1] /\ DOMAIN todo[t] = 1 .. Len(todo[t]) /\ DOMAIN undo[t] = 1 .. Len(undo[t])
       /\ DOMAIN Tail(todo[t]) = 1 .. Len(todo[t]) - 1
       /\ \A i \in 1 .. Len(todo[t]) - 1 : Tail(todo[t])[i] = todo[t][i + 1]
  BY <1>1, <1>5, RestOfSequence
<1>8. k = undo[t][n + 1] /\ k \in Range(undo[t]) /\ k \in Keys
  <2>1. 1 \in DOMAIN todo[t]
    BY <1>7, <1>0
  <2>2. k = undo[t][n + 1]
    BY <1>6, <1>0, <2>1 DEF Prepares
  <2> HIDE DEF n, k
  <2>3. n + 1 \in DOMAIN undo[t]
    BY <1>7, <1>0
  <2> QED  BY <1>5, <2>2, <2>3 DEF Range
<1>9. HeldBy(map[k], t) /\ map[k].uncommitted.value \in {t, NoValue} /\ map[k] \in Entries
  BY <1>4, <1>8 DEF OwnershipInv, OwnInv, DataInv, DataType, MaybeEntries, HeldBy
<1>10. PreparedChanges(t, k) = <<c>>
  BY <1>9 DEF PreparedChanges, HeldBy, active_tx_id
<1>11. /\ c.key = k /\ c \in Changes /\ c.value # NoValue /\ c.value.uncommitted = NoValue
       /\ c.value.committed_history # <<>>
       /\ \A x \in Tx : Has(c.value, x) => x = t \/ Has(map[k], x)
  <2>1. LET new == commit_uncommitted(map[k], record[t].commit_version)
        IN  /\ new \in Entries /\ new # NoValue /\ new.uncommitted = NoValue
            /\ new.committed_history # <<>>
            /\ \A x \in Tx : Has(new, x) => x = t \/ Has(map[k], x)
    BY <1>5, <1>9, CommittedEntry
  <2> QED  BY <1>8, <2>1 DEF Changes, MaybeEntries
<1> HIDE DEF k, c, n
<1>12. /\ record'[t].tx_id = t /\ record'[t].changes = record[t].changes \o <<c>>
       /\ todo'[t] = Tail(todo[t])
       /\ \A u \in Tx \ {t} : record'[u] = record[u] /\ todo'[u] = todo[u]
  <2> DEFINE r == [record[t] EXCEPT !.changes = record[t].changes \o <<c>>]
  <2>1. r.tx_id = t /\ r.changes = record[t].changes \o <<c>>
    BY <1>5, <1>6 DEF WalRecords, Prepares
  <2>2. record' = [record EXCEPT ![t] = r]
    BY <1>1, <1>10
  <2> HIDE DEF r
  <2> QED  BY <1>1, <2>1, <2>2 DEF OwnershipInv, DataInv, DataType
<1>13. /\ DOMAIN record'[t].changes = 1 .. n + 1 /\ Len(record'[t].changes) = n + 1
       /\ record'[t].changes[n + 1] = c
       /\ \A i \in 1 .. n : record'[t].changes[i] = record[t].changes[i]
  BY <1>5, <1>11, <1>12, <1>7 DEF n
<1>14. Prepares(t)'
  <2>1. Len(record'[t].changes) + Len(todo'[t]) = Len(undo'[t])
    BY <1>1, <1>7, <1>12, <1>13
  <2>2. ASSUME NEW i \in DOMAIN record'[t].changes
        PROVE  LET d == record'[t].changes[i]
               IN  /\ d.key = undo'[t][i]
                   /\ d.value # NoValue /\ d.value.uncommitted = NoValue /\ d.value.committed_history # <<>>
    <3>1. CASE i = n + 1
      BY <1>1, <1>8, <1>11, <1>13, <3>1
    <3>2. CASE i # n + 1
      <4>1. i \in DOMAIN record[t].changes /\ record'[t].changes[i] = record[t].changes[i]
        BY <1>5, <1>7, <1>13, <3>2 DEF n
      <4> QED  BY <1>1, <1>6, <4>1 DEF Prepares
    <3> QED  BY <3>1, <3>2
  <2>3. ASSUME NEW i \in DOMAIN todo'[t] PROVE todo'[t][i] = undo'[t][Len(record'[t].changes) + i]
    <3>1. i \in 1 .. Len(todo[t]) - 1 /\ todo'[t][i] = todo[t][i + 1]
      BY <1>0, <1>12
    <3>2. todo[t][i + 1] = undo[t][n + (i + 1)]
      <4>1. i + 1 \in DOMAIN todo[t]
        BY <1>7, <1>0, <3>1
      <4> QED  BY <1>6, <4>1 DEF Prepares, n
    <3>3. n + (i + 1) = Len(record'[t].changes) + i
      BY <1>7, <1>13, <3>1
    <3> QED  BY <1>1, <3>1, <3>2, <3>3
  <2> QED  BY <1>12, <2>1, <2>2, <2>3 DEF Prepares
<1>15. ASSUME NEW u \in Tx \ {t} PROVE Prepares(u)' <=> Prepares(u)
  <2>1. undo'[u] = undo[u] /\ todo'[u] = todo[u] /\ record'[u] = record[u]
    BY <1>1, <1>12
  <2> QED  BY <2>1 DEF Prepares
<1>16. RecordInv'
  <2>1. ASSUME NEW r \in Range(pending) \cup Range(batch) PROVE r.tx_id # t
    BY <1>1 DEF OwnershipInv, RecordInv, Committing
  <2>2. ASSUME NEW r \in Range(durable), r.tx_id \in Tx PROVE r.tx_id # t
    BY <1>4, <2>2 DEF Logged
  <2>3. ASSUME NEW u \in Tx, pc'[u] \in Committing \/ Logged(u)' PROVE Prepares(u)' /\ todo'[u] = <<>>
    BY <1>1, <1>3, <1>4, <1>12, <1>15, <2>3 DEF OwnershipInv, RecordInv, Committing
  <2>4. ASSUME NEW u \in Tx, pc'[u] = "prepare" PROVE Prepares(u)'
    BY <1>1, <1>14, <1>15, <2>4 DEF OwnershipInv, RecordInv
  <2> QED  BY <1>1, <1>3, <1>12, <2>1, <2>2, <2>3, <2>4 DEF OwnershipInv, RecordInv
<1>17. ValuesInv'
  <2>1. Range(record'[t].changes) = Range(record[t].changes) \cup {c}
    <3>2. Range(<<c>>) = {c} /\ <<c>> \in Seq(Changes)
      BY <1>11 DEF Range
    <3>3. \A q \in Seq(Changes), w \in Seq(Changes) : Range(q \o w) = Range(q) \cup Range(w)
      BY <1>11, RangeGrows
    <3> QED  BY <1>5, <1>12, <3>2, <3>3
  <2>2. ASSUME NEW x \in Tx, Has(c.value, x) PROVE x = t \/ Logged(x)
    BY <1>8, <1>11, <2>2 DEF OwnershipInv, ValuesInv
  <2> QED  BY <1>1, <1>3, <1>12, <2>1, <2>2 DEF OwnershipInv, ValuesInv, Committing
<1> QED  BY <1>3, <1>16, <1>17

\* The record joins the pending ones.
LEMMA EnqueueKeepsOwners ==
    ASSUME OwnershipInv, NEW t \in Tx, enqueue(t)
    PROVE  ThreadInv' /\ UndoInv' /\ OutcomeInv' /\ RecordInv' /\ OwnInv' /\ SeenInv' /\ AppliedInv' /\ ValuesInv'
<1>1. /\ UNCHANGED <<active, status, stripe, map, undo, seen, call, durable, outcome, vacuum, applying,
                     batch, record, todo>>
      /\ pc[t] = "prepare" /\ todo[t] = <<>>
      /\ pending' = Append(pending, record[t])
      /\ \E p \in {"queued", "lead"} : pc' = [pc EXCEPT ![t] = p]
  BY DEF enqueue, Goto, lockVars
<1>2. PICK p \in {"queued", "lead"} : pc' = [pc EXCEPT ![t] = p]
  BY <1>1
<1>3. /\ ThreadInv' /\ UndoInv' /\ OutcomeInv' /\ OwnInv' /\ SeenInv' /\ AppliedInv'
      /\ pc'[t] = p /\ \A u \in Tx \ {t} : pc'[u] = pc[u]
      /\ (Applies' <=> Applies) /\ \A u : Logged(u)' <=> Logged(u)
  BY <1>1, <1>2, QueueFrame
<1>4. pending \in Seq(WalRecords) /\ record[t] \in WalRecords
  BY DEF OwnershipInv, DataInv, DataType
<1>5. Range(pending') = Range(pending) \cup {record[t]}
  BY <1>1, <1>4, RangeGrows
<1>6. Prepares(t) /\ record[t].tx_id = t /\ outcome[t] = NoValue
  BY <1>1 DEF OwnershipInv, RecordInv, OutcomeInv, Prepares
<1>7. \A r \in Range(pending) \cup Range(batch) : r.tx_id # t
  BY <1>1 DEF OwnershipInv, RecordInv, Committing
<1>8. OneEach(pending')
  <2>1. /\ DOMAIN pending' = 1 .. Len(pending) + 1 /\ DOMAIN pending = 1 .. Len(pending) /\ Len(pending) \in Nat
        /\ pending'[Len(pending) + 1] = record[t] /\ \A i \in 1 .. Len(pending) : pending'[i] = pending[i]
    BY <1>1, <1>4
  <2>2. \A i \in DOMAIN pending : pending[i].tx_id # t
    BY <1>7 DEF Range
  <2>3. OneEach(pending)
    BY DEF OwnershipInv, RecordInv
  <2> QED  BY <1>6, <2>1, <2>2, <2>3 DEF OneEach
<1>9. \A u \in Tx : Prepares(u)' <=> Prepares(u)
  BY <1>1 DEF Prepares
<1>10. RecordInv'
  <2>1. ASSUME NEW u \in Tx, pc'[u] \in Committing \/ Logged(u)' PROVE Prepares(u)' /\ todo'[u] = <<>>
    BY <1>1, <1>3, <1>6, <1>9, <2>1 DEF OwnershipInv, RecordInv
  <2>2. ASSUME NEW u \in Tx, pc'[u] = "prepare" PROVE Prepares(u)'
    BY <1>3, <1>9, <2>2 DEF OwnershipInv, RecordInv
  <2>3. ASSUME NEW r \in Range(pending') \cup Range(batch')
        PROVE  r.tx_id \in Tx /\ r = record'[r.tx_id] /\ pc'[r.tx_id] \in Committing /\ outcome'[r.tx_id] = NoValue
    <3>1. CASE r = record[t]
      BY <1>1, <1>3, <1>6, <3>1 DEF Committing
    <3>2. CASE r # record[t]
      BY <1>1, <1>3, <1>5, <1>7, <2>3, <3>2 DEF OwnershipInv, RecordInv
    <3> QED  BY <3>1, <3>2
  <2>4. \A r \in Range(pending'), s \in Range(batch') : r.tx_id # s.tx_id
    BY <1>1, <1>5, <1>6, <1>7 DEF OwnershipInv, RecordInv
  <2> QED  BY <1>1, <1>3, <1>8, <2>1, <2>2, <2>3, <2>4 DEF OwnershipInv, RecordInv
<1>11. ValuesInv'
  BY <1>1, <1>3 DEF OwnershipInv, ValuesInv
<1> QED  BY <1>3, <1>10, <1>11

\* The leader takes the pending records.
LEMMA LeadKeepsOwners ==
    ASSUME OwnershipInv, NEW t \in Tx, lead(t)
    PROVE  ThreadInv' /\ UndoInv' /\ OutcomeInv' /\ RecordInv' /\ OwnInv' /\ SeenInv' /\ AppliedInv' /\ ValuesInv'
<1>1. /\ UNCHANGED <<active, status, stripe, map, undo, seen, call, durable, outcome, vacuum, applying,
                     record, todo>>
      /\ pc[t] = "lead" /\ queue = None /\ batch' = pending /\ pending' = <<>>
      /\ pc' = [pc EXCEPT ![t] = "sync"]
  BY DEF lead, Goto, lockVars
<1>2. ~ Applies
  BY <1>1, NoneAssumption DEF OwnershipInv, DataInv, MutexInv, Applies, InQueue
<1>3. /\ ThreadInv' /\ UndoInv' /\ OutcomeInv' /\ OwnInv' /\ SeenInv' /\ AppliedInv'
      /\ pc'[t] = "sync" /\ \A u \in Tx \ {t} : pc'[u] = pc[u]
      /\ (Applies' <=> Applies) /\ \A u : Logged(u)' <=> Logged(u)
  BY <1>1, <1>2, QueueFrame
<1>4. \A u \in Tx : Prepares(u)' <=> Prepares(u)
  BY <1>1 DEF Prepares
<1>5. Range(pending') = {} /\ OneEach(pending')
  BY <1>1 DEF Range, OneEach
<1>6. \A u \in Tx : (pc'[u] \in Committing <=> pc[u] \in Committing) /\ (pc'[u] = "prepare" <=> pc[u] = "prepare")
  BY <1>1, <1>3 DEF Committing
<1>7. RecordInv'
  BY <1>1, <1>2, <1>3, <1>4, <1>5, <1>6 DEF OwnershipInv, RecordInv
<1>8. ValuesInv'
  BY <1>1, <1>3, <1>6 DEF OwnershipInv, ValuesInv
<1> QED  BY <1>3, <1>7, <1>8

----------------------------------------------------------------------------
(* commit: the leader.                                                     *)

LEMMA LeadNext ==
    ASSUME DataInv, LeadInv, [Next]_vars
    PROVE  LeadInv'
<1>1. ASSUME NEW t \in Tx, NEW p, pc' = [pc EXCEPT ![t] = p], UNCHANGED leader,
             p \in Leads => pc[t] \in Leads
      PROVE  LeadInv'
  BY <1>1 DEF DataInv, DataType, LeadInv
<1>2. CASE UNCHANGED <<pc, leader>>
  BY <1>2 DEF LeadInv
<1>3. CASE UNCHANGED vars
  BY <1>2, <1>3 DEF vars, dataVars
<1>4. ASSUME NEW t \in Tx,
             \/ begin_read_version(t) \/ begin_enter(t) \/ write_conflict(t) \/ write_install(t)
             \/ commit_empty(t) \/ commit_start(t) \/ append_fails(t) \/ commit_returns(t) \/ commit_failed(t)
             \/ rollback_call(t) \/ rollback_returns(t)
      PROVE  LeadInv'
  <2>1. UNCHANGED leader /\ \E p \in Pcs \ Leads : pc' = [pc EXCEPT ![t] = p]
    BY <1>4 DEF Pcs, Leads, Goto, begin_read_version, begin_enter, write_conflict, write_install, commit_empty,
                commit_start, append_fails, commit_returns, commit_failed, rollback_call, rollback_returns
  <2> QED  BY <1>1, <2>1
<1>5. ASSUME NEW t \in Tx, wait_step(t) PROVE LeadInv'
  <2>1. UNCHANGED leader /\ (UNCHANGED pc \/ \E p \in Pcs \ Leads : pc' = [pc EXCEPT ![t] = p])
    BY <1>5 DEF wait_step, Goto, Pcs, Leads
  <2> QED  BY <1>1, <1>2, <2>1
<1>6. ASSUME NEW t \in Tx, NEW k, NEW v, lock_and_read(t, k, v) PROVE LeadInv'
  <2>1. UNCHANGED leader /\ \E p \in Pcs \ Leads : pc' = [pc EXCEPT ![t] = p]
    BY <1>6 DEF lock_and_read, Goto, Pcs, Leads
  <2> QED  BY <1>1, <2>1
<1>7. ASSUME NEW t \in Tx, prepare_entry(t) \/ apply_change(t) \/ undo_entry(t) \/ leave_step(t) PROVE LeadInv'
  BY <1>2, <1>7 DEF prepare_entry, apply_change, undo_entry, leave_step, dataVars
<1>8. ASSUME NEW t \in Tx, enqueue(t) PROVE LeadInv'
  <2>1. pc[t] = "prepare" /\ leader' = TRUE /\ pc' = [pc EXCEPT ![t] = IF leader THEN "queued" ELSE "lead"]
    BY <1>8 DEF enqueue, Goto
  <2>2. CASE leader
    BY <2>1, <2>2 DEF DataInv, DataType, LeadInv, Leads
  <2>3. CASE ~ leader
    BY <2>1, <2>3 DEF DataInv, DataType, LeadInv, Leads
  <2> QED  BY <2>2, <2>3
<1>9. ASSUME NEW t \in Tx, lead(t) \/ sync_succeeds(t) PROVE LeadInv'
  <2>1. UNCHANGED leader /\ pc[t] \in Leads /\ \E p : pc' = [pc EXCEPT ![t] = p]
    BY <1>9 DEF lead, sync_succeeds, Goto, Leads
  <2> QED  BY <1>1, <2>1
<1>10. ASSUME NEW t \in Tx, sync_fails(t) \/ publish(t) PROVE LeadInv'
  <2>1. leader' = FALSE /\ pc[t] \in Leads /\ pc' = [pc EXCEPT ![t] = "queued"]
    BY <1>10 DEF sync_fails, publish, Complete, Goto, Leads
  <2>2. \A u \in Tx : pc'[u] \notin Leads
    BY <2>1 DEF DataInv, DataType, LeadInv, Leads
  <2> QED  BY <2>1, <2>2 DEF LeadInv
<1>11. CASE vacuum_step
  BY <1>2, <1>11 DEF vacuum_step, vacuum_horizon, vacuum_scan, vacuum_entry, vacuum_returns
<1>12. ASSUME NEW t \in Tx, write_retry(t) \/ \E k \in Keys : \E v : write_call(t, k, v) PROVE LeadInv'
  BY <1>6, <1>12 DEF write_retry, write_call
<1> QED  BY <1>3, <1>4, <1>5, <1>7, <1>8, <1>9, <1>10, <1>11, <1>12 DEF Next, commit_step, rollback_step

\* The members of a batch hold what they are about to change, each its own key.
LEMMA BatchHolds ==
    ASSUME OwnershipInv, ~ Applies, NEW p \in Positions(batch)
    PROVE  /\ ~ Logged(PosTx(p)) /\ HeldBy(map[PosChange(p).key], PosTx(p))
           /\ \A q \in Positions(batch) : PosChange(p).key = PosChange(q).key => p = q
<1>1. ASSUME NEW q \in Positions(batch)
      PROVE  /\ q = <<q[1], q[2]>> /\ q[1] \in DOMAIN batch /\ PosTx(q) \in Tx /\ ~ Logged(PosTx(q))
             /\ q[2] \in DOMAIN undo[PosTx(q)]
             /\ PosChange(q).key = undo[PosTx(q)][q[2]]
             /\ HeldBy(map[PosChange(q).key], PosTx(q))
  <2> DEFINE u == PosTx(q)
  <2>1. q = <<q[1], q[2]>> /\ q[1] \in DOMAIN batch /\ q[2] \in DOMAIN batch[q[1]].changes
    BY DEF Positions
  <2>2. u \in Tx /\ batch[q[1]] = record[u] /\ pc[u] \in Committing /\ batch[q[1]] \in Range(batch)
    BY PositionsKnown
  <2>3. ~ Logged(u)
    <3>1. outcome[u] = NoValue
      BY <2>2 DEF OwnershipInv, RecordInv, PosTx
    <3> QED  BY <2>2, <3>1, LoggedStage, ValuesAssumption
  <2>4. Prepares(u) /\ todo[u] = <<>>
    BY <2>2 DEF OwnershipInv, RecordInv
  <2>5. q[2] \in DOMAIN undo[u] /\ PosChange(q).key = undo[u][q[2]]
    <3>1. record[u].changes \in Seq(Changes) /\ undo[u] \in Seq(Keys)
      BY <2>2 DEF OwnershipInv, DataInv, DataType, WalRecords
    <3>2. Len(record[u].changes) = Len(undo[u])
      BY <2>4, <3>1 DEF Prepares
    <3>3. DOMAIN record[u].changes = DOMAIN undo[u]
      BY <3>1, <3>2
    <3>4. PosChange(q) = record[u].changes[q[2]] /\ q[2] \in DOMAIN record[u].changes
      BY <2>1, <2>2 DEF PosChange
    <3> QED  BY <2>4, <3>3, <3>4 DEF Prepares
  <2>6. PosChange(q).key \in Range(undo[u])
    BY <2>5 DEF Range
  <2>7. HeldBy(map[PosChange(q).key], u)
    BY <2>2, <2>3, <2>6 DEF OwnershipInv, OwnInv, Open, Committing
  <2> QED  BY <2>1, <2>2, <2>3, <2>5, <2>7
<1>2. ASSUME NEW q \in Positions(batch), PosChange(p).key = PosChange(q).key PROVE p = q
  <2>1. PosTx(p) = PosTx(q)
    BY <1>1, <1>2 DEF HeldBy
  <2>2. p[1] = q[1]
    BY <1>1, <2>1 DEF OwnershipInv, RecordInv, OneEach, PosTx
  <2>3. p[2] = q[2]
    BY <1>1, <1>2, <2>1 DEF OwnershipInv, UndoInv
  <2> QED  BY <1>1, <2>2, <2>3
<1> QED  BY <1>1, <1>2

\* The batch is durable: from here its keys are released one by one.
LEMMA SyncKeepsOwners ==
    ASSUME OwnershipInv, NEW t \in Tx, sync_succeeds(t)
    PROVE  ThreadInv' /\ UndoInv' /\ OutcomeInv' /\ RecordInv' /\ OwnInv' /\ SeenInv' /\ AppliedInv' /\ ValuesInv'
<1>1. /\ UNCHANGED <<active, status, stripe, map, undo, seen, call, outcome, vacuum, record, todo, batch, pending>>
      /\ pc[t] = "sync" /\ pc' = [pc EXCEPT ![t] = "apply"]
      /\ durable' = durable \o batch /\ applying' = Positions(batch)
  BY DEF sync_succeeds, Goto, lockVars
<1>2. pc'[t] = "apply" /\ \A u \in Tx \ {t} : pc'[u] = pc[u]
  BY <1>1 DEF OwnershipInv, DataInv, DataType
<1>3. ~ Applies /\ Applies' /\ applying = {}
  <2>1. ~ Applies
    BY <1>1 DEF OwnershipInv, DataInv, MutexInv, InQueue, Applies
  <2> QED  BY <1>2, <2>1 DEF OwnershipInv, AppliedInv, Applies
<1>4. Range(durable') = Range(durable) \cup Range(batch)
  BY <1>1, RangeGrows DEF OwnershipInv, DataInv, DataType
<1>5. \A u : Logged(u)' <=> Logged(u) \/ \E r \in Range(batch) : r.tx_id = u
  BY <1>4 DEF Logged
<1>6. \A u \in Tx : /\ Open(u)' <=> Open(u)
                    /\ pc'[u] \in Committing <=> pc[u] \in Committing
                    /\ pc'[u] = "prepare" <=> pc[u] = "prepare"
                    /\ pc'[u] = "locked" <=> pc[u] = "locked"
  BY <1>1, <1>2 DEF Open, Committing
<1>7. \A p : PosTx(p)' = PosTx(p) /\ PosChange(p)' = PosChange(p)
  BY <1>1 DEF PosTx, PosChange
<1>8. ThreadInv'
  BY <1>1, <1>6 DEF OwnershipInv, ThreadInv
<1>9. UndoInv'
  BY <1>1, <1>2 DEF OwnershipInv, UndoInv, Writing
<1>10. OutcomeInv'
  <2>1. \A u \in Tx : outcome[u] = "failed" => \A r \in Range(batch) : r.tx_id # u
    BY ValuesAssumption DEF OwnershipInv, RecordInv
  <2> QED  BY <1>1, <1>2, <1>5, <2>1 DEF OwnershipInv, OutcomeInv
<1>11. RecordInv'
  <2>1. \A u \in Tx : Prepares(u)' <=> Prepares(u)
    BY <1>1 DEF Prepares
  <2>2. ASSUME NEW u \in Tx, pc'[u] \in Committing \/ Logged(u)' PROVE Prepares(u)' /\ todo'[u] = <<>>
    BY <1>1, <1>5, <1>6, <2>1, <2>2 DEF OwnershipInv, RecordInv
  <2>3. ASSUME NEW r \in Range(durable'), r.tx_id \in Tx
        PROVE  r = record'[r.tx_id] /\ (outcome'[r.tx_id] = "ok" \/ (Applies' /\ r \in Range(batch')))
    BY <1>1, <1>3, <1>4, <2>3 DEF OwnershipInv, RecordInv
  <2>4. \A u \in Tx : pc'[u] = "prepare" => Prepares(u)'
    BY <1>6, <2>1 DEF OwnershipInv, RecordInv
  <2>5. \A r \in Range(pending') \cup Range(batch') :
           r.tx_id \in Tx /\ r = record'[r.tx_id] /\ pc'[r.tx_id] \in Committing /\ outcome'[r.tx_id] = NoValue
    BY <1>1, <1>6 DEF OwnershipInv, RecordInv
  <2>6. OneEach(pending') /\ OneEach(batch') /\ \A r \in Range(pending'), s \in Range(batch') : r.tx_id # s.tx_id
    BY <1>1 DEF OwnershipInv, RecordInv
  <2> QED  BY <2>2, <2>3, <2>4, <2>5, <2>6 DEF RecordInv
<1>12. OwnInv'
  <2>1. ASSUME NEW u \in Tx, NEW k \in Keys, HeldBy(map[k], u), Logged(u)'
        PROVE  \E p \in applying' : PosTx(p)' = u /\ PosChange(p)'.key = k
    <3>1. k \in Range(undo[u]) /\ ~ Logged(u)
      BY <1>3, <2>1 DEF OwnershipInv, OwnInv
    <3>2. PICK i \in DOMAIN batch : batch[i].tx_id = u
      BY <1>5, <2>1, <3>1 DEF Range
    <3>3. batch[i] \in Range(batch)
      BY DEF Range
    <3>4. batch[i] = record[u] /\ Prepares(u) /\ todo[u] = <<>>
      BY <3>2, <3>3 DEF OwnershipInv, RecordInv
    <3>5. PICK j \in DOMAIN undo[u] : undo[u][j] = k
      BY <3>1 DEF Range
    <3>6. j \in DOMAIN record[u].changes /\ record[u].changes[j].key = k
      <4>1. record[u].changes \in Seq(Changes) /\ undo[u] \in Seq(Keys)
        BY DEF OwnershipInv, DataInv, DataType, WalRecords
      <4>2. Len(record[u].changes) = Len(undo[u])
        BY <3>4, <4>1 DEF Prepares
      <4>3. j \in DOMAIN record[u].changes
        BY <4>1, <4>2
      <4> QED  BY <3>4, <3>5, <4>3 DEF Prepares
    <3>7. <<i, j>> \in Positions(batch)
      BY <3>4, <3>6 DEF Positions
    <3>8. PosTx(<<i, j>>) = u /\ PosChange(<<i, j>>).key = k
      BY <3>2, <3>4, <3>6 DEF PosTx, PosChange
    <3> QED  BY <1>1, <1>7, <3>7, <3>8
  <2> QED  BY <1>1, <1>5, <1>6, <2>1 DEF OwnershipInv, OwnInv
<1>13. SeenInv'
  BY <1>1, <1>6 DEF OwnershipInv, SeenInv
<1>14. AppliedInv'
  <2>1. ASSUME NEW p \in Positions(batch)
        PROVE  /\ HeldBy(map[PosChange(p).key], PosTx(p))
               /\ \A q \in Positions(batch) : PosChange(p).key = PosChange(q).key => p = q
    BY <1>3, BatchHolds
  <2> QED  BY <1>1, <1>3, <1>7, <2>1 DEF AppliedInv
<1>15. ValuesInv'
  BY <1>1, <1>5, <1>6 DEF OwnershipInv, ValuesInv
<1> QED  BY <1>8, <1>9, <1>10, <1>11, <1>12, <1>13, <1>14, <1>15

\* The members of the batch are told.
LEMMA CompleteKeepsOwners ==
    ASSUME OwnershipInv, NEW t \in Tx, sync_fails(t) \/ publish(t)
    PROVE  ThreadInv' /\ UndoInv' /\ OutcomeInv' /\ RecordInv' /\ OwnInv' /\ SeenInv' /\ AppliedInv' /\ ValuesInv'
<1>1. PICK result \in {"ok", "failed"} :
         /\ UNCHANGED <<active, status, stripe, map, undo, seen, call, vacuum, record, todo, pending, durable,
                        applying>>
         /\ result = "failed" => pc[t] = "sync"
         /\ result = "ok" => pc[t] = "apply" /\ applying = {}
         /\ pc' = [pc EXCEPT ![t] = "queued"] /\ batch' = <<>>
         /\ outcome' = [u \in Tx |-> IF \E i \in DOMAIN batch : batch[i].tx_id = u THEN result ELSE outcome[u]]
  BY DEF sync_fails, publish, Complete, Goto, lockVars
<1>2. pc'[t] = "queued" /\ \A u \in Tx \ {t} : pc'[u] = pc[u]
  BY <1>1 DEF OwnershipInv, DataInv, DataType
<1>3. \A u \in Tx \ {t} : pc[u] \notin Leads
  BY <1>1 DEF OwnershipInv, LeadInv, Leads
<1>4. ~ Applies' /\ (result = "failed" => ~ Applies) /\ applying = {}
  <2>1. ~ Applies' /\ (result = "failed" => ~ Applies)
    BY <1>1, <1>2, <1>3 DEF Applies, Leads
  <2> QED  BY <1>1, <2>1 DEF OwnershipInv, AppliedInv
<1>5. /\ \A u : Logged(u)' <=> Logged(u)
      /\ Range(batch') = {} /\ OneEach(batch')
  BY <1>1 DEF Logged, Range, OneEach
<1>6. /\ \A u \in Tx : (\E r \in Range(batch) : r.tx_id = u) => outcome'[u] = result
      /\ \A u \in Tx : (\A r \in Range(batch) : r.tx_id # u) => outcome'[u] = outcome[u]
  BY <1>1 DEF Range
<1>7. \A u \in Tx : /\ Open(u)' <=> Open(u)
                    /\ pc'[u] \in Committing <=> pc[u] \in Committing
                    /\ pc'[u] = "prepare" <=> pc[u] = "prepare"
                    /\ pc'[u] = "locked" <=> pc[u] = "locked"
  BY <1>1, <1>2 DEF Open, Committing
<1>8. ASSUME NEW u \in Tx, NEW r \in Range(batch), r.tx_id = u
      PROVE  /\ outcome[u] = NoValue /\ pc'[u] = "queued" /\ pc[u] \in Committing
             /\ result = "ok" <=> Logged(u)
  <2>1. outcome[u] = NoValue /\ pc[u] \in Committing /\ r \in Range(batch)
    BY <1>8 DEF OwnershipInv, RecordInv
  <2>2. pc'[u] = "queued"
    BY <1>2, <1>3, <2>1 DEF Committing, Leads
  <2>3. result = "ok" => Logged(u)
    BY <1>1, <1>8 DEF OwnershipInv, DataInv, ApplyInv, Logged
  <2>4. result = "failed" => ~ Logged(u)
    BY <1>4, <2>1, LoggedStage, ValuesAssumption
  <2> QED  BY <2>1, <2>2, <2>3, <2>4
<1>9. ThreadInv'
  BY <1>1, <1>7 DEF OwnershipInv, ThreadInv
<1>10. UndoInv'
  BY <1>1, <1>2 DEF OwnershipInv, UndoInv, Writing
<1>11. OutcomeInv'
  <2>1. DOMAIN outcome' = Tx /\ DOMAIN status' = Tx
    BY <1>1 DEF OwnershipInv, OutcomeInv
  <2>2. ASSUME NEW u \in Tx
        PROVE  /\ outcome'[u] \in {NoValue, "ok", "failed"}
               /\ outcome'[u] = "ok" => pc'[u] \in {"queued", "end"} /\ Logged(u)'
               /\ outcome'[u] = "failed" => pc'[u] \in {"queued", "undo", "end"} /\ ~ Logged(u)'
               /\ status'[u] = "Committed" => pc'[u] = "end" /\ (undo'[u] = <<>> \/ outcome'[u] = "ok")
               /\ status'[u] = "RolledBack" => pc'[u] = "end" /\ undo'[u] = <<>> /\ outcome'[u] # "ok"
    <3>1. CASE \E r \in Range(batch) : r.tx_id = u
      <4>1. /\ outcome'[u] = result /\ pc'[u] = "queued" /\ pc[u] \in Committing
            /\ result = "ok" <=> Logged(u)
        BY <1>6, <1>8, <3>1
      <4>2. status[u] \notin {"Committed", "RolledBack"}
        BY <4>1 DEF OwnershipInv, OutcomeInv, Committing
      <4> QED  BY <1>1, <1>5, <4>1, <4>2
    <3>2. CASE \A r \in Range(batch) : r.tx_id # u
      <4>1. outcome'[u] = outcome[u] /\ (u = t => pc[u] \in {"sync", "apply"})
        BY <1>1, <1>6, <3>2
      <4> QED  BY <1>1, <1>2, <1>5, <4>1 DEF OwnershipInv, OutcomeInv
    <3> QED  BY <3>1, <3>2
  <2> QED  BY <2>1, <2>2 DEF OutcomeInv
<1>12. RecordInv'
  <2>1. \A u \in Tx : Prepares(u)' <=> Prepares(u)
    BY <1>1 DEF Prepares
  <2>2. ASSUME NEW r \in Range(pending)
        PROVE  r.tx_id \in Tx /\ r = record[r.tx_id] /\ pc'[r.tx_id] \in Committing /\ outcome'[r.tx_id] = NoValue
    BY <1>6, <1>7 DEF OwnershipInv, RecordInv
  <2>3. ASSUME NEW r \in Range(durable), r.tx_id \in Tx PROVE r = record[r.tx_id] /\ outcome'[r.tx_id] = "ok"
    <3>1. r = record[r.tx_id] /\ (outcome[r.tx_id] = "ok" \/ (Applies /\ r \in Range(batch)))
      BY <2>3 DEF OwnershipInv, RecordInv
    <3>2. CASE \E s \in Range(batch) : s.tx_id = r.tx_id
      <4>1. Logged(r.tx_id)
        BY DEF Logged
      <4> QED  BY <1>6, <1>8, <2>3, <3>1, <3>2, <4>1
    <3>3. CASE \A s \in Range(batch) : s.tx_id # r.tx_id
      BY <1>6, <2>3, <3>1, <3>3
    <3> QED  BY <3>2, <3>3
  <2> QED  BY <1>1, <1>5, <1>7, <2>1, <2>2, <2>3 DEF OwnershipInv, RecordInv
<1>13. OwnInv'
  BY <1>1, <1>4, <1>5, <1>7 DEF OwnershipInv, OwnInv
<1>14. SeenInv'
  BY <1>1, <1>7 DEF OwnershipInv, SeenInv
<1>15. AppliedInv'
  BY <1>1, <1>4 DEF AppliedInv
<1>16. ValuesInv'
  BY <1>1, <1>5, <1>7 DEF OwnershipInv, ValuesInv
<1> QED  BY <1>9, <1>10, <1>11, <1>12, <1>13, <1>14, <1>15, <1>16

LEMMA UndoneKeys ==
    ASSUME OwnershipInv, NEW t \in Tx
    PROVE  Range(undo[t]) \subseteq Keys
<1>1. undo[t] \in Seq(Keys)
  BY DEF OwnershipInv, DataInv, DataType
<1> QED  BY <1>1 DEF Range

\* A change goes into the map: its entry is settled, and nobody else held it.
LEMMA ApplyKeepsOwners ==
    ASSUME OwnershipInv, NEW t \in Tx, apply_change(t)
    PROVE  ThreadInv' /\ UndoInv' /\ OutcomeInv' /\ RecordInv' /\ OwnInv' /\ SeenInv' /\ AppliedInv' /\ ValuesInv'
<1>1. PICK p \in applying :
         map' = [map EXCEPT ![PosChange(p).key] = PosChange(p).value] /\ applying' = applying \ {p}
  BY DEF apply_change, PosChange
<1>2. /\ UNCHANGED <<active, status, stripe, undo, seen, call, outcome, vacuum, record, todo, batch, pending,
                     durable, pc>>
      /\ pc[t] = "apply"
  BY DEF apply_change, lockVars
<1> DEFINE u == PosTx(p)
           c == PosChange(p)
           k == c.key
<1>3. Applies /\ Applies' /\ Range(batch) \subseteq Range(durable) /\ applying \subseteq Positions(batch)
  BY <1>2 DEF Applies, OwnershipInv, DataInv, ApplyInv
<1>4. /\ batch[p[1]] \in Range(batch) /\ u \in Tx /\ c \in Range(record[u].changes)
      /\ k \in Keys /\ c.value \in MaybeEntries /\ pc[u] \in Committing
  BY <1>3, PositionsKnown
<1>5. Logged(u)
  BY <1>3, <1>4 DEF Logged, PosTx
<1>6. c.value # NoValue /\ c.value.uncommitted = NoValue /\ c.value.committed_history # <<>>
  <2>1. Prepares(u)
    BY <1>4 DEF OwnershipInv, RecordInv
  <2>2. PICK i \in DOMAIN record[u].changes : c = record[u].changes[i]
    BY <1>4 DEF Range
  <2> QED  BY <2>1, <2>2 DEF Prepares
<1>7. c.value.committed_history[1] \in Range(c.value.committed_history)
  <2>1. c.value.committed_history \in Seq(Versions)
    BY <1>4, <1>6 DEF MaybeEntries, Entries
  <2>2. 1 \in DOMAIN c.value.committed_history
    BY <1>6, <2>1
  <2> QED  BY <2>2 DEF Range
<1>8. HeldBy(map[k], u) /\ \A w \in Tx : HeldBy(map[k], w) => w = u
  BY DEF OwnershipInv, AppliedInv, HeldBy
<1>9. \A q \in Positions(batch) : PosChange(q).key = k => q = p
  BY <1>3 DEF OwnershipInv, AppliedInv
<1>10. map'[k] = c.value /\ \A j \in Keys \ {k} : map'[j] = map[j]
  BY <1>1, <1>4 DEF OwnershipInv, DataInv, DataType
<1>11. \A q : PosTx(q)' = PosTx(q) /\ PosChange(q)' = PosChange(q)
  BY <1>2 DEF PosTx, PosChange
<1> HIDE DEF u, c, k
<1>12. \A w : Logged(w)' <=> Logged(w)
  BY <1>2 DEF Logged
<1>13. \A w : (Open(w)' <=> Open(w)) /\ (Prepares(w)' <=> Prepares(w))
  BY <1>2 DEF Open, Prepares
<1>14. ThreadInv' /\ UndoInv'
  BY <1>2, <1>13 DEF OwnershipInv, ThreadInv, UndoInv
<1>15. OutcomeInv'
  BY <1>2, <1>12 DEF OwnershipInv, OutcomeInv
<1>16. RecordInv'
  BY <1>2, <1>3, <1>12, <1>13 DEF OwnershipInv, RecordInv
<1>17. OwnInv'
  <2>1. ASSUME NEW w \in Tx, NEW j \in Range(undo'[w]), Open(w)', ~ Logged(w)' PROVE HeldBy(map'[j], w)
    <3>1. HeldBy(map[j], w) /\ j \in Keys
      BY <1>2, <1>12, <1>13, <2>1, UndoneKeys DEF OwnershipInv, OwnInv
    <3>2. j # k
      BY <1>5, <1>8, <1>12, <2>1, <3>1
    <3> QED  BY <1>10, <3>1, <3>2
  <2>2. ASSUME NEW w \in Tx, NEW j \in Keys, HeldBy(map'[j], w)
        PROVE  /\ j \in Range(undo'[w]) /\ Open(w)'
               /\ map'[j].uncommitted.value \in {w, NoValue}
               /\ Logged(w)' => \E q \in applying' : PosTx(q)' = w /\ PosChange(q)'.key = j
    <3>1. j # k
      BY <1>6, <1>10, <2>2 DEF HeldBy
    <3>2. /\ j \in Range(undo[w]) /\ Open(w)
          /\ map[j].uncommitted.value \in {w, NoValue}
          /\ Logged(w) => \E q \in applying : PosTx(q) = w /\ PosChange(q).key = j
      BY <1>10, <2>2, <3>1 DEF OwnershipInv, OwnInv
    <3>3. \A q \in applying : PosChange(q).key = j => q \in applying'
      BY <1>1, <3>1 DEF c, k
    <3> QED  BY <1>2, <1>10, <1>11, <1>12, <1>13, <3>1, <3>2, <3>3
  <2> QED  BY <2>1, <2>2 DEF OwnInv
<1>18. SeenInv'
  <2>1. ASSUME NEW w \in Tx, pc[w] = "locked" PROVE map'[call[w].key] = seen[w] \/ Settled(map'[call[w].key])
    <3>1. call[w].key \in Keys
      BY <2>1 DEF OwnershipInv, DataInv, DataType, Calls
    <3>2. CASE call[w].key = k
      BY <1>6, <1>10, <3>2 DEF Settled
    <3>3. CASE call[w].key # k
      BY <1>10, <2>1, <3>1, <3>3 DEF OwnershipInv, SeenInv
    <3> QED  BY <3>2, <3>3
  <2> QED  BY <1>2, <2>1 DEF SeenInv
<1>19. AppliedInv'
  <2>1. ASSUME NEW q \in applying' PROVE HeldBy(map'[PosChange(q).key], PosTx(q))
    <3>1. q \in applying /\ q # p /\ q \in Positions(batch)
      BY <1>1, <1>3, <2>1
    <3>2. PosChange(q).key # k /\ PosChange(q).key \in Keys
      BY <1>9, <3>1, PositionsKnown
    <3> QED  BY <1>10, <3>1, <3>2 DEF OwnershipInv, AppliedInv
  <2>2. ASSUME NEW q \in Positions(batch) \ applying'
        PROVE  LET d == PosChange(q)
               IN  /\ map'[d.key] # NoValue
                   /\ d.value.committed_history[1] \in Range(map'[d.key].committed_history)
                   /\ \A w \in Tx : pc[w] = "locked" /\ call[w].key = d.key =>
                         seen[w] = map'[d.key] \/ HeldBy(seen[w], PosTx(q))
    <3>1. CASE q = p
      <4>1. PosChange(q) = c /\ PosTx(q) = u /\ c.key = k
        BY <3>1 DEF c, u, k
      <4>2. ASSUME NEW w \in Tx, pc[w] = "locked", call[w].key = k PROVE HeldBy(seen[w], u)
        <5>1. map[k] = seen[w] \/ Settled(map[k])
          BY <4>2 DEF OwnershipInv, SeenInv
        <5> QED  BY <1>8, <5>1 DEF Settled, HeldBy
      <4> QED  BY <1>6, <1>7, <1>10, <4>1, <4>2
    <3>2. CASE q # p
      <4>1. q \in Positions(batch) \ applying
        BY <1>1, <3>2
      <4>2. PosChange(q).key # k /\ PosChange(q).key \in Keys
        BY <1>9, <3>2, PositionsKnown
      <4> QED  BY <1>3, <1>10, <4>1, <4>2 DEF OwnershipInv, AppliedInv
    <3> QED  BY <3>1, <3>2
  <2>3. \A q, w \in Positions(batch) : PosChange(q).key = PosChange(w).key => q = w
    BY <1>3 DEF OwnershipInv, AppliedInv
  <2> QED  BY <1>2, <1>3, <1>11, <2>1, <2>2, <2>3 DEF AppliedInv
<1>20. ValuesInv'
  <2>1. ASSUME NEW x \in Tx, NEW j \in Keys, Has(map'[j], x) PROVE Logged(x)
    <3>1. CASE j = k
      BY <1>4, <1>5, <1>10, <2>1, <3>1 DEF OwnershipInv, ValuesInv
    <3>2. CASE j # k
      BY <1>10, <2>1, <3>2 DEF OwnershipInv, ValuesInv
    <3> QED  BY <3>1, <3>2
  <2> QED  BY <1>2, <1>12, <2>1 DEF OwnershipInv, ValuesInv
<1> QED  BY <1>14, <1>15, <1>16, <1>17, <1>18, <1>19, <1>20

----------------------------------------------------------------------------
(* rollback.                                                               *)

\* What a rollback leaves of an entry.
LEMMA RolledBackEntry ==
    ASSUME NEW vv \in Entries, NEW t \in Tx, HeldBy(vv, t)
    PROVE  /\ \A u \in Tx : ~ HeldBy(RolledBack(t, vv), u)
           /\ \A x \in Tx : Has(RolledBack(t, vv), x) => Has(vv, x)
           /\ vv.committed_history # <<>> =>
                 RolledBack(t, vv) # NoValue /\ RolledBack(t, vv).committed_history = vv.committed_history
<1>1. vv # NoValue /\ active_tx_id(vv) = t
  BY DEF HeldBy, active_tx_id
<1>2. CASE vv.committed_history = <<>>
  <2>1. RolledBack(t, vv) = NoValue
    BY <1>1, <1>2 DEF RolledBack
  <2> QED  BY <1>2, <2>1 DEF HeldBy, Has
<1>3. CASE vv.committed_history # <<>>
  <2> DEFINE new == RolledBack(t, vv)
  <2>1. new = [vv EXCEPT !.uncommitted = NoValue]
    BY <1>1, <1>3 DEF RolledBack, rollback_uncommitted
  <2>2. new \in Entries /\ new.uncommitted = NoValue /\ new.committed_history = vv.committed_history
    BY <2>1 DEF Entries
  <2> HIDE DEF new
  <2>3. new # NoValue
    BY <2>2, ValuesAssumption
  <2>4. /\ \A u \in Tx : ~ HeldBy(new, u)
        /\ \A x \in Tx : Has(new, x) => Has(vv, x)
    BY <1>1, <2>2 DEF HeldBy, Has
  <2> QED  BY <2>2, <2>3, <2>4 DEF new
<1> QED  BY <1>2, <1>3

\* The last key leaves the undo log and its record the entry.
LEMMA UndoKeepsOwners ==
    ASSUME OwnershipInv, NEW t \in Tx, undo_entry(t)
    PROVE  ThreadInv' /\ UndoInv' /\ OutcomeInv' /\ RecordInv' /\ OwnInv' /\ SeenInv' /\ AppliedInv' /\ ValuesInv'
<1> DEFINE k == Last(undo[t])
           new == RolledBack(t, map[k])
<1>1. /\ UNCHANGED <<active, status, stripe, seen, call, outcome, vacuum, record, todo, batch, pending,
                     durable, pc, applying>>
      /\ pc[t] = "undo" /\ undo[t] # <<>> /\ stripe[k] = None
      /\ undo' = [undo EXCEPT ![t] = Front(undo[t])]
      /\ map' = [map EXCEPT ![k] = new]
  <2>1. undo' = [undo EXCEPT ![t] = Front(undo[t])]
    BY DEF undo_entry
  <2> QED  BY <2>1 DEF undo_entry, lockVars
<1>2. undo[t] \in Seq(Keys) /\ Len(undo[t]) \in Nat /\ Len(undo[t]) > 0 /\ DOMAIN undo[t] = 1 .. Len(undo[t])
  <2>1. undo[t] \in Seq(Keys)
    BY DEF OwnershipInv, DataInv, DataType
  <2> QED  BY <1>1, <2>1
<1>3. /\ DOMAIN Front(undo[t]) = 1 .. Len(undo[t]) - 1
      /\ \A i \in 1 .. Len(undo[t]) - 1 : Front(undo[t])[i] = undo[t][i]
  BY <1>2 DEF Front
<1>4. k = undo[t][Len(undo[t])] /\ Len(undo[t]) \in DOMAIN undo[t]
  BY <1>2 DEF Last
<1>5. \A i, j \in DOMAIN undo[t] : undo[t][i] = undo[t][j] => i = j
  BY DEF OwnershipInv, UndoInv
<1>6. k \in Keys /\ k \in Range(undo[t])
  BY <1>2, <1>4 DEF Range
<1>7. ~ Logged(t) /\ Open(t)
  BY <1>1, LoggedStage DEF Committing, Open
<1>8. HeldBy(map[k], t) /\ map[k] \in Entries /\ \A w \in Tx : HeldBy(map[k], w) => w = t
  BY <1>6, <1>7 DEF OwnershipInv, OwnInv, HeldBy, DataInv, DataType, MaybeEntries
<1>9. /\ \A w \in Tx : ~ HeldBy(new, w)
      /\ \A x \in Tx : Has(new, x) => Has(map[k], x)
      /\ map[k].committed_history # <<>> => new # NoValue /\ new.committed_history = map[k].committed_history
  BY <1>8, RolledBackEntry
<1> HIDE DEF k, new
<1>10. Range(Front(undo[t])) = Range(undo[t]) \ {k}
  <2>1. ASSUME NEW i \in DOMAIN Front(undo[t]) PROVE Front(undo[t])[i] \in Range(undo[t]) \ {k}
    <3>1. i \in DOMAIN undo[t] /\ i # Len(undo[t]) /\ Front(undo[t])[i] = undo[t][i]
      BY <1>2, <1>3
    <3> QED  BY <1>4, <1>5, <3>1 DEF Range
  <2>2. ASSUME NEW i \in DOMAIN undo[t], undo[t][i] # k PROVE undo[t][i] \in Range(Front(undo[t]))
    <3>1. i \in DOMAIN Front(undo[t]) /\ Front(undo[t])[i] = undo[t][i]
      BY <1>2, <1>3, <1>4, <2>2
    <3> QED  BY <3>1 DEF Range
  <2> QED  BY <2>1, <2>2 DEF Range
<1>11. /\ map'[k] = new /\ \A j \in Keys \ {k} : map'[j] = map[j]
       /\ undo'[t] = Front(undo[t]) /\ \A w \in Tx \ {t} : undo'[w] = undo[w]
  BY <1>1, <1>6 DEF OwnershipInv, DataInv, DataType
<1>12. \A w \in Tx : pc[w] = "locked" => call[w].key # k /\ call[w].key \in Keys
  BY <1>1, NoneAssumption DEF OwnershipInv, ThreadInv, DataInv, DataType, Calls
<1>13. /\ Applies' <=> Applies
       /\ \A w : (Open(w)' <=> Open(w)) /\ (Logged(w)' <=> Logged(w))
       /\ \A q : PosTx(q)' = PosTx(q) /\ PosChange(q)' = PosChange(q)
  BY <1>1 DEF Open, Logged, PosTx, PosChange, Applies
<1>14. ThreadInv'
  BY <1>1, <1>13 DEF OwnershipInv, ThreadInv
<1>15. UndoInv'
  <2>1. ASSUME NEW i \in DOMAIN undo'[t], NEW j \in DOMAIN undo'[t], undo'[t][i] = undo'[t][j] PROVE i = j
    <3>1. i \in DOMAIN undo[t] /\ j \in DOMAIN undo[t] /\ undo[t][i] = undo[t][j]
      <4>1. i \in 1 .. Len(undo[t]) - 1 /\ j \in 1 .. Len(undo[t]) - 1
        BY <1>3, <1>11
      <4>2. Front(undo[t])[i] = undo[t][i] /\ Front(undo[t])[j] = undo[t][j] /\ Front(undo[t])[i] = Front(undo[t])[j]
        BY <1>3, <1>11, <2>1, <4>1
      <4> QED  BY <1>2, <4>1, <4>2
    <3> QED  BY <1>5, <3>1
  <2> QED  BY <1>1, <1>11, <2>1 DEF OwnershipInv, UndoInv, Writing
<1>16. OutcomeInv'
  <2>1. status[t] \notin {"Committed", "RolledBack"}
    BY <1>1 DEF OwnershipInv, OutcomeInv
  <2> QED  BY <1>1, <1>11, <1>13, <2>1 DEF OwnershipInv, OutcomeInv
<1>17. RecordInv'
  <2>1. ASSUME NEW w \in Tx \ {t} PROVE Prepares(w)' <=> Prepares(w)
    <3>1. undo'[w] = undo[w] /\ todo'[w] = todo[w] /\ record'[w] = record[w]
      BY <1>1, <1>11
    <3> QED  BY <3>1 DEF Prepares
  <2>2. pc[t] \notin {"prepare"} \cup Committing
    BY <1>1 DEF Committing
  <2> QED  BY <1>1, <1>7, <1>13, <2>1, <2>2 DEF OwnershipInv, RecordInv
<1>18. OwnInv'
  <2>1. ASSUME NEW w \in Tx, NEW j \in Range(undo'[w]), Open(w)', ~ Logged(w)' PROVE HeldBy(map'[j], w)
    <3>1. j \in Range(undo[w]) /\ (w = t => j # k)
      BY <1>10, <1>11, <2>1
    <3>2. HeldBy(map[j], w) /\ j \in Keys
      BY <1>13, <2>1, <3>1, UndoneKeys DEF OwnershipInv, OwnInv
    <3>3. j # k
      BY <1>8, <3>1, <3>2
    <3> QED  BY <1>11, <3>2, <3>3
  <2>2. ASSUME NEW w \in Tx, NEW j \in Keys, HeldBy(map'[j], w)
        PROVE  /\ j \in Range(undo'[w]) /\ Open(w)'
               /\ map'[j].uncommitted.value \in {w, NoValue}
               /\ Logged(w)' => \E q \in applying' : PosTx(q)' = w /\ PosChange(q)'.key = j
    <3>1. j # k
      BY <1>9, <1>11, <2>2
    <3>2. /\ j \in Range(undo[w]) /\ Open(w)
          /\ map[j].uncommitted.value \in {w, NoValue}
          /\ Logged(w) => \E q \in applying : PosTx(q) = w /\ PosChange(q).key = j
      BY <1>11, <2>2, <3>1 DEF OwnershipInv, OwnInv
    <3> QED  BY <1>1, <1>10, <1>11, <1>13, <3>1, <3>2
  <2> QED  BY <2>1, <2>2 DEF OwnInv
<1>19. SeenInv'
  BY <1>1, <1>11, <1>12 DEF OwnershipInv, SeenInv
<1>20. AppliedInv'
  <2>1. applying # {} => Applies /\ applying \subseteq Positions(batch) /\ Range(batch) \subseteq Range(durable)
    BY DEF OwnershipInv, AppliedInv, DataInv, ApplyInv, Applies
  <2>2. ASSUME NEW q \in applying PROVE HeldBy(map'[PosChange(q).key], PosTx(q))
    <3>1. /\ batch[q[1]] \in Range(batch) /\ PosTx(q) \in Tx /\ PosChange(q).key \in Keys
          /\ HeldBy(map[PosChange(q).key], PosTx(q))
      BY <2>1, PositionsKnown DEF OwnershipInv, AppliedInv
    <3>2. Logged(PosTx(q))
      BY <2>1, <3>1 DEF Logged, PosTx
    <3>3. PosChange(q).key # k
      BY <1>7, <1>8, <3>1, <3>2
    <3> QED  BY <1>11, <3>1, <3>3
  <2>3. ASSUME Applies, NEW q \in Positions(batch) \ applying
        PROVE  LET d == PosChange(q)
               IN  /\ map'[d.key] # NoValue
                   /\ d.value.committed_history[1] \in Range(map'[d.key].committed_history)
                   /\ \A w \in Tx : pc[w] = "locked" /\ call[w].key = d.key =>
                         seen[w] = map'[d.key] \/ HeldBy(seen[w], PosTx(q))
    <3> DEFINE d == PosChange(q)
    <3>1. /\ d.key \in Keys /\ map[d.key] # NoValue
          /\ d.value.committed_history[1] \in Range(map[d.key].committed_history)
          /\ \A w \in Tx : pc[w] = "locked" /\ call[w].key = d.key => seen[w] = map[d.key] \/ HeldBy(seen[w], PosTx(q))
      BY <2>3, PositionsKnown DEF OwnershipInv, AppliedInv
    <3>2. CASE d.key = k
      <4>1. map[k].committed_history # <<>>
        BY <3>1, <3>2 DEF Range
      <4> QED  BY <1>9, <1>11, <1>12, <3>1, <3>2, <4>1
    <3>3. CASE d.key # k
      BY <1>11, <3>1, <3>3
    <3> QED  BY <3>2, <3>3
  <2> QED  BY <1>1, <1>13, <2>2, <2>3 DEF OwnershipInv, AppliedInv
<1>21. ValuesInv'
  <2>1. ASSUME NEW x \in Tx, NEW j \in Keys, Has(map'[j], x) PROVE Logged(x)
    BY <1>6, <1>9, <1>11, <2>1 DEF OwnershipInv, ValuesInv
  <2> QED  BY <1>1, <1>13, <2>1 DEF OwnershipInv, ValuesInv
<1> QED  BY <1>14, <1>15, <1>16, <1>17, <1>18, <1>19, <1>20, <1>21

----------------------------------------------------------------------------

LEMMA OwnershipInit ==
    ASSUME Init
    PROVE  OwnershipInv
<1>1. DataInv
  BY DataInit
<1>2. PICK L \in SUBSET Keys :
         /\ map = [k \in Keys |-> IF k \in L THEN LoadedVV ELSE NoValue]
         /\ durable = IF L = {} THEN <<>> ELSE <<LoadRecord(L)>>
  BY DEF Init
<1>3. /\ active = {} /\ stripe = [k \in Keys |-> None] /\ pc = [t \in Tx |-> "begin"]
      /\ status = [t \in Tx |-> "Open"] /\ undo = [t \in Tx |-> <<>>] /\ outcome = [t \in Tx |-> NoValue]
      /\ pending = <<>> /\ batch = <<>> /\ applying = {} /\ vacuum = Idle /\ leader = FALSE
  BY DEF Init, LockInit
<1>4. /\ \A t \in Tx : pc[t] = "begin" /\ undo[t] = <<>> /\ outcome[t] = NoValue /\ status[t] = "Open"
      /\ ~ Applies /\ \A t \in Tx : ~ Open(t) /\ Range(undo[t]) = {}
  BY <1>3 DEF Applies, Open, Range
<1>5. \A r \in Range(durable) : r.tx_id = None
  <2>1. LoadRecord(L).tx_id = None
    BY DEF LoadRecord
  <2>2. \A i \in DOMAIN durable : durable[i] = LoadRecord(L)
    BY <1>2
  <2> QED  BY <2>1, <2>2 DEF Range
<1>6. \A t \in Tx : ~ Logged(t)
  BY <1>5, NoneAssumption DEF Logged
<1>7. LoadedVV.uncommitted = NoValue /\ LoadedVV.committed_history = <<[value |-> Loaded, commit_version |-> 1]>>
  BY DEF LoadedVV
<1>8. \A k \in Keys, t \in Tx : ~ HeldBy(map[k], t) /\ ~ Has(map[k], t)
  <2> SUFFICES ASSUME NEW k \in Keys, NEW t \in Tx PROVE ~ HeldBy(map[k], t) /\ ~ Has(map[k], t)
    OBVIOUS
  <2>1. CASE k \in L
    <3>1. map[k] = LoadedVV
      BY <1>2, <2>1
    <3>2. ~ HeldBy(map[k], t)
      BY <1>7, <3>1 DEF HeldBy
    <3>3. ASSUME NEW i \in DOMAIN LoadedVV.committed_history PROVE LoadedVV.committed_history[i].value # t
      BY <1>7, ValuesAssumption
    <3> QED  BY <3>1, <3>2, <3>3 DEF Has
  <2>2. CASE k \notin L
    BY <1>2, <2>2 DEF HeldBy, Has
  <2> QED  BY <2>1, <2>2
<1>9. LeadInv
  BY <1>3, <1>4 DEF LeadInv, Leads
<1>10. ThreadInv /\ SeenInv
  BY <1>3, <1>4 DEF ThreadInv, SeenInv
<1>11. UndoInv
  BY <1>4 DEF UndoInv, Writing
<1>12. OutcomeInv
  BY <1>3, <1>4, ValuesAssumption DEF OutcomeInv
<1>13. RecordInv
  <2>1. Range(pending) = {} /\ Range(batch) = {} /\ OneEach(pending) /\ OneEach(batch)
    BY <1>3 DEF Range, OneEach
  <2> QED  BY <1>4, <1>5, <1>6, <2>1, NoneAssumption DEF RecordInv, Committing
<1>14. OwnInv /\ AppliedInv
  BY <1>3, <1>4, <1>8 DEF OwnInv, AppliedInv
<1>15. ValuesInv
  BY <1>4, <1>8 DEF ValuesInv, Committing
<1> QED  BY <1>1, <1>9, <1>10, <1>11, <1>12, <1>13, <1>14, <1>15 DEF OwnershipInv

LEMMA OwnershipNext ==
    ASSUME OwnershipInv, [Next]_vars, MaxVacuums = 0, ~ Rewrites
    PROVE  OwnershipInv'
<1>1. DataInv' /\ LeadInv'
  BY DataNext, LeadNext DEF OwnershipInv
<1> DEFINE Rest == ThreadInv /\ UndoInv /\ OutcomeInv /\ RecordInv /\ OwnInv /\ SeenInv /\ AppliedInv /\ ValuesInv
<1> SUFFICES Rest'
  BY <1>1 DEF OwnershipInv
<1>2. CASE UNCHANGED vars
  <2>1. Rest
    BY DEF OwnershipInv
  <2>2. UNCHANGED <<active, stripe, pc, call, status, undo, outcome, vacuum>>
    BY <1>2 DEF vars, lockVars, dataVars
  <2>3. UNCHANGED <<map, seen, todo, record, pending, batch, durable, applying>>
    BY <1>2 DEF vars, lockVars, dataVars
  <2>4. (Applies' <=> Applies) /\ \A t \in Tx : Logged(t)' <=> Logged(t)
    BY <2>2, <2>3 DEF Applies, Logged
  <2>5. \A t \in Tx : Prepares(t)' <=> Prepares(t)
    BY <2>2, <2>3 DEF Prepares
  <2>6. ThreadInv' /\ UndoInv'
    BY <2>1, <2>2 DEF ThreadInv, Open, UndoInv
  <2>7. OutcomeInv' /\ SeenInv'
    BY <2>1, <2>2, <2>3, <2>4 DEF OutcomeInv, SeenInv
  <2>8. RecordInv'
    BY <2>1, <2>2, <2>3, <2>4, <2>5 DEF RecordInv, OneEach
  <2>9. OwnInv'
    BY <2>1, <2>2, <2>3, <2>4 DEF OwnInv, Open, PosTx, PosChange
  <2>10. AppliedInv'
    BY <2>1, <2>2, <2>3, <2>4 DEF AppliedInv, PosTx, PosChange
  <2>11. ValuesInv'
    BY <2>1, <2>2, <2>3, <2>4 DEF ValuesInv
  <2> QED  BY <2>6, <2>7, <2>8, <2>9, <2>10, <2>11
<1>3. ASSUME NEW t \in Tx, \/ begin_read_version(t) \/ begin_enter(t) \/ write_conflict(t) \/ wait_step(t)
                           \/ commit_empty(t) \/ append_fails(t) \/ commit_returns(t) \/ commit_failed(t)
                           \/ rollback_call(t) \/ rollback_returns(t) \/ leave_step(t)
      PROVE  Rest'
  <2>1. PICK p \in Pcs : Move(t, p)
    BY <1>3, Moves DEF OwnershipInv, DataInv
  <2> QED  BY <2>1, MoveKeeps
<1>4. ASSUME NEW t \in Tx, NEW k \in Keys, NEW v \in {t} \cup (IF Removes THEN {NoValue} ELSE {}),
             write_call(t, k, v)
      PROVE  Rest'
  <2>1. v \in {t, NoValue} /\ pc[t] = "idle" /\ lock_and_read(t, k, v) /\ k \notin Range(undo[t])
    BY <1>4 DEF write_call, MayWrite
  <2> QED  BY <2>1, ReadKeepsOwners
<1>5. ASSUME NEW t \in Tx, write_retry(t) PROVE Rest'
  <2>1. pc[t] = "retry" /\ lock_and_read(t, call[t].key, call[t].value)
    BY <1>5 DEF write_retry
  <2>2. call[t].key \in Keys /\ call[t].value \in {t, NoValue} /\ call[t].key \notin Range(undo[t])
    BY <2>1 DEF OwnershipInv, UndoInv, Writing, DataInv, DataType, Calls
  <2> QED  BY <2>1, <2>2, ReadKeepsOwners
<1>6. ASSUME NEW t \in Tx, write_install(t) \/ commit_start(t) \/ prepare_entry(t) \/ enqueue(t) PROVE Rest'
  BY <1>6, InstallKeepsOwners, StartKeepsOwners, PrepareKeepsOwners, EnqueueKeepsOwners
<1>7. ASSUME NEW t \in Tx, \/ lead(t) \/ sync_succeeds(t) \/ sync_fails(t) \/ publish(t)
                           \/ apply_change(t) \/ undo_entry(t)
      PROVE  Rest'
  BY <1>7, LeadKeepsOwners, SyncKeepsOwners, CompleteKeepsOwners, ApplyKeepsOwners, UndoKeepsOwners
<1>8. ~ vacuum_step
  <2>1. vacuum.at = "idle" /\ vacuum.runs = 0
    BY DEF OwnershipInv, ThreadInv, Idle
  <2> QED  BY <2>1 DEF vacuum_step, vacuum_horizon, vacuum_scan, vacuum_entry, vacuum_returns
<1> HIDE DEF Rest
<1> QED  BY <1>2, <1>3, <1>4, <1>5, <1>6, <1>7, <1>8 DEF Next, commit_step, rollback_step

\* Without a vacuum, when no key is written twice, the ownership invariant holds.
THEOREM OwnershipInvariant ==
    ASSUME MaxVacuums = 0, ~ Rewrites
    PROVE  Spec => []OwnershipInv
<1>1. Init => OwnershipInv
  BY OwnershipInit
<1>2. OwnershipInv /\ [Next]_vars => OwnershipInv'
  BY OwnershipNext
<1> QED  BY <1>1, <1>2, PTL DEF Spec

\* No dirty write: until its commit record is durable, the uncommitted record of
\* an open transaction stays in the entry and nobody overwrites it, although put
\* asks for the holder before it writes and leaders hold no stripe; and nothing
\* of a rolled-back transaction is left in any entry.
THEOREM NoDirtyWrites ==
    ASSUME MaxVacuums = 0, ~ Rewrites
    PROVE  Spec => []WritesStayOwned
<1>1. OwnershipInv => WritesStayOwned
  <2> SUFFICES ASSUME OwnershipInv, NEW t \in Tx
               PROVE  /\ \A k \in Range(undo[t]) :
                            (t \in active /\ \A i \in DOMAIN durable : durable[i].tx_id # t) =>
                                map[k] # NoValue /\ active_tx_id(map[k]) = t
                      /\ status[t] = "RolledBack" => \A k \in Keys : map[k] # NoValue =>
                            /\ active_tx_id(map[k]) # t
                            /\ \A i \in DOMAIN map[k].committed_history :
                                  map[k].committed_history[i].value # t
    BY DEF WritesStayOwned
  <2>1. (\A i \in DOMAIN durable : durable[i].tx_id # t) => ~ Logged(t)
    BY DEF Logged, Range
  <2>2. ASSUME NEW k \in Range(undo[t]), t \in active, \A i \in DOMAIN durable : durable[i].tx_id # t
        PROVE  map[k] # NoValue /\ active_tx_id(map[k]) = t
    BY <2>1, <2>2 DEF OwnershipInv, ThreadInv, OwnInv, HeldBy, active_tx_id
  <2>3. ASSUME status[t] = "RolledBack", NEW k \in Keys, map[k] # NoValue
        PROVE  /\ active_tx_id(map[k]) # t
               /\ \A i \in DOMAIN map[k].committed_history : map[k].committed_history[i].value # t
    <3>1. pc[t] = "end" /\ outcome[t] # "ok"
      BY <2>3 DEF OwnershipInv, OutcomeInv
    <3>2. ~ HeldBy(map[k], t)
      BY <3>1 DEF OwnershipInv, OwnInv, Open
    <3>3. ~ Logged(t)
      <4>1. ASSUME NEW r \in Range(batch) PROVE r.tx_id # t
        BY <3>1 DEF OwnershipInv, RecordInv, Committing
      <4> QED  BY <3>1, <4>1, LoggedStage
    <3>4. ~ Has(map[k], t)
      BY <3>3 DEF OwnershipInv, ValuesInv
    <3>5. active_tx_id(map[k]) # t
      BY <2>3, <3>2, ValuesAssumption DEF HeldBy, active_tx_id
    <3> QED  BY <2>3, <3>4, <3>5 DEF Has
  <2> QED  BY <2>2, <2>3
<1> QED  BY <1>1, OwnershipInvariant, PTL

\* A commit that returns Ok has logged every key it wrote.
THEOREM CommitsLogTheirWrites ==
    ASSUME MaxVacuums = 0, ~ Rewrites
    PROVE  Spec => []CommittedWritesAreLogged
<1>1. OwnershipInv => CommittedWritesAreLogged
  <2> SUFFICES ASSUME OwnershipInv, NEW t \in Tx, status[t] = "Committed", NEW k \in Range(undo[t])
               PROVE  \E i \in DOMAIN durable :
                          /\ durable[i].tx_id = t
                          /\ \E c \in Range(durable[i].changes) : c.key = k /\ c.value # NoValue
    BY DEF CommittedWritesAreLogged
  <2>1. undo[t] # <<>>
    BY DEF Range
  <2>2. Logged(t)
    BY <2>1 DEF OwnershipInv, OutcomeInv
  <2>3. PICK i \in DOMAIN durable : durable[i].tx_id = t
    BY <2>2 DEF Logged, Range
  <2>4. durable[i] \in Range(durable)
    BY DEF Range
  <2>5. durable[i] = record[t] /\ Prepares(t) /\ todo[t] = <<>>
    BY <2>2, <2>3, <2>4 DEF OwnershipInv, RecordInv
  <2>6. PICK j \in DOMAIN undo[t] : undo[t][j] = k
    BY DEF Range
  <2>7. j \in DOMAIN record[t].changes
    <3>1. record[t].changes \in Seq(Changes) /\ undo[t] \in Seq(Keys)
      BY DEF OwnershipInv, DataInv, DataType, WalRecords
    <3>2. Len(record[t].changes) = Len(undo[t])
      BY <2>5, <3>1 DEF Prepares
    <3> QED  BY <3>1, <3>2
  <2>8. record[t].changes[j].key = k /\ record[t].changes[j].value # NoValue
    BY <2>5, <2>6, <2>7 DEF Prepares
  <2>9. record[t].changes[j] \in Range(record[t].changes)
    BY <2>7 DEF Range
  <2> QED  BY <2>3, <2>5, <2>8, <2>9
<1> QED  BY <1>1, OwnershipInvariant, PTL

\* When a version is published every change of its batch is in the maps.
THEOREM BatchesArePublishedWhole ==
    ASSUME MaxVacuums = 0, ~ Rewrites
    PROVE  Spec => PublishedWhole
<1> DEFINE Whole == \A i \in DOMAIN batch : \A c \in Range(batch[i].changes) :
                        c.value # NoValue =>
                            /\ map[c.key] # NoValue
                            /\ c.value.committed_history[1] \in Range(map[c.key].committed_history)
<1>1. ASSUME NEW t \in Tx, OwnershipInv, publish(t) PROVE Whole
  <2> SUFFICES ASSUME NEW i \in DOMAIN batch, NEW c \in Range(batch[i].changes)
               PROVE  /\ map[c.key] # NoValue
                      /\ c.value.committed_history[1] \in Range(map[c.key].committed_history)
    OBVIOUS
  <2>1. PICK j \in DOMAIN batch[i].changes : c = batch[i].changes[j]
    BY DEF Range
  <2>2. <<i, j>> \in Positions(batch) /\ PosChange(<<i, j>>) = c
    BY <2>1 DEF Positions, PosChange
  <2>3. Applies /\ applying = {}
    BY <1>1 DEF publish, Applies
  <2> QED  BY <1>1, <2>2, <2>3 DEF OwnershipInv, AppliedInv
<1>2. OwnershipInv /\ [Next]_vars => (version' # version => Whole)
  <2> SUFFICES ASSUME OwnershipInv, Next, version' # version PROVE \E t \in Tx : publish(t)
    BY <1>1 DEF vars, dataVars
  <2>1. ASSUME NEW t \in Tx, \/ begin_read_version(t) \/ begin_enter(t) \/ write_conflict(t) \/ wait_step(t)
                             \/ write_install(t) \/ rollback_call(t) \/ rollback_returns(t) \/ undo_entry(t)
        PROVE  version' = version
    BY <2>1 DEF begin_read_version, begin_enter, write_conflict, wait_step, write_install, rollback_call,
                rollback_returns, undo_entry
  <2>2. ASSUME NEW t \in Tx, \/ commit_empty(t) \/ commit_start(t) \/ prepare_entry(t) \/ enqueue(t)
                             \/ append_fails(t) \/ lead(t) \/ sync_succeeds(t) \/ sync_fails(t)
                             \/ apply_change(t) \/ commit_returns(t) \/ commit_failed(t)
        PROVE  version' = version
    BY <2>2 DEF commit_empty, commit_start, prepare_entry, enqueue, append_fails, lead, sync_succeeds,
                sync_fails, apply_change, commit_returns, commit_failed
  <2>3. ASSUME NEW t \in Tx, write_retry(t) \/ leave_step(t) \/ \E k \in Keys : \E v : write_call(t, k, v)
        PROVE  version' = version
    BY <2>3 DEF write_retry, write_call, lock_and_read, leave_step, dataVars
  <2>4. vacuum_step => version' = version
    BY DEF vacuum_step, vacuum_horizon, vacuum_scan, vacuum_entry, vacuum_returns
  <2> QED  BY <2>1, <2>2, <2>3, <2>4 DEF Next, commit_step, rollback_step
<1>3. Spec => [][version' # version => Whole]_vars
  BY <1>2, OwnershipInvariant, PTL DEF Spec
<1> QED  BY <1>3 DEF PublishedWhole


----------------------------------------------------------------------------
(* What a snapshot reads.                                                  *)
(*                                                                         *)
(* Records become durable and are published in the order of their versions *)
(* (LogInv, PublishedInv), so that what is durable but not yet in the maps *)
(* is newer than every snapshot. When no two open transactions write one   *)
(* key a put installs over the entry it finds (AloneInv), so the history   *)
(* of an entry changes only when a leader applies a change, which puts one *)
(* version in front of it (ChangesInv). KeptInv follows every durable      *)
(* change from there: it is in the history until MaxGenerations newer ones *)
(* have pushed it out.                                                     *)

History(vv) == IF vv = NoValue THEN <<>> ELSE vv.committed_history
Ascending(s) == \A i, j \in DOMAIN s : i < j => s[i].commit_version < s[j].commit_version

LogInv ==
    /\ Ascending(durable) /\ Ascending(pending) /\ Ascending(batch)
    /\ \A s \in Range(pending) : \A r \in Range(durable) \cup Range(batch) : r.commit_version < s.commit_version
    /\ ~ Applies => \A r \in Range(durable), s \in Range(batch) : r.commit_version < s.commit_version

PublishedInv ==
    /\ version \in Nat /\ version >= 1 /\ version <= next_commit_version
    /\ snapshot \in [Tx -> Nat]
    /\ \A t \in Tx : snapshot[t] <= version /\ (pc[t] # "begin" => snapshot[t] >= 1)
    /\ \A r \in Range(pending) \cup Range(batch) : r.commit_version > version
    /\ \A t \in Tx : pc[t] = "prepare" => record[t].commit_version > version
    /\ \A r \in Range(durable) : r.commit_version <= version \/ (Applies /\ r \in Range(batch))
    /\ \A t \in Tx : pc[t] = "lead" => \E r \in Range(pending) : r.tx_id = t
    /\ \A t \in Tx : pc[t] \in {"sync", "apply"} => batch # <<>>

\* A sequence of ascending records stays so when a newer one comes to its end.
LEMMA AscendingGrows ==
    ASSUME NEW s \in Seq(WalRecords), NEW u \in Seq(WalRecords), NEW x \in WalRecords, Ascending(s)
    PROVE  /\ (\A r \in Range(s) : r.commit_version < x.commit_version) => Ascending(Append(s, x))
           /\ Ascending(u) /\ (\A r \in Range(s), q \in Range(u) : r.commit_version < q.commit_version) =>
                 Ascending(s \o u)
<1>1. ASSUME \A r \in Range(s) : r.commit_version < x.commit_version PROVE Ascending(Append(s, x))
  <2> DEFINE a == Append(s, x)
  <2>1. DOMAIN a = 1 .. Len(s) + 1 /\ DOMAIN s = 1 .. Len(s) /\ Len(s) \in Nat
    OBVIOUS
  <2>2. (\A i \in 1 .. Len(s) : a[i] = s[i]) /\ a[Len(s) + 1] = x
    OBVIOUS
  <2> HIDE DEF a
  <2>3. \A i \in 1 .. Len(s) : s[i].commit_version < x.commit_version
    BY <1>1, <2>1 DEF Range
  <2>4. ASSUME NEW i \in DOMAIN a, NEW j \in DOMAIN a, i < j PROVE a[i].commit_version < a[j].commit_version
    <3>1. i \in 1 .. Len(s)
      BY <2>1, <2>4
    <3>2. CASE j = Len(s) + 1
      BY <2>2, <2>3, <3>1, <3>2
    <3>3. CASE j # Len(s) + 1
      <4>1. j \in 1 .. Len(s)
        BY <2>1, <3>3
      <4> QED  BY <2>1, <2>2, <2>4, <3>1, <4>1 DEF Ascending
    <3> QED  BY <3>2, <3>3
  <2> QED  BY <2>4 DEF Ascending, a
<1>2. ASSUME Ascending(u), \A r \in Range(s), q \in Range(u) : r.commit_version < q.commit_version
      PROVE  Ascending(s \o u)
  <2> DEFINE a == s \o u
  <2>1. /\ DOMAIN a = 1 .. Len(s) + Len(u)
        /\ DOMAIN s = 1 .. Len(s) /\ DOMAIN u = 1 .. Len(u) /\ Len(s) \in Nat /\ Len(u) \in Nat
    OBVIOUS
  <2>2. /\ \A i \in 1 .. Len(s) : a[i] = s[i]
        /\ \A i \in 1 .. Len(s) + Len(u) : i > Len(s) => a[i] = u[i - Len(s)]
    BY ConcatProperties
  <2> HIDE DEF a
  <2>3. \A i \in 1 .. Len(s), j \in 1 .. Len(u) : s[i].commit_version < u[j].commit_version
    BY <1>2, <2>1 DEF Range
  <2>4. ASSUME NEW i \in DOMAIN a, NEW j \in DOMAIN a, i < j PROVE a[i].commit_version < a[j].commit_version
    <3>1. CASE j <= Len(s)
      BY <2>1, <2>2, <2>4, <3>1 DEF Ascending
    <3>2. CASE i > Len(s)
      <4>1. i - Len(s) \in DOMAIN u /\ j - Len(s) \in DOMAIN u /\ i - Len(s) < j - Len(s)
        BY <2>1, <2>4, <3>2
      <4>2. a[i] = u[i - Len(s)] /\ a[j] = u[j - Len(s)]
        BY <2>1, <2>2, <2>4, <3>2
      <4> QED  BY <1>2, <4>1, <4>2 DEF Ascending
    <3>3. CASE i <= Len(s) /\ j > Len(s)
      <4>1. i \in 1 .. Len(s) /\ j - Len(s) \in 1 .. Len(u) /\ a[i] = s[i] /\ a[j] = u[j - Len(s)]
        BY <2>1, <2>2, <3>3
      <4> QED  BY <2>3, <4>1
    <3> QED  BY <2>1, <3>1, <3>2, <3>3
  <2> QED  BY <2>4 DEF Ascending, a
<1> QED  BY <1>1, <1>2

\* A step that neither begins nor queues, takes, completes or publishes records.
Outside ==
    /\ UNCHANGED <<durable, pending, batch, version, next_commit_version, snapshot, record>>
    /\ \A u \in Tx : \/ pc'[u] = pc[u]
                     \/ /\ pc'[u] \notin {"begin", "prepare", "lead", "sync", "apply"}
                        /\ pc[u] \notin {"begin", "sync", "apply"}

LEMMA OutsideKeeps ==
    ASSUME LogInv, PublishedInv, Outside
    PROVE  LogInv' /\ PublishedInv'
<1>1. Applies' <=> Applies
  BY DEF Outside, Applies
<1>2. LogInv'
  BY <1>1 DEF LogInv, Outside, Ascending
<1>3. PublishedInv'
  BY <1>1 DEF PublishedInv, Outside
<1> QED  BY <1>2, <1>3

LEMMA OutsideSteps ==
    ASSUME DataType, MaxVacuums = 0, ThreadInv,
           \/ UNCHANGED vars \/ vacuum_step
           \/ \E t \in Tx :
                 \/ begin_enter(t) \/ (\E k \in Keys : \E v : write_call(t, k, v)) \/ write_retry(t)
                 \/ write_conflict(t) \/ write_install(t) \/ wait_step(t) \/ commit_empty(t) \/ append_fails(t)
                 \/ apply_change(t) \/ commit_returns(t) \/ commit_failed(t) \/ rollback_call(t)
                 \/ undo_entry(t) \/ rollback_returns(t) \/ leave_step(t)
    PROVE  Outside
<1>1. CASE UNCHANGED vars
  BY <1>1 DEF vars, dataVars, Outside
<1>2. ~ vacuum_step
  <2>1. vacuum.at = "idle" /\ vacuum.runs = 0
    BY DEF ThreadInv, Idle
  <2> QED  BY <2>1 DEF vacuum_step, vacuum_horizon, vacuum_scan, vacuum_entry, vacuum_returns
<1>3. ASSUME NEW t \in Tx, begin_enter(t) \/ write_conflict(t) \/ write_install(t) \/ wait_step(t) PROVE Outside
  BY <1>3 DEF begin_enter, write_conflict, write_install, wait_step, Outside, Goto, DataType
<1>4. ASSUME NEW t \in Tx, write_retry(t) \/ \E k \in Keys : \E v : write_call(t, k, v) PROVE Outside
  BY <1>4 DEF write_retry, write_call, lock_and_read, Outside, Goto, DataType
<1>5. ASSUME NEW t \in Tx, \/ commit_empty(t) \/ append_fails(t) \/ apply_change(t) \/ commit_returns(t)
                           \/ commit_failed(t)
      PROVE  Outside
  BY <1>5 DEF commit_empty, append_fails, apply_change, commit_returns, commit_failed, Outside, Goto, DataType
<1>6. ASSUME NEW t \in Tx, rollback_call(t) \/ undo_entry(t) \/ rollback_returns(t) \/ leave_step(t) PROVE Outside
  BY <1>6 DEF rollback_call, undo_entry, rollback_returns, leave_step, dataVars, Outside, Goto, DataType
<1> QED  BY <1>1, <1>2, <1>3, <1>4, <1>5, <1>6

\* begin reads the version.
LEMMA BeginKeepsLog ==
    ASSUME DataType, LogInv, PublishedInv, NEW t \in Tx, begin_read_version(t)
    PROVE  LogInv' /\ PublishedInv'
<1>1. /\ UNCHANGED <<durable, pending, batch, version, next_commit_version, record>>
      /\ snapshot' = [snapshot EXCEPT ![t] = version] /\ pc[t] = "begin" /\ pc' = [pc EXCEPT ![t] = "enter"]
  BY DEF begin_read_version, Goto
<1>2. pc'[t] = "enter" /\ \A u \in Tx \ {t} : pc'[u] = pc[u]
  BY <1>1 DEF DataType
<1>3. Applies' <=> Applies
  BY <1>1, <1>2 DEF Applies
<1>4. LogInv'
  BY <1>1, <1>3 DEF LogInv, Ascending
<1>5. snapshot' \in [Tx -> Nat] /\ \A u \in Tx : snapshot'[u] <= version /\ (pc'[u] # "begin" => snapshot'[u] >= 1)
  BY <1>1, <1>2 DEF PublishedInv
<1>6. PublishedInv'
  BY <1>1, <1>2, <1>3, <1>5 DEF PublishedInv
<1> QED  BY <1>4, <1>6

\* A version is handed out, and a record is prepared under it.
LEMMA PrepareKeepsLog ==
    ASSUME OwnershipInv, LogInv, PublishedInv, NEW t \in Tx, commit_start(t) \/ prepare_entry(t)
    PROVE  LogInv' /\ PublishedInv'
<1>1. /\ UNCHANGED <<durable, pending, batch, version, snapshot>>
      /\ pc[t] \in {"idle", "prepare"} /\ pc' = [pc EXCEPT ![t] = "prepare"]
  <2>1. pc[t] = "prepare" => pc = [pc EXCEPT ![t] = "prepare"]
    BY DEF OwnershipInv, DataInv, DataType
  <2> QED  BY <2>1 DEF commit_start, prepare_entry, Goto
<1>2. pc'[t] = "prepare" /\ \A u \in Tx \ {t} : pc'[u] = pc[u]
  BY <1>1 DEF OwnershipInv, DataInv, DataType
<1>3. Applies' <=> Applies
  BY <1>1, <1>2 DEF Applies
<1>4. LogInv'
  BY <1>1, <1>3 DEF LogInv, Ascending
<1>5. next_commit_version' >= next_commit_version /\ next_commit_version \in Nat /\ next_commit_version' \in Nat
  <2>1. next_commit_version \in Nat
    BY DEF OwnershipInv, DataInv, DataType
  <2>2. next_commit_version' = next_commit_version + 1 \/ next_commit_version' = next_commit_version
    BY DEF commit_start, prepare_entry
  <2> QED  BY <2>1, <2>2
<1>6. record'[t].commit_version > version
  <2>1. CASE commit_start(t)
    <3>1. record'[t].commit_version = next_commit_version + 1
      BY <2>1 DEF commit_start, OwnershipInv, DataInv, DataType
    <3> QED  BY <1>5, <3>1 DEF PublishedInv
  <2>2. CASE prepare_entry(t)
    <3>1. PICK ch : record' = [record EXCEPT ![t] = [record[t] EXCEPT !.changes = ch]]
      BY <2>2 DEF prepare_entry
    <3>2. record[t] \in WalRecords /\ record'[t] = [record[t] EXCEPT !.changes = ch]
      BY <3>1 DEF OwnershipInv, DataInv, DataType
    <3>3. record'[t].commit_version = record[t].commit_version
      BY <3>2 DEF WalRecords
    <3>4. pc[t] = "prepare"
      BY <2>2 DEF prepare_entry
    <3> QED  BY <3>3, <3>4 DEF PublishedInv
  <2> QED  BY <2>1, <2>2
<1>7. \A u \in Tx \ {t} : record'[u] = record[u]
  BY DEF commit_start, prepare_entry, OwnershipInv, DataInv, DataType
<1>8. PublishedInv'
  BY <1>1, <1>2, <1>3, <1>5, <1>6, <1>7 DEF PublishedInv
<1> QED  BY <1>4, <1>8

\* A record joins the queue with the newest version.
LEMMA EnqueueKeepsLog ==
    ASSUME OwnershipInv, LogInv, PublishedInv, NEW t \in Tx, enqueue(t)
    PROVE  LogInv' /\ PublishedInv'
<1>1. /\ UNCHANGED <<durable, batch, version, snapshot, next_commit_version, record>>
      /\ pc[t] = "prepare" /\ pending' = Append(pending, record[t])
      /\ \E p \in {"queued", "lead"} : pc' = [pc EXCEPT ![t] = p]
  BY DEF enqueue, Goto
<1>2. pc'[t] \in {"queued", "lead"} /\ \A u \in Tx \ {t} : pc'[u] = pc[u]
  BY <1>1 DEF OwnershipInv, DataInv, DataType
<1>3. Applies' <=> Applies
  BY <1>1, <1>2 DEF Applies
<1>4. /\ record[t] \in WalRecords /\ pending \in Seq(WalRecords) /\ Prepares(t) /\ record[t].tx_id = t
      /\ record[t].commit_version = next_commit_version
      /\ \A r \in Range(durable) \cup Range(pending) \cup Range(batch) : r.commit_version < next_commit_version
  BY <1>1 DEF OwnershipInv, DataInv, DataType, VersionInv, RecordInv, Prepares
<1>5. Range(pending') = Range(pending) \cup {record[t]}
  BY <1>1, <1>4, RangeGrows
<1>6. Ascending(pending')
  BY <1>1, <1>4, AscendingGrows DEF LogInv
<1>7. LogInv'
  BY <1>1, <1>3, <1>4, <1>5, <1>6 DEF LogInv, Ascending
<1>8. PublishedInv'
  BY <1>1, <1>2, <1>3, <1>4, <1>5 DEF PublishedInv
<1> QED  BY <1>7, <1>8

\* The leader takes the queue.
LEMMA LeadKeepsLog ==
    ASSUME OwnershipInv, LogInv, PublishedInv, NEW t \in Tx, lead(t)
    PROVE  LogInv' /\ PublishedInv'
<1>1. /\ UNCHANGED <<durable, version, snapshot, next_commit_version, record>>
      /\ pc[t] = "lead" /\ batch' = pending /\ pending' = <<>> /\ queue = None
      /\ pc' = [pc EXCEPT ![t] = "sync"]
  BY DEF lead, Goto
<1>2. pc'[t] = "sync" /\ \A u \in Tx \ {t} : pc'[u] = pc[u]
  BY <1>1 DEF OwnershipInv, DataInv, DataType
<1>3. ~ Applies /\ ~ Applies'
  BY <1>1, <1>2, NoneAssumption DEF Applies, OwnershipInv, DataInv, MutexInv, InQueue
<1>4. Range(pending') = {} /\ (Range(pending) # {} => pending # <<>>)
  BY <1>1 DEF Range
<1>5. \A u \in Tx \ {t} : pc[u] \notin {"lead", "sync", "apply"}
  BY <1>1 DEF OwnershipInv, LeadInv, Leads
<1>6. LogInv'
  BY <1>1, <1>3, <1>4 DEF LogInv, Ascending
<1>7. PublishedInv'
  BY <1>1, <1>2, <1>3, <1>4, <1>5 DEF PublishedInv
<1> QED  BY <1>6, <1>7

\* The batch becomes durable.
LEMMA SyncKeepsLog ==
    ASSUME OwnershipInv, LogInv, PublishedInv, NEW t \in Tx, sync_succeeds(t)
    PROVE  LogInv' /\ PublishedInv'
<1>1. /\ UNCHANGED <<pending, batch, version, snapshot, next_commit_version, record>>
      /\ pc[t] = "sync" /\ durable' = durable \o batch
      /\ pc' = [pc EXCEPT ![t] = "apply"]
  BY DEF sync_succeeds, Goto
<1>2. pc'[t] = "apply" /\ \A u \in Tx \ {t} : pc'[u] = pc[u]
  BY <1>1 DEF OwnershipInv, DataInv, DataType
<1>3. ~ Applies /\ Applies'
  BY <1>1, <1>2 DEF Applies, OwnershipInv, DataInv, MutexInv, InQueue
<1>4. durable \in Seq(WalRecords) /\ batch \in Seq(WalRecords) /\ Range(durable') = Range(durable) \cup Range(batch)
  BY <1>1, RangeGrows DEF OwnershipInv, DataInv, DataType
<1>5. Ascending(durable')
  <2>1. Ascending(durable) /\ Ascending(batch) /\ \A r \in Range(durable), s \in Range(batch) : r.commit_version < s.commit_version
    BY <1>3 DEF LogInv
  <2>2. record[t] \in WalRecords
    BY DEF OwnershipInv, DataInv, DataType
  <2> QED  BY <1>1, <1>4, <2>1, <2>2, AscendingGrows
<1>6. LogInv'
  BY <1>1, <1>3, <1>4, <1>5 DEF LogInv, Ascending
<1>7. PublishedInv'
  BY <1>1, <1>2, <1>3, <1>4 DEF PublishedInv
<1> QED  BY <1>6, <1>7

\* The leader completes its batch, and publishes its last version if it was synced.
LEMMA CompleteKeepsLog ==
    ASSUME OwnershipInv, LogInv, PublishedInv, NEW t \in Tx, sync_fails(t) \/ publish(t)
    PROVE  LogInv' /\ PublishedInv'
<1>1. /\ UNCHANGED <<durable, pending, snapshot, next_commit_version, record>>
      /\ pc[t] \in {"sync", "apply"} /\ batch' = <<>>
      /\ pc' = [pc EXCEPT ![t] = "queued"]
      /\ pc[t] = "sync" => version' = version
      /\ pc[t] = "apply" => version' = Last(batch).commit_version
  BY DEF sync_fails, publish, Complete, Goto
<1>2. pc'[t] = "queued" /\ \A u \in Tx \ {t} : pc'[u] = pc[u]
  BY <1>1 DEF OwnershipInv, DataInv, DataType
<1>3. /\ \A u \in Tx \ {t} : pc[u] \notin {"lead", "sync", "apply", "prepare"}
      /\ ~ Applies' /\ (Applies <=> pc[t] = "apply")
  BY <1>1, <1>2 DEF Applies, OwnershipInv, DataInv, MutexInv, InQueue, LeadInv, Leads
<1>4. Range(batch') = {} /\ Ascending(batch')
  BY <1>1 DEF Range, Ascending
<1>5. LogInv'
  BY <1>1, <1>3, <1>4 DEF LogInv, Ascending
<1>6. /\ batch \in Seq(WalRecords) /\ batch # <<>> /\ Last(batch) \in Range(batch)
      /\ Last(batch).commit_version \in Nat
      /\ \A r \in Range(batch) : r.commit_version <= Last(batch).commit_version
  <2>1. batch \in Seq(WalRecords) /\ batch # <<>>
    BY <1>1 DEF OwnershipInv, DataInv, DataType, PublishedInv
  <2>2. Len(batch) \in DOMAIN batch /\ DOMAIN batch = 1 .. Len(batch) /\ Len(batch) \in Nat /\ Last(batch) = batch[Len(batch)]
    BY <2>1 DEF Last
  <2>3. Last(batch) \in Range(batch)
    BY <2>2 DEF Range
  <2>4. \A r \in Range(batch) : r.commit_version \in Nat
    BY <2>1, KnownRecords
  <2>5. ASSUME NEW i \in DOMAIN batch PROVE batch[i].commit_version <= Last(batch).commit_version
    <3>1. i = Len(batch) \/ i < Len(batch)
      BY <2>2
    <3>2. batch[i].commit_version \in Nat
      BY <2>4 DEF Range
    <3> QED  BY <2>2, <2>3, <2>4, <3>1, <3>2 DEF LogInv, Ascending
  <2> QED  BY <2>1, <2>3, <2>4, <2>5 DEF Range
<1>7. version' \in Nat /\ version' >= version
  BY <1>1, <1>6 DEF PublishedInv
<1>8. version' <= next_commit_version
  BY <1>1, <1>6 DEF PublishedInv, OwnershipInv, DataInv, VersionInv
<1>9. \A r \in Range(pending) : r.commit_version > version'
  BY <1>1, <1>6 DEF PublishedInv, LogInv
<1>10. ASSUME NEW r \in Range(durable) PROVE r.commit_version <= version'
  <2>1. r.commit_version \in Nat
    BY KnownRecords DEF OwnershipInv, DataInv, DataType
  <2>2. r.commit_version <= version \/ (Applies /\ r \in Range(batch))
    BY DEF PublishedInv
  <2> QED  BY <1>1, <1>3, <1>6, <1>7, <2>1, <2>2 DEF PublishedInv
<1>11. \A u \in Tx : snapshot'[u] <= version' /\ (pc'[u] # "begin" => snapshot'[u] >= 1)
  BY <1>1, <1>2, <1>7 DEF PublishedInv
<1>12. next_commit_version \in Nat
  BY DEF OwnershipInv, DataInv, DataType
<1>13. \A u \in Tx : pc'[u] \notin {"prepare", "lead", "sync", "apply"}
  BY <1>2, <1>3
<1>14. snapshot' \in [Tx -> Nat] /\ version' >= 1
  BY <1>1, <1>7 DEF PublishedInv
<1>15. PublishedInv'
  BY <1>1, <1>4, <1>7, <1>8, <1>9, <1>10, <1>11, <1>13, <1>14 DEF PublishedInv
<1> QED  BY <1>5, <1>15

LEMMA LogNext ==
    ASSUME OwnershipInv, LogInv, PublishedInv, [Next]_vars, MaxVacuums = 0
    PROVE  LogInv' /\ PublishedInv'
<1>1. DataType /\ ThreadInv
  BY DEF OwnershipInv, DataInv
<1>2. \/ Outside
      \/ \E t \in Tx : \/ begin_read_version(t) \/ commit_start(t) \/ prepare_entry(t) \/ enqueue(t) \/ lead(t)
                       \/ sync_succeeds(t) \/ sync_fails(t) \/ publish(t)
  BY <1>1, OutsideSteps DEF Next, commit_step, rollback_step
<1> QED  BY <1>1, <1>2, OutsideKeeps, BeginKeepsLog, PrepareKeepsLog, EnqueueKeepsLog, LeadKeepsLog, SyncKeepsLog,
            CompleteKeepsLog

----------------------------------------------------------------------------
(* Entries and their histories.                                            *)

\* No put waits, and the entry it has read is still there, with no holder.
AloneInv ==
    \A t \in Tx :
        /\ pc[t] \notin {"wait", "retry"}
        /\ pc[t] = "locked" => seen[t] = map[call[t].key] /\ Settled(seen[t])

\* The value of a change begins with the version of its record.
HeadOf(r, c) ==
    /\ c.value # NoValue /\ c.value.committed_history # <<>>
    /\ c.value.committed_history[1].commit_version = r.commit_version

ChangesInv ==
    /\ \A t \in Tx : \A c \in Range(record[t].changes) : HeadOf(record[t], c)
    /\ \A r \in Range(durable) :
          /\ r.tx_id = None => r.commit_version = 1
          /\ \A c \in Range(r.changes) : HeadOf(r, c)
          /\ \A c, d \in Range(r.changes) : c.key = d.key => c = d
    /\ \A t \in Tx, k \in Keys : HeldBy(map[k], t) /\ pc[t] \in {"prepare"} \cup Committing =>
          /\ \A c \in Range(record[t].changes) : c.key = k =>
                c.value = commit_uncommitted(map[k], record[t].commit_version)
          /\ \A i \in DOMAIN History(map[k]) : History(map[k])[i].commit_version < record[t].commit_version

\* h is full of versions newer than v.
Forgotten(h, v) == Len(h) >= MaxGenerations /\ \A i \in DOMAIN h : h[i].commit_version > v

\* Version v of k came with a durable record; the leader has yet to apply change c of r.
Came(k, v) == \E r \in Range(durable) : \E c \in Range(r.changes) : c.key = k /\ c.value.committed_history[1] = v
OnItsWay(r, c) == \E p \in applying : batch[p[1]] = r /\ PosChange(p) = c

KeptInv ==
    /\ \A k \in Keys : \A v \in Range(History(map[k])) : Came(k, v)
    /\ \A r \in Range(durable) : \A c \in Range(r.changes) :
          \/ c.value.committed_history[1] \in Range(History(map[c.key]))
          \/ OnItsWay(r, c)
          \/ Forgotten(History(map[c.key]), r.commit_version)

\* put and rollback leave the history of an entry alone.
LEMMA HistoryKept ==
    ASSUME NEW vv \in MaybeEntries, NEW t \in Tx, NEW v \in Tx \cup {NoValue}
    PROVE  /\ History(set_uncommitted(IF vv = NoValue THEN EmptyVV ELSE vv, t, v)) = History(vv)
           /\ History(RolledBack(t, vv)) = History(vv)
<1>1. EmptyVV \in Entries /\ EmptyVV.committed_history = <<>>
  BY DEF EmptyVV, Entries
<1>2. ASSUME NEW base \in Entries
      PROVE  /\ set_uncommitted(base, t, v) # NoValue
             /\ set_uncommitted(base, t, v).committed_history = base.committed_history
  <2>1. /\ set_uncommitted(base, t, v) \in Entries
        /\ set_uncommitted(base, t, v).committed_history = base.committed_history
    BY DEF set_uncommitted, Entries, Uncommitted
  <2> QED  BY <2>1, ValuesAssumption
<1>3. ASSUME vv \in Entries
      PROVE  rollback_uncommitted(vv) # NoValue /\ rollback_uncommitted(vv).committed_history = vv.committed_history
  <2>1. rollback_uncommitted(vv) \in Entries /\ rollback_uncommitted(vv).committed_history = vv.committed_history
    BY <1>3 DEF rollback_uncommitted, Entries
  <2> QED  BY <2>1, ValuesAssumption
<1>4. CASE vv = NoValue
  <2>1. History(set_uncommitted(EmptyVV, t, v)) = <<>>
    BY <1>1, <1>2 DEF History
  <2>2. RolledBack(t, vv) = vv
    BY <1>4 DEF RolledBack
  <2> QED  BY <1>4, <2>1, <2>2 DEF History
<1>5. CASE vv # NoValue
  <2>1. vv \in Entries
    BY <1>5 DEF MaybeEntries
  <2>2. History(set_uncommitted(vv, t, v)) = History(vv)
    BY <1>2, <1>5, <2>1 DEF History
  <2>3. History(RolledBack(t, vv)) = History(vv)
    BY <1>3, <1>5, <2>1 DEF History, RolledBack
  <2> QED  BY <1>5, <2>2, <2>3
<1> QED  BY <1>4, <1>5

\* A commit puts its version in front of the history, and the oldest one falls out of a full one.
LEMMA CommitOnTop ==
    ASSUME NEW vv \in Entries, NEW t \in Tx, HeldBy(vv, t), NEW n \in Nat
    PROVE  LET h == vv.committed_history
               g == commit_uncommitted(vv, n).committed_history
           IN  /\ g \in Seq(Versions) /\ g # <<>> /\ g[1].commit_version = n
               /\ \A i \in DOMAIN g : i > 1 => i - 1 \in DOMAIN h /\ g[i] = h[i - 1]
               /\ \A i \in DOMAIN h : \/ i + 1 \in DOMAIN g /\ g[i + 1] = h[i]
                                      \/ i >= MaxGenerations /\ Len(g) = MaxGenerations
               /\ Len(h) >= MaxGenerations => Len(g) = MaxGenerations
<1> DEFINE h == vv.committed_history
           top == [value |-> vv.uncommitted.value, commit_version |-> n]
           f == <<top>> \o h
           g == commit_uncommitted(vv, n).committed_history
           m == IF Len(f) < MaxGenerations THEN Len(f) ELSE MaxGenerations
<1>1. h \in Seq(Versions) /\ vv.uncommitted # NoValue
  BY DEF Entries, HeldBy
<1>2. top \in Versions /\ top.commit_version = n
  BY <1>1 DEF Entries, Uncommitted, Versions
<1>3. g = Truncate(f, MaxGenerations)
  BY <1>1 DEF commit_uncommitted
<1> HIDE DEF top, g
<1>4. /\ f \in Seq(Versions) /\ DOMAIN f = 1 .. Len(h) + 1 /\ DOMAIN h = 1 .. Len(h) /\ Len(h) \in Nat
      /\ Len(f) = Len(h) + 1
      /\ f[1] = top /\ \A i \in 1 .. Len(h) + 1 : i > 1 => f[i] = h[i - 1]
  BY <1>1, <1>2
<1>5. MaxGenerations \in Nat /\ MaxGenerations > 0
  BY GenerationsAssumption
<1> HIDE DEF f, h
<1>6. m \in Nat /\ m >= 1 /\ m <= Len(f) /\ m <= MaxGenerations /\ (m = Len(f) \/ m = MaxGenerations)
      /\ (Len(h) >= MaxGenerations => m = MaxGenerations)
  BY <1>4, <1>5
<1>7. g = SubSeq(f, 1, m)
  BY <1>3 DEF Truncate
<1> HIDE DEF m
<1>8. g \in Seq(Versions) /\ Len(g) = m /\ DOMAIN g = 1 .. m /\ \A i \in 1 .. m : g[i] = f[i]
  BY <1>4, <1>6, <1>7
<1>9. g # <<>> /\ g[1] = top
  BY <1>4, <1>6, <1>8
<1>10. ASSUME NEW i \in DOMAIN g, i > 1 PROVE i - 1 \in DOMAIN h /\ g[i] = h[i - 1]
  BY <1>4, <1>6, <1>8, <1>10
<1>11. ASSUME NEW i \in DOMAIN h
       PROVE  \/ i + 1 \in DOMAIN g /\ g[i + 1] = h[i]
              \/ i >= MaxGenerations /\ Len(g) = MaxGenerations
  <2>1. CASE i + 1 <= m
    <3>1. i + 1 \in 1 .. m /\ i + 1 \in 1 .. Len(h) + 1 /\ i + 1 > 1 /\ (i + 1) - 1 = i
      BY <1>4, <1>6, <2>1
    <3> QED  BY <1>4, <1>8, <3>1
  <2>2. CASE i + 1 > m
    BY <1>4, <1>5, <1>6, <1>8, <2>2
  <2> QED  BY <1>4, <1>6, <2>1, <2>2
<1> QED  BY <1>2, <1>6, <1>8, <1>9, <1>10, <1>11 DEF g, h

LEMMA AloneNext ==
    ASSUME OwnershipInv, AloneInv, [Next]_vars, MaxVacuums = 0, ~ Rewrites, ~ Contended
    PROVE  AloneInv'
<1> USE DEF AloneInv
<1>1. /\ map \in [Keys -> MaybeEntries] /\ pc \in [Tx -> Pcs] /\ seen \in [Tx -> MaybeEntries]
      /\ DOMAIN call = Tx
      /\ \A t \in Tx : pc[t] = "locked" => call[t].key \in Keys /\ stripe[call[t].key] = t
  BY DEF OwnershipInv, DataInv, DataType, ThreadInv, Calls
\* No call of another transaction notices.
<1> DEFINE Unnoticed(t) == \A u \in Tx \ {t} : pc'[u] = pc[u] /\ call'[u] = call[u] /\ seen'[u] = seen[u]
<1>2. CASE UNCHANGED vars
  BY <1>2 DEF vars, dataVars
<1>3. ~ vacuum_step
  <2>1. vacuum.at = "idle" /\ vacuum.runs = 0
    BY DEF OwnershipInv, ThreadInv, Idle
  <2> QED  BY <2>1 DEF vacuum_step, vacuum_horizon, vacuum_scan, vacuum_entry, vacuum_returns
<1>4. ASSUME NEW t \in Tx, UNCHANGED <<map, call, seen>>,
             \E p : p \notin {"wait", "retry", "locked"} /\ pc' = [pc EXCEPT ![t] = p]
      PROVE  AloneInv'
  BY <1>1, <1>4
<1>5. ASSUME NEW t \in Tx, write_retry(t) \/ wait_step(t) PROVE FALSE
  BY <1>5 DEF write_retry, wait_step
<1>6. ASSUME NEW t \in Tx, write_conflict(t) PROVE FALSE
  <2>1. pc[t] = "locked" /\ OtherTx(t) # NoValue
    BY <1>6 DEF write_conflict
  <2> QED  BY <2>1 DEF OtherTx, active_tx_id, Settled
<1>7. ASSUME NEW t \in Tx, NEW k \in Keys, NEW v, write_call(t, k, v) PROVE AloneInv'
  <2>1. /\ UNCHANGED map /\ seen' = [seen EXCEPT ![t] = map[k]]
        /\ \/ pc' = [pc EXCEPT ![t] = "idle"] /\ call' = [call EXCEPT ![t] = NoValue]
           \/ pc' = [pc EXCEPT ![t] = "locked"] /\ call' = [call EXCEPT ![t] = [key |-> k, value |-> v]]
    BY <1>7 DEF write_call, lock_and_read, Goto
  <2>2. Settled(map[k])
    <3> SUFFICES ASSUME map[k] # NoValue, map[k].uncommitted # NoValue PROVE FALSE
      BY DEF Settled
    <3>1. map[k] \in Entries
      BY <1>1 DEF MaybeEntries
    <3>2. map[k].uncommitted.tx_id \in Tx
      BY <3>1 DEF Entries, Uncommitted
    <3>3. PICK u \in Tx : u = map[k].uncommitted.tx_id
      BY <3>2
    <3>4. HeldBy(map[k], u)
      BY <3>3 DEF HeldBy
    <3>5. k \in Range(undo[u]) /\ u \in active
      BY <3>4 DEF OwnershipInv, OwnInv, ThreadInv
    <3> QED  BY <1>7, <3>5 DEF write_call, MayWrite
  <2>3. Unnoticed(t)
    BY <1>1, <2>1
  <2>4. pc'[t] = "idle" \/ (pc'[t] = "locked" /\ call'[t].key = k /\ seen'[t] = map[k])
    BY <1>1, <2>1
  <2> QED  BY <1>1, <2>1, <2>2, <2>3, <2>4
<1>8. ASSUME NEW t \in Tx, write_install(t) PROVE AloneInv'
  <2>1. PICK k \in Keys : k = call[t].key /\ stripe[k] = t
    BY <1>1, <1>8 DEF write_install
  <2>2. /\ pc' = [pc EXCEPT ![t] = "idle"] /\ seen' = [seen EXCEPT ![t] = NoValue]
        /\ call' = [call EXCEPT ![t] = NoValue]
    BY <1>8 DEF write_install, Goto
  <2>3. \A j \in Keys \ {k} : map'[j] = map[j]
    BY <1>1, <1>8, <2>1 DEF write_install
  <2>4. Unnoticed(t) /\ pc'[t] = "idle"
    BY <1>1, <2>2
  <2> QED  BY <1>1, <2>1, <2>3, <2>4
<1>9. ASSUME NEW t \in Tx, undo_entry(t) PROVE AloneInv'
  <2>1. UNCHANGED <<pc, call, seen>> /\ stripe[Last(undo[t])] = None
    BY <1>9 DEF undo_entry
  <2>2. \A j \in Keys \ {Last(undo[t])} : map'[j] = map[j]
    BY <1>1, <1>9 DEF undo_entry
  <2>3. \A u \in Tx : pc[u] = "locked" => call[u].key # Last(undo[t])
    BY <1>1, <2>1, NoneAssumption
  <2> QED  BY <1>1, <2>1, <2>2, <2>3
<1>10. ASSUME NEW t \in Tx, apply_change(t) PROVE AloneInv'
  <2>1. PICK p \in applying : map' = [map EXCEPT ![PosChange(p).key] = PosChange(p).value]
    BY <1>10 DEF apply_change, PosChange
  <2>2. UNCHANGED <<pc, call, seen>>
    BY <1>10 DEF apply_change
  <2>3. \A j \in Keys \ {PosChange(p).key} : map'[j] = map[j]
    BY <1>1, <2>1
  <2>4. HeldBy(map[PosChange(p).key], PosTx(p))
    BY DEF OwnershipInv, AppliedInv
  <2>5. \A u \in Tx : pc[u] = "locked" => call[u].key # PosChange(p).key
    BY <2>4 DEF HeldBy, Settled
  <2> QED  BY <1>1, <2>2, <2>3, <2>5
<1>11. ASSUME NEW t \in Tx, \/ begin_read_version(t) \/ begin_enter(t) \/ commit_empty(t) \/ commit_start(t)
                            \/ enqueue(t) \/ append_fails(t) \/ lead(t) \/ sync_succeeds(t)
       PROVE  AloneInv'
  BY <1>4, <1>11 DEF begin_read_version, begin_enter, commit_empty, commit_start, enqueue, append_fails, lead,
                     sync_succeeds, Goto
<1>12. ASSUME NEW t \in Tx, \/ sync_fails(t) \/ publish(t) \/ commit_returns(t) \/ commit_failed(t)
                            \/ rollback_call(t) \/ rollback_returns(t)
       PROVE  AloneInv'
  BY <1>4, <1>12 DEF sync_fails, publish, Complete, commit_returns, commit_failed, rollback_call,
     rollback_returns, Goto
<1>13. ASSUME NEW t \in Tx, prepare_entry(t) \/ leave_step(t) PROVE AloneInv'
  <2>1. UNCHANGED <<map, call, seen, pc>>
    BY <1>13 DEF prepare_entry, leave_step, dataVars
  <2> QED  BY <2>1
<1> HIDE DEF AloneInv
<1> QED  BY <1>2, <1>3, <1>5, <1>6, <1>7, <1>8, <1>9, <1>10, <1>11, <1>12, <1>13
            DEF Next, commit_step, rollback_step

----------------------------------------------------------------------------
(* Records, changes and histories.                                         *)

\* A step that prepares and logs nothing and leaves the histories alone.
Still ==
    /\ UNCHANGED <<record, durable, applying>>
    /\ applying # {} => UNCHANGED batch
    /\ \A k \in Keys : History(map'[k]) = History(map[k])
    /\ \A k \in Keys, t \in Tx : HeldBy(map'[k], t) /\ pc'[t] \in {"prepare"} \cup Committing =>
          map'[k] = map[k] /\ pc[t] \in {"prepare"} \cup Committing

LEMMA StillKeeps ==
    ASSUME OwnershipInv, ChangesInv, KeptInv, Still
    PROVE  ChangesInv' /\ KeptInv'
<1>1. ChangesInv'
  <2>1. ASSUME NEW t \in Tx, NEW k \in Keys, HeldBy(map'[k], t), pc'[t] \in {"prepare"} \cup Committing
        PROVE  /\ \A c \in Range(record[t].changes) : c.key = k =>
                     c.value = commit_uncommitted(map'[k], record[t].commit_version)
               /\ \A i \in DOMAIN History(map'[k]) : History(map'[k])[i].commit_version < record[t].commit_version
    <3>1. map'[k] = map[k] /\ pc[t] \in {"prepare"} \cup Committing
      BY <2>1 DEF Still
    <3> QED  BY <2>1, <3>1 DEF ChangesInv
  <2>2. record' = record /\ durable' = durable
    BY DEF Still
  <2> QED  BY <2>1, <2>2 DEF ChangesInv
<1>2. \A r, c : OnItsWay(r, c)' <=> OnItsWay(r, c)
  BY DEF Still, OnItsWay, PosChange
<1>3. \A k, v : Came(k, v)' <=> Came(k, v)
  BY DEF Still, Came
<1>4. \A r \in Range(durable) : \A c \in Range(r.changes) : c.key \in Keys
  <2> SUFFICES ASSUME NEW r \in Range(durable), NEW c \in Range(r.changes) PROVE c.key \in Keys
    OBVIOUS
  <2>1. r.changes \in Seq(Changes)
    BY KnownRecords DEF OwnershipInv, DataInv, DataType
  <2>2. c \in Changes
    BY <2>1 DEF Range
  <2> QED  BY <2>2 DEF Changes
<1>5. KeptInv'
  BY <1>2, <1>3, <1>4 DEF Still, KeptInv
<1> QED  BY <1>1, <1>5

LEMMA StillSteps ==
    ASSUME OwnershipInv, AloneInv, MaxVacuums = 0,
           \/ UNCHANGED vars \/ vacuum_step
           \/ \E t \in Tx :
                 \/ begin_read_version(t) \/ begin_enter(t) \/ (\E k \in Keys : \E v : write_call(t, k, v))
                 \/ write_retry(t) \/ write_conflict(t) \/ write_install(t) \/ wait_step(t)
                 \/ commit_empty(t) \/ enqueue(t) \/ append_fails(t) \/ lead(t) \/ sync_fails(t) \/ publish(t)
                 \/ commit_returns(t) \/ commit_failed(t) \/ rollback_call(t) \/ undo_entry(t)
                 \/ rollback_returns(t) \/ leave_step(t)
    PROVE  Still
<1> DEFINE Stage == {"prepare"} \cup Committing
<1>1. map \in [Keys -> MaybeEntries] /\ pc \in [Tx -> Pcs] /\ seen \in [Tx -> MaybeEntries]
  BY DEF OwnershipInv, DataInv, DataType
<1>2. ASSUME NEW t \in Tx, UNCHANGED <<record, durable, applying, map>>, applying # {} => UNCHANGED batch,
             NEW p, pc' = [pc EXCEPT ![t] = p], p \in Stage => pc[t] \in Stage
      PROVE  Still
  <2>1. \A u \in Tx : pc'[u] \in Stage => pc[u] \in Stage
    BY <1>1, <1>2
  <2> HIDE DEF Stage
  <2> QED  BY <1>2, <2>1 DEF Still, Stage
<1>3. CASE UNCHANGED vars
  <2>1. UNCHANGED <<record, durable, applying, map, batch, pc>>
    BY <1>3 DEF vars, dataVars
  <2> QED  BY <2>1 DEF Still
<1>4. ~ vacuum_step
  <2>1. vacuum.at = "idle" /\ vacuum.runs = 0
    BY DEF OwnershipInv, ThreadInv, Idle
  <2> QED  BY <2>1 DEF vacuum_step, vacuum_horizon, vacuum_scan, vacuum_entry, vacuum_returns
<1>5. ASSUME NEW t \in Tx, leave_step(t) PROVE Still
  <2>1. UNCHANGED <<record, durable, applying, map, batch, pc>>
    BY <1>5 DEF leave_step, dataVars
  <2> QED  BY <2>1 DEF Still
<1>6. ASSUME NEW t \in Tx, \/ begin_read_version(t) \/ begin_enter(t) \/ commit_empty(t) \/ append_fails(t)
                           \/ commit_returns(t) \/ commit_failed(t) \/ rollback_call(t) \/ rollback_returns(t)
      PROVE  Still
  <2>1. /\ UNCHANGED <<record, durable, applying, map, batch>>
        /\ \E p \in {"enter", "idle", "end", "undo"} : pc' = [pc EXCEPT ![t] = p]
    BY <1>6 DEF begin_read_version, begin_enter, commit_empty, append_fails, commit_returns, commit_failed,
                rollback_call, rollback_returns, Goto
  <2> QED  BY <1>2, <2>1 DEF Committing
<1>7. ASSUME NEW t \in Tx, write_retry(t) \/ write_conflict(t) \/ wait_step(t) PROVE FALSE
  <2>1. ~ write_retry(t) /\ ~ wait_step(t)
    BY DEF write_retry, wait_step, AloneInv
  <2>2. pc[t] = "locked" /\ OtherTx(t) # NoValue
    BY <1>7, <2>1 DEF write_conflict
  <2> QED  BY <2>2 DEF OtherTx, active_tx_id, Settled, AloneInv
<1>8. ASSUME NEW t \in Tx, \E k \in Keys : \E v : write_call(t, k, v) PROVE Still
  <2>1. /\ UNCHANGED <<record, durable, applying, map, batch>>
        /\ \E p \in {"idle", "locked"} : pc' = [pc EXCEPT ![t] = p]
    BY <1>8 DEF write_call, lock_and_read, Goto
  <2> QED  BY <1>2, <2>1 DEF Committing
<1>9. ASSUME NEW t \in Tx, enqueue(t) \/ lead(t) \/ sync_fails(t) \/ publish(t) PROVE Still
  <2>1. /\ UNCHANGED <<record, durable, applying, map>> /\ pc[t] \in Stage
        /\ \E p \in {"queued", "lead", "sync"} : pc' = [pc EXCEPT ![t] = p]
    BY <1>9 DEF enqueue, lead, sync_fails, publish, Complete, Goto, Committing
  <2>2. applying # {} => UNCHANGED batch
    <3>1. CASE enqueue(t)
      BY <3>1 DEF enqueue
    <3>2. CASE publish(t)
      BY <3>2 DEF publish
    <3>3. CASE lead(t) \/ sync_fails(t)
      <4>1. queue = None \/ (queue = t /\ pc[t] = "sync")
        BY <3>3 DEF lead, sync_fails, OwnershipInv, DataInv, MutexInv, InQueue
      <4>2. ~ Applies
        BY <4>1, NoneAssumption DEF Applies, OwnershipInv, DataInv, MutexInv, InQueue
      <4> QED  BY <4>2 DEF OwnershipInv, AppliedInv
    <3> QED  BY <1>9, <3>1, <3>2, <3>3
  <2> QED  BY <1>2, <2>1, <2>2
<1>10. ASSUME NEW t \in Tx, write_install(t) PROVE Still
  <2> DEFINE base == IF seen[t] = NoValue THEN EmptyVV ELSE seen[t]
  <2>1. /\ pc[t] = "locked" /\ UNCHANGED <<record, durable, applying, batch>> /\ pc' = [pc EXCEPT ![t] = "idle"]
        /\ \/ UNCHANGED map
           \/ map' = [map EXCEPT ![call[t].key] = set_uncommitted(base, t, call[t].value)]
    BY <1>10 DEF write_install, Goto
  <2>2. CASE UNCHANGED map
    BY <1>2, <2>1, <2>2 DEF Committing
  <2>3. CASE map' = [map EXCEPT ![call[t].key] = set_uncommitted(base, t, call[t].value)]
    <3>1. PICK k \in Keys : k = call[t].key
      BY <2>1 DEF OwnershipInv, DataInv, DataType, Calls
    <3>2. call[t].value \in {t, NoValue} /\ seen[t] = map[k]
      BY <2>1, <3>1 DEF OwnershipInv, UndoInv, Writing, AloneInv
    <3>3. PICK new : new = set_uncommitted(base, t, call[t].value)
      OBVIOUS
    <3>4. History(new) = History(map[k])
      BY <1>1, <3>2, <3>3, HistoryKept
    <3>5. \A u \in Tx : HeldBy(new, u) => u = t
      BY <1>1, <3>2, <3>3, InstalledEntry
    <3>6. map'[k] = new /\ \A j \in Keys \ {k} : map'[j] = map[j]
      BY <1>1, <2>3, <3>1, <3>3
    <3>7. pc'[t] = "idle" /\ \A u \in Tx \ {t} : pc'[u] = pc[u]
      BY <1>1, <2>1
    <3> QED  BY <2>1, <3>4, <3>5, <3>6, <3>7 DEF Still, Committing
  <2> QED  BY <2>1, <2>2, <2>3
<1>11. ASSUME NEW t \in Tx, undo_entry(t) PROVE Still
  <2>1. /\ UNCHANGED <<record, durable, applying, batch, pc>> /\ pc[t] = "undo" /\ undo[t] # <<>>
        /\ map' = [map EXCEPT ![Last(undo[t])] = RolledBack(t, map[Last(undo[t])])]
    BY <1>11 DEF undo_entry
  <2>2. undo[t] \in Seq(Keys)
    BY DEF OwnershipInv, DataInv, DataType
  <2>3. PICK k \in Keys : k = Last(undo[t]) /\ k \in Range(undo[t])
    <3>1. Len(undo[t]) \in DOMAIN undo[t]
      BY <2>1, <2>2
    <3> QED  BY <2>2, <3>1 DEF Last, Range
  <2>4. ~ Logged(t) /\ Open(t)
    BY <2>1, LoggedStage DEF Committing, Open
  <2>5. HeldBy(map[k], t) /\ map[k] \in Entries
    BY <1>1, <2>3, <2>4 DEF OwnershipInv, OwnInv, HeldBy, MaybeEntries
  <2>6. PICK new : new = RolledBack(t, map[k])
    OBVIOUS
  <2>7. (\A w \in Tx : ~ HeldBy(new, w)) /\ History(new) = History(map[k])
    BY <1>1, <2>5, <2>6, RolledBackEntry, HistoryKept
  <2>8. map'[k] = new /\ \A j \in Keys \ {k} : map'[j] = map[j]
    BY <1>1, <2>1, <2>3, <2>6
  <2> QED  BY <2>1, <2>7, <2>8 DEF Still
<1> QED  BY <1>3, <1>4, <1>5, <1>6, <1>7, <1>8, <1>9, <1>10, <1>11

\* A commit starts with a version newer than the histories.
LEMMA StartKeepsChanges ==
    ASSUME OwnershipInv, ChangesInv, NEW t \in Tx, commit_start(t)
    PROVE  ChangesInv'
<1>1. /\ UNCHANGED <<map, durable>> /\ pc[t] = "idle" /\ pc' = [pc EXCEPT ![t] = "prepare"]
      /\ record' = [record EXCEPT ![t] = [tx_id |-> t, changes |-> <<>>, commit_version |-> next_commit_version + 1]]
  BY DEF commit_start, Goto
<1>2. pc'[t] = "prepare" /\ \A u \in Tx \ {t} : pc'[u] = pc[u] /\ record'[u] = record[u]
  BY <1>1 DEF OwnershipInv, DataInv, DataType
<1>3. record'[t].changes = <<>> /\ record'[t].commit_version = next_commit_version + 1
  BY <1>1 DEF OwnershipInv, DataInv, DataType
<1>4. Range(record'[t].changes) = {}
  BY <1>3 DEF Range
<1>5. ASSUME NEW k \in Keys, NEW i \in DOMAIN History(map[k])
      PROVE  History(map[k])[i].commit_version < next_commit_version + 1
  <2>1. map[k] # NoValue /\ i \in DOMAIN map[k].committed_history
    BY DEF History
  <2>2. Backed(Range(durable), k, map[k].committed_history[i].commit_version)
    BY <2>1 DEF OwnershipInv, DataInv, HistoryInv, Sound
  <2>3. PICK r \in Range(durable) : r.commit_version = map[k].committed_history[i].commit_version
    BY <2>2 DEF Backed
  <2>4. r.commit_version \in Nat /\ r.commit_version <= next_commit_version /\ next_commit_version \in Nat
    BY KnownRecords DEF OwnershipInv, DataInv, DataType, VersionInv
  <2> QED  BY <2>1, <2>3, <2>4 DEF History
<1>6. \A u \in Tx : \A c \in Range(record'[u].changes) : HeadOf(record'[u], c)
  BY <1>2, <1>4 DEF ChangesInv
<1>7. ASSUME NEW u \in Tx, NEW k \in Keys, HeldBy(map[k], u), pc'[u] \in {"prepare"} \cup Committing
      PROVE  /\ \A c \in Range(record'[u].changes) : c.key = k =>
                   c.value = commit_uncommitted(map[k], record'[u].commit_version)
             /\ \A i \in DOMAIN History(map[k]) : History(map[k])[i].commit_version < record'[u].commit_version
  <2>1. CASE u = t
    BY <1>3, <1>4, <1>5, <2>1
  <2>2. CASE u # t
    BY <1>2, <1>7, <2>2 DEF ChangesInv
  <2> QED  BY <2>1, <2>2
<1> QED  BY <1>1, <1>6, <1>7 DEF ChangesInv

\* An undo entry is prepared: its change is the entry with the new version on top.
LEMMA PrepareKeepsChanges ==
    ASSUME OwnershipInv, ChangesInv, NEW t \in Tx, prepare_entry(t)
    PROVE  ChangesInv'
<1>1. /\ UNCHANGED <<map, durable, pc>> /\ pc[t] = "prepare" /\ todo[t] # <<>>
      /\ record' = [record EXCEPT ![t] = [record[t] EXCEPT !.changes =
                                             record[t].changes \o PreparedChanges(t, Head(todo[t]))]]
  BY DEF prepare_entry
<1>2. record \in [Tx -> WalRecords] /\ map \in [Keys -> MaybeEntries] /\ todo[t] \in Seq(Keys) /\ undo[t] \in Seq(Keys)
  BY DEF OwnershipInv, DataInv, DataType
<1>3. record[t] \in WalRecords /\ record[t].changes \in Seq(Changes) /\ record[t].commit_version \in Nat
  BY <1>2 DEF WalRecords
<1>4. PICK k : k = Head(todo[t])
  OBVIOUS
<1>5. k \in Keys /\ k \in Range(undo[t])
  <2>1. k = todo[t][1] /\ 1 \in DOMAIN todo[t] /\ Len(todo[t]) \in Nat /\ DOMAIN todo[t] = 1 .. Len(todo[t])
    BY <1>1, <1>2, <1>4
  <2>2. Prepares(t)
    BY <1>1 DEF OwnershipInv, RecordInv
  <2>3. k = undo[t][Len(record[t].changes) + 1] /\ Len(record[t].changes) + Len(todo[t]) = Len(undo[t])
    BY <2>1, <2>2 DEF Prepares
  <2>4. Len(record[t].changes) + 1 \in DOMAIN undo[t]
    <3>1. PICK n \in Nat, m \in Nat, l \in Nat : n = Len(record[t].changes) /\ m = Len(undo[t]) /\ l = Len(todo[t])
      BY <1>2, <1>3
    <3>2. DOMAIN undo[t] = 1 .. m
      BY <1>2, <3>1
    <3>3. l > 0
      BY <1>1, <1>2, <3>1
    <3>4. n + l = m
      BY <2>3, <3>1
    <3>5. n + 1 \in 1 .. m
      BY <3>3, <3>4
    <3> QED  BY <3>1, <3>2, <3>5
  <2> QED  BY <1>2, <2>3, <2>4 DEF Range
<1>6. HeldBy(map[k], t) /\ map[k] \in Entries
  <2>1. ~ Logged(t) /\ Open(t)
    BY <1>1, LoggedStage DEF Committing, Open
  <2> QED  BY <1>2, <1>5, <2>1 DEF OwnershipInv, OwnInv, HeldBy, MaybeEntries
<1>7. PICK c : c = [key |-> k, value |-> commit_uncommitted(map[k], record[t].commit_version)]
  OBVIOUS
<1>8. PreparedChanges(t, k) = <<c>>
  BY <1>6, <1>7 DEF PreparedChanges, HeldBy, active_tx_id
<1>9. c.key = k /\ c.value = commit_uncommitted(map[k], record[t].commit_version)
  BY <1>7
<1>10. map[k].uncommitted.value \in {t, NoValue}
  BY <1>5, <1>6 DEF OwnershipInv, OwnInv
<1>11. c \in Changes /\ HeadOf(record[t], c)
  <2>1. c.value \in Entries /\ c.value # NoValue
    BY <1>3, <1>6, <1>9, <1>10, CommittedEntry
  <2>2. c.value.committed_history # <<>> /\ c.value.committed_history[1].commit_version = record[t].commit_version
    BY <1>3, <1>6, <1>9, CommitOnTop
  <2>3. c \in Changes
    BY <1>5, <1>7, <1>9, <2>1 DEF Changes, MaybeEntries
  <2> QED  BY <2>1, <2>2, <2>3 DEF HeadOf
<1>12. /\ record'[t].commit_version = record[t].commit_version
       /\ record'[t].changes = record[t].changes \o <<c>>
       /\ \A u \in Tx \ {t} : record'[u] = record[u]
  <2>1. record'[t] = [record[t] EXCEPT !.changes = record[t].changes \o <<c>>]
    BY <1>1, <1>2, <1>4, <1>8
  <2> QED  BY <1>1, <1>2, <1>3, <2>1 DEF WalRecords
<1>13. Range(record'[t].changes) = Range(record[t].changes) \cup {c}
  <2>1. PICK new : new = <<c>>
    OBVIOUS
  <2>2. new \in Seq(Changes) /\ Range(new) = {c}
    BY <1>11, <2>1 DEF Range
  <2>3. Range(record[t].changes \o new) = Range(record[t].changes) \cup Range(new)
    BY <1>3, <1>11, <2>2, RangeGrows
  <2> QED  BY <1>12, <2>1, <2>2, <2>3
<1>14. \A u \in Tx : \A d \in Range(record'[u].changes) : HeadOf(record'[u], d)
  <2>1. \A d : HeadOf(record'[t], d) <=> HeadOf(record[t], d)
    BY <1>12 DEF HeadOf
  <2> QED  BY <1>11, <1>12, <1>13, <2>1 DEF ChangesInv
<1>15. ASSUME NEW u \in Tx, NEW j \in Keys, HeldBy(map[j], u), pc[u] \in {"prepare"} \cup Committing
       PROVE  /\ \A d \in Range(record'[u].changes) : d.key = j =>
                    d.value = commit_uncommitted(map[j], record'[u].commit_version)
              /\ \A i \in DOMAIN History(map[j]) : History(map[j])[i].commit_version < record'[u].commit_version
  <2>1. /\ \A d \in Range(record[u].changes) : d.key = j =>
              d.value = commit_uncommitted(map[j], record[u].commit_version)
        /\ \A i \in DOMAIN History(map[j]) : History(map[j])[i].commit_version < record[u].commit_version
    BY <1>15 DEF ChangesInv
  <2>2. CASE u = t
    BY <1>9, <1>12, <1>13, <2>1, <2>2
  <2>3. CASE u # t
    BY <1>12, <2>1, <2>3
  <2> QED  BY <2>2, <2>3
<1> QED  BY <1>1, <1>14, <1>15 DEF ChangesInv

\* The changes of a durable record are changes of keys.
LEMMA DurableChanges ==
    ASSUME OwnershipInv, NEW r \in Range(durable), NEW c \in Range(r.changes)
    PROVE  r \in WalRecords /\ r.commit_version \in Nat /\ c.key \in Keys /\ c.value \in MaybeEntries
<1>1. r \in WalRecords /\ r.changes \in Seq(Changes) /\ r.commit_version \in Nat
  BY KnownRecords DEF OwnershipInv, DataInv, DataType
<1>2. c \in Changes
  BY <1>1 DEF Range
<1> QED  BY <1>1, <1>2 DEF Changes

\* The batch is durable: each of its changes is on its way into the maps.
LEMMA SyncKeepsChanges ==
    ASSUME OwnershipInv, ChangesInv, KeptInv, NEW t \in Tx, sync_succeeds(t)
    PROVE  ChangesInv' /\ KeptInv'
<1>1. /\ UNCHANGED <<map, record, batch>> /\ pc[t] = "sync" /\ pc' = [pc EXCEPT ![t] = "apply"]
      /\ durable' = durable \o batch /\ applying' = Positions(batch)
  BY DEF sync_succeeds, Goto
<1>2. pc'[t] = "apply" /\ \A u \in Tx \ {t} : pc'[u] = pc[u]
  BY <1>1 DEF OwnershipInv, DataInv, DataType
<1>3. ~ Applies /\ applying = {}
  <2>1. ~ Applies
    BY <1>1 DEF OwnershipInv, DataInv, MutexInv, InQueue, Applies
  <2> QED  BY <2>1 DEF OwnershipInv, AppliedInv
<1>4. Range(durable') = Range(durable) \cup Range(batch)
  BY <1>1, RangeGrows DEF OwnershipInv, DataInv, DataType
<1>5. ASSUME NEW r \in Range(batch)
      PROVE  /\ r.tx_id # None /\ \A c \in Range(r.changes) : HeadOf(r, c)
             /\ \A c, d \in Range(r.changes) : c.key = d.key => c = d
  <2>1. PICK u \in Tx : u = r.tx_id /\ r = record[u] /\ pc[u] \in Committing
    BY DEF OwnershipInv, RecordInv
  <2>2. Prepares(u) /\ todo[u] = <<>> /\ \A i, j \in DOMAIN undo[u] : undo[u][i] = undo[u][j] => i = j
    BY <2>1 DEF OwnershipInv, RecordInv, UndoInv
  <2>3. DOMAIN r.changes = DOMAIN undo[u]
    <3>1. r.changes \in Seq(Changes) /\ undo[u] \in Seq(Keys)
      BY <2>1 DEF OwnershipInv, DataInv, DataType, WalRecords
    <3>2. Len(r.changes) = Len(undo[u])
      BY <2>1, <2>2, <3>1 DEF Prepares
    <3> QED  BY <3>1, <3>2
  <2>4. ASSUME NEW c \in Range(r.changes), NEW d \in Range(r.changes), c.key = d.key PROVE c = d
    <3>1. PICK i \in DOMAIN r.changes : c = r.changes[i]
      BY DEF Range
    <3>2. PICK j \in DOMAIN r.changes : d = r.changes[j]
      BY DEF Range
    <3>3. undo[u][i] = undo[u][j]
      BY <2>1, <2>2, <2>4, <3>1, <3>2 DEF Prepares
    <3> QED  BY <2>2, <2>3, <3>1, <3>2, <3>3
  <2> QED  BY <2>1, <2>4, NoneAssumption DEF ChangesInv
<1>6. ChangesInv'
  <2>1. \A r \in Range(durable') :
           /\ r.tx_id = None => r.commit_version = 1
           /\ \A c \in Range(r.changes) : HeadOf(r, c)
           /\ \A c, d \in Range(r.changes) : c.key = d.key => c = d
    BY <1>4, <1>5 DEF ChangesInv
  <2>2. \A u \in Tx : pc'[u] \in {"prepare"} \cup Committing => pc[u] \in {"prepare"} \cup Committing
    BY <1>1, <1>2 DEF Committing
  <2> QED  BY <1>1, <2>1, <2>2 DEF ChangesInv
<1>7. ASSUME NEW r \in Range(batch), NEW c \in Range(r.changes) PROVE OnItsWay(r, c)'
  <2>1. PICK i \in DOMAIN batch : r = batch[i]
    BY DEF Range
  <2>2. PICK j \in DOMAIN batch[i].changes : c = batch[i].changes[j]
    BY <2>1 DEF Range
  <2>3. <<i, j>> \in Positions(batch) /\ PosChange(<<i, j>>)' = c /\ batch'[<<i, j>>[1]] = r
    BY <1>1, <2>1, <2>2 DEF Positions, PosChange
  <2> QED  BY <1>1, <2>3 DEF OnItsWay
<1>8. \A k, v : Came(k, v) => Came(k, v)'
  BY <1>4 DEF Came
<1>9. \A r, c : ~ OnItsWay(r, c)
  BY <1>3 DEF OnItsWay
<1>10. KeptInv'
  BY <1>1, <1>4, <1>7, <1>8, <1>9 DEF KeptInv
<1> QED  BY <1>6, <1>10

\* A change goes into the map: one version comes to the front of the history of its key.
LEMMA ApplyKeepsChanges ==
    ASSUME OwnershipInv, ChangesInv, KeptInv, NEW t \in Tx, apply_change(t)
    PROVE  ChangesInv' /\ KeptInv'
<1>1. PICK p \in applying :
         map' = [map EXCEPT ![PosChange(p).key] = PosChange(p).value] /\ applying' = applying \ {p}
  BY DEF apply_change, PosChange
<1>2. UNCHANGED <<record, batch, durable, pc>> /\ pc[t] = "apply"
  BY DEF apply_change
<1>3. Range(batch) \subseteq Range(durable) /\ applying \subseteq Positions(batch)
  BY <1>2 DEF OwnershipInv, DataInv, ApplyInv
<1>4. PICK u \in Tx, c \in Changes, k \in Keys :
         /\ u = PosTx(p) /\ c = PosChange(p) /\ k = c.key
         /\ batch[p[1]] \in Range(batch) /\ batch[p[1]] = record[u]
         /\ c \in Range(record[u].changes) /\ pc[u] \in Committing
  BY <1>3, PositionsKnown
<1>5. record[u] \in WalRecords /\ record[u].commit_version \in Nat /\ record[u] \in Range(durable)
  BY <1>3, <1>4 DEF OwnershipInv, DataInv, DataType, WalRecords
<1>6. HeldBy(map[k], u) /\ map[k] \in Entries
  BY <1>4 DEF OwnershipInv, AppliedInv, HeldBy, DataInv, DataType, MaybeEntries
<1>7. /\ c.value = commit_uncommitted(map[k], record[u].commit_version)
      /\ \A i \in DOMAIN History(map[k]) : History(map[k])[i].commit_version < record[u].commit_version
      /\ HeadOf(record[u], c)
  BY <1>4, <1>6 DEF ChangesInv
<1>8. map'[k] = c.value /\ \A j \in Keys \ {k} : map'[j] = map[j]
  BY <1>1, <1>4 DEF OwnershipInv, DataInv, DataType
<1>9. PICK h, g : h = History(map[k]) /\ g = History(map'[k])
  OBVIOUS
<1>10. h = map[k].committed_history /\ g = c.value.committed_history /\ h \in Seq(Versions)
  BY <1>6, <1>7, <1>8, <1>9 DEF History, HeldBy, HeadOf, Entries
<1>11. Descending(h)
  BY <1>6, <1>10 DEF OwnershipInv, DataInv, HistoryInv, Sound, HeldBy
<1>12. /\ g \in Seq(Versions) /\ g # <<>> /\ g[1].commit_version = record[u].commit_version
       /\ \A i \in DOMAIN g : i > 1 => i - 1 \in DOMAIN h /\ g[i] = h[i - 1]
       /\ \A i \in DOMAIN h : \/ i + 1 \in DOMAIN g /\ g[i + 1] = h[i]
                              \/ i >= MaxGenerations /\ Len(g) = MaxGenerations
       /\ Len(h) >= MaxGenerations => Len(g) = MaxGenerations
  BY <1>5, <1>6, <1>7, <1>10, CommitOnTop
<1>13. /\ MaxGenerations \in Nat /\ MaxGenerations >= 1
       /\ DOMAIN g = 1 .. Len(g) /\ Len(g) \in Nat /\ DOMAIN h = 1 .. Len(h) /\ Len(h) \in Nat /\ 1 \in DOMAIN g
       /\ \A i \in DOMAIN h : h[i].commit_version \in Nat
       /\ \A i \in DOMAIN h : h[i].commit_version < record[u].commit_version
  <2>1. \A i \in DOMAIN h : h[i] \in Versions
    BY <1>10
  <2> QED  BY <1>7, <1>9, <1>10, <1>12, <2>1, GenerationsAssumption DEF Versions
<1>14. \A q : PosChange(q)' = PosChange(q) /\ PosTx(q)' = PosTx(q)
  BY <1>2 DEF PosChange, PosTx
<1>15. \A j, v : Came(j, v)' <=> Came(j, v)
  BY <1>2 DEF Came
<1>16. ChangesInv'
  <2>1. \A w \in Tx : ~ HeldBy(map'[k], w)
    <3>1. c.value.uncommitted = NoValue
      BY <1>6, <1>7 DEF commit_uncommitted, HeldBy
    <3> QED  BY <1>8, <3>1 DEF HeldBy
  <2> QED  BY <1>2, <1>8, <2>1 DEF ChangesInv
<1>17. ASSUME NEW j \in Keys, NEW v \in Range(History(map'[j])) PROVE Came(j, v)
  <2>1. CASE j # k
    BY <1>8, <2>1 DEF KeptInv
  <2>2. CASE j = k
    <3>1. PICK i \in DOMAIN g : v = g[i]
      BY <1>9, <2>2 DEF Range
    <3>2. CASE i = 1
      BY <1>4, <1>5, <1>10, <2>2, <3>1, <3>2 DEF Came
    <3>3. CASE i > 1
      <4>1. v \in Range(h)
        BY <1>12, <3>1, <3>3 DEF Range
      <4> QED  BY <1>9, <2>2, <4>1 DEF KeptInv
    <3> QED  BY <1>13, <3>2, <3>3
  <2> QED  BY <2>1, <2>2
<1>18. ASSUME NEW r \in Range(durable), NEW d \in Range(r.changes)
       PROVE  \/ d.value.committed_history[1] \in Range(History(map'[d.key]))
              \/ OnItsWay(r, d)'
              \/ Forgotten(History(map'[d.key]), r.commit_version)
  <2>1. d.key \in Keys /\ r.commit_version \in Nat
    BY DurableChanges
  <2>2. HeadOf(r, d)
    BY DEF ChangesInv
  <2>3. \/ d.value.committed_history[1] \in Range(History(map[d.key]))
        \/ OnItsWay(r, d)
        \/ Forgotten(History(map[d.key]), r.commit_version)
    BY DEF KeptInv
  <2>4. OnItsWay(r, d) => OnItsWay(r, d)' \/ d = c
    BY <1>1, <1>2, <1>4, <1>14 DEF OnItsWay
  <2>5. CASE d = c
    <3>1. g[1] \in Range(g) /\ d.value.committed_history[1] = g[1] /\ History(map'[d.key]) = g
      BY <1>4, <1>9, <1>10, <1>13, <2>5 DEF Range
    <3> QED  BY <3>1
  <2>6. CASE d.key # k
    BY <1>4, <1>8, <2>1, <2>3, <2>4, <2>6
  <2>7. CASE d.key = k /\ d.value.committed_history[1] \in Range(h)
    <3>1. PICK i \in DOMAIN h : d.value.committed_history[1] = h[i]
      BY <2>7 DEF Range
    <3>2. h[i].commit_version = r.commit_version
      BY <2>2, <3>1 DEF HeadOf
    <3>3. CASE i + 1 \in DOMAIN g /\ g[i + 1] = h[i]
      <4>1. h[i] \in Range(g)
        BY <3>3 DEF Range
      <4> QED  BY <1>9, <2>7, <3>1, <4>1
    <3>4. CASE i >= MaxGenerations /\ Len(g) = MaxGenerations
      <4>1. ASSUME NEW j \in DOMAIN g PROVE g[j].commit_version > r.commit_version
        <5>1. CASE j = 1
          BY <1>12, <1>13, <3>2, <5>1
        <5>2. CASE j > 1
          <6>1. j - 1 \in DOMAIN h /\ g[j] = h[j - 1] /\ j - 1 < i
            BY <1>12, <1>13, <3>4, <5>2
          <6> QED  BY <1>11, <3>2, <6>1 DEF Descending
        <5> QED  BY <1>13, <5>1, <5>2
      <4>2. Forgotten(g, r.commit_version)
        BY <1>13, <3>4, <4>1 DEF Forgotten
      <4> QED  BY <1>9, <2>7, <4>2
    <3> QED  BY <1>12, <3>3, <3>4
  <2>8. CASE d.key = k /\ Forgotten(h, r.commit_version)
    <3>1. Len(g) = MaxGenerations /\ 1 \in DOMAIN h
      BY <1>12, <1>13, <2>8 DEF Forgotten
    <3>2. ASSUME NEW j \in DOMAIN g PROVE g[j].commit_version > r.commit_version
      <4>1. CASE j = 1
        <5>1. h[1].commit_version > r.commit_version /\ h[1].commit_version < record[u].commit_version /\ h[1].commit_version \in Nat
          BY <1>13, <2>8, <3>1 DEF Forgotten
        <5> QED  BY <1>5, <1>12, <2>1, <4>1, <5>1
      <4>2. CASE j > 1
        BY <1>12, <2>8, <4>2 DEF Forgotten
      <4> QED  BY <1>13, <4>1, <4>2
    <3>3. Forgotten(g, r.commit_version)
      BY <1>13, <3>1, <3>2 DEF Forgotten
    <3> QED  BY <1>9, <2>8, <3>3
  <2> QED  BY <1>9, <2>3, <2>4, <2>5, <2>6, <2>7, <2>8
<1>19. KeptInv'
  BY <1>2, <1>15, <1>17, <1>18 DEF KeptInv
<1> QED  BY <1>16, <1>19

----------------------------------------------------------------------------

SnapshotInv == OwnershipInv /\ LogInv /\ PublishedInv /\ AloneInv /\ ChangesInv /\ KeptInv

LEMMA SnapshotInit ==
    ASSUME Init
    PROVE  SnapshotInv
<1>1. OwnershipInv
  BY OwnershipInit
<1>2. PICK L \in SUBSET Keys :
         /\ map = [k \in Keys |-> IF k \in L THEN LoadedVV ELSE NoValue]
         /\ durable = IF L = {} THEN <<>> ELSE <<LoadRecord(L)>>
  BY DEF Init
<1>3. /\ pc = [t \in Tx |-> "begin"] /\ snapshot = [t \in Tx |-> 0] /\ version = 1 /\ next_commit_version = 1
      /\ pending = <<>> /\ batch = <<>> /\ applying = {} /\ record = [t \in Tx |-> NoRecord]
  BY DEF Init
<1>4. /\ \A t \in Tx : pc[t] = "begin" /\ snapshot[t] = 0 /\ Range(record[t].changes) = {}
      /\ ~ Applies /\ Range(pending) = {} /\ Range(batch) = {}
  BY <1>3 DEF Applies, Range, NoRecord
<1>5. PICK one : one = [value |-> Loaded, commit_version |-> 1]
  OBVIOUS
<1>6. PICK loaded : loaded = <<one>>
  OBVIOUS
<1>7. loaded # <<>> /\ DOMAIN loaded = {1} /\ loaded[1] = one /\ one.commit_version = 1 /\ Range(loaded) = {one}
  BY <1>5, <1>6 DEF Range
<1>8. LoadedVV # NoValue /\ LoadedVV.uncommitted = NoValue /\ LoadedVV.committed_history = loaded
  <2>1. LoadedVV \in Entries
    <3>1. one \in Versions
      BY <1>5 DEF Versions
    <3> QED  BY <1>5, <3>1 DEF LoadedVV, Entries
  <2> QED  BY <1>5, <1>6, <2>1, ValuesAssumption DEF LoadedVV
<1>9. PICK load : load = LoadRecord(L)
  OBVIOUS
<1>10. /\ load.tx_id = None /\ load.commit_version = 1
       /\ \A k \in L : \E c \in Range(load.changes) : c.key = k
       /\ \A c \in Range(load.changes) : HeadOf(load, c) /\ c.value = LoadedVV /\ c.key \in L
       /\ \A c, d \in Range(load.changes) : c.key = d.key => c = d
  <2>1. load.commit_version = 1 /\ \A k \in L : \E c \in Range(load.changes) : c.key = k
    BY <1>9, LoadIsRecord
  <2>2. load.tx_id = None
    BY <1>9 DEF LoadRecord
  <2>3. ASSUME NEW c \in Range(load.changes)
        PROVE  c.key \in L /\ c = [key |-> c.key, value |-> LoadedVV] /\ c.value = LoadedVV
    <3>1. c.key \in L /\ c = [key |-> c.key, value |-> LoadedVV]
      BY <1>9, LoadIsRecord
    <3> QED  BY <3>1
  <2>4. ASSUME NEW c \in Range(load.changes) PROVE HeadOf(load, c)
    BY <1>7, <1>8, <2>1, <2>3 DEF HeadOf
  <2>5. ASSUME NEW c \in Range(load.changes), NEW d \in Range(load.changes), c.key = d.key PROVE c = d
    BY <2>3, <2>5
  <2> QED  BY <2>1, <2>2, <2>3, <2>4, <2>5
<1>11. /\ \A r \in Range(durable) : r = load
       /\ L # {} => load \in Range(durable)
       /\ Ascending(durable)
  <2>1. CASE L = {}
    BY <1>2, <2>1 DEF Range, Ascending
  <2>2. CASE L # {}
    <3>1. durable = <<load>>
      BY <1>2, <1>9, <2>2
    <3>2. DOMAIN durable = {1} /\ durable[1] = load
      BY <3>1
    <3> QED  BY <3>2 DEF Range, Ascending
  <2> QED  BY <2>1, <2>2
<1>12. LogInv
  <2>1. Ascending(pending) /\ Ascending(batch)
    BY <1>3 DEF Ascending
  <2> QED  BY <1>4, <1>11, <2>1 DEF LogInv
<1>13. PublishedInv
  BY <1>3, <1>4, <1>10, <1>11 DEF PublishedInv
<1>14. AloneInv
  BY <1>4 DEF AloneInv
<1>15. \A k \in Keys : map[k] = (IF k \in L THEN LoadedVV ELSE NoValue)
  BY <1>2
<1>16. ChangesInv
  BY <1>4, <1>10, <1>11 DEF ChangesInv, Committing
<1>17. KeptInv
  <2>1. ASSUME NEW k \in Keys, NEW v \in Range(History(map[k])) PROVE Came(k, v)
    <3>1. k \in L
      BY <1>15 DEF History, Range
    <3>2. v = one
      BY <1>7, <1>8, <1>15, <3>1 DEF History
    <3>3. PICK c \in Range(load.changes) : c.key = k
      BY <1>10, <3>1
    <3> QED  BY <1>7, <1>8, <1>10, <1>11, <3>1, <3>2, <3>3 DEF Came
  <2>2. ASSUME NEW r \in Range(durable), NEW c \in Range(r.changes)
        PROVE  c.value.committed_history[1] \in Range(History(map[c.key]))
    <3>1. r = load /\ c.value = LoadedVV /\ c.key \in L
      BY <1>10, <1>11
    <3> QED  BY <1>7, <1>8, <1>15, <3>1 DEF History
  <2> QED  BY <2>1, <2>2 DEF KeptInv
<1> QED  BY <1>1, <1>12, <1>13, <1>14, <1>16, <1>17 DEF SnapshotInv

LEMMA SnapshotNext ==
    ASSUME SnapshotInv, [Next]_vars, MaxVacuums = 0, ~ Rewrites, ~ Contended
    PROVE  SnapshotInv'
<1>1. OwnershipInv /\ LogInv /\ PublishedInv /\ AloneInv /\ ChangesInv /\ KeptInv
  BY DEF SnapshotInv
<1>2. OwnershipInv' /\ LogInv' /\ PublishedInv' /\ AloneInv'
  BY <1>1, OwnershipNext, LogNext, AloneNext
<1>3. ChangesInv' /\ KeptInv'
  <2>1. \/ Still
        \/ \E t \in Tx : commit_start(t) \/ prepare_entry(t) \/ sync_succeeds(t) \/ apply_change(t)
    BY <1>1, StillSteps DEF Next, commit_step, rollback_step
  <2>2. ASSUME NEW t \in Tx, commit_start(t) \/ prepare_entry(t) PROVE KeptInv'
    <3>1. UNCHANGED <<map, durable, applying, batch>>
      BY <2>2 DEF commit_start, prepare_entry
    <3>2. (\A k, v : Came(k, v)' <=> Came(k, v)) /\ \A r, c : OnItsWay(r, c)' <=> OnItsWay(r, c)
      BY <3>1 DEF Came, OnItsWay, PosChange
    <3> QED  BY <1>1, <3>1, <3>2 DEF KeptInv
  <2> QED  BY <1>1, <2>1, <2>2, StillKeeps, StartKeepsChanges, PrepareKeepsChanges, SyncKeepsChanges,
              ApplyKeepsChanges
<1> QED  BY <1>2, <1>3 DEF SnapshotInv

\* When no vacuum runs and no key is written twice or by two open transactions,
\* the invariant holds.
THEOREM SnapshotInvariant ==
    ASSUME MaxVacuums = 0, ~ Rewrites, ~ Contended
    PROVE  Spec => []SnapshotInv
<1>1. Init => SnapshotInv
  BY SnapshotInit
<1>2. SnapshotInv /\ [Next]_vars => SnapshotInv'
  BY SnapshotNext
<1> QED  BY <1>1, <1>2, PTL DEF Spec

----------------------------------------------------------------------------
(* What get and DurableValue return.                                       *)

\* The position FirstAt finds.
LEMMA FirstAtFound ==
    ASSUME NEW h \in Seq(Versions), NEW s \in Nat
    PROVE  \/ FirstAt(h, s) = 0 /\ \A i \in DOMAIN h : h[i].commit_version > s
           \/ /\ FirstAt(h, s) \in DOMAIN h /\ FirstAt(h, s) # 0 /\ h[FirstAt(h, s)].commit_version <= s
              /\ \A j \in DOMAIN h : h[j].commit_version <= s => FirstAt(h, s) <= j
<1> DEFINE Seen == {i \in DOMAIN h : h[i].commit_version <= s}
<1>1. /\ DOMAIN h = 1 .. Len(h) /\ Len(h) \in Nat
      /\ \A i \in DOMAIN h : h[i].commit_version \in Nat
  <2>1. \A i \in DOMAIN h : h[i] \in Versions
    OBVIOUS
  <2> QED  BY <2>1 DEF Versions
<1>2. CASE Seen = {}
  <2>1. FirstAt(h, s) = 0
    BY <1>2 DEF FirstAt
  <2>2. \A i \in DOMAIN h : ~ (h[i].commit_version <= s)
    BY <1>2
  <2> QED  BY <1>1, <2>1, <2>2
<1>3. CASE Seen # {}
  <2>1. Seen \in SUBSET Nat
    BY <1>1
  <2>2. \E i \in Seen : \A j \in Seen : i <= j
    BY <1>3, <2>1, LeastNumber
  <2>3. PICK i : i = CHOOSE p \in Seen : \A j \in Seen : p <= j
    OBVIOUS
  <2>4. i \in Seen /\ \A j \in Seen : i <= j
    BY <2>2, <2>3
  <2>5. FirstAt(h, s) = i
    BY <1>3, <2>3 DEF FirstAt
  <2>6. i # 0
    BY <1>1, <2>4
  <2> QED  BY <2>4, <2>5, <2>6
<1> QED  BY <1>2, <1>3

\* A transaction that does not hold k reads the newest version its snapshot may see.
LEMMA VisibleValue ==
    ASSUME NEW t \in Tx, NEW k \in Keys, map[k] \in MaybeEntries, ~ HeldBy(map[k], t), snapshot[t] \in Nat
    PROVE  Visible(t, k) = IF FirstAt(History(map[k]), snapshot[t]) = 0 THEN NoValue
                           ELSE History(map[k])[FirstAt(History(map[k]), snapshot[t])].value
<1> DEFINE s == snapshot[t]
<1>1. CASE map[k] = NoValue
  <2>1. FirstAt(<<>>, s) = 0
    BY DEF FirstAt
  <2> QED  BY <1>1, <2>1 DEF Visible, History
<1>2. CASE map[k] # NoValue
  <2>1. PICK vv \in Entries : vv = map[k]
    BY <1>2 DEF MaybeEntries
  <2>2. PICK h \in Seq(Versions) : h = vv.committed_history /\ h = History(map[k])
    BY <1>2, <2>1 DEF Entries, History
  <2>3. active_tx_id(vv) # t
    BY <1>2, <2>1, ValuesAssumption DEF HeldBy, active_tx_id
  <2>4. read_visible(vv, t, s) = IF FirstAt(h, s) = 0 THEN NoValue ELSE h[FirstAt(h, s)].value
    BY <2>2, <2>3 DEF read_visible, read_committed
  <2>5. ASSUME read_visible_raw(vv, s) # NoValue PROVE read_visible_raw(vv, s) = read_visible(vv, t, s)
    <3>1. Len(h) = 1 /\ h[1].commit_version <= s /\ read_visible_raw(vv, s) = h[1].value
      BY <2>2, <2>5 DEF read_visible_raw
    <3>2. DOMAIN h = {1}
      BY <3>1
    <3>3. FirstAt(h, s) = 1
      <4>1. h[1] \in Versions
        <5>1. 1 \in DOMAIN h
          BY <3>2
        <5> QED  BY <5>1
      <4>2. h[1].commit_version \in Nat /\ ~ (h[1].commit_version > s)
        BY <3>1, <4>1 DEF Versions
      <4> QED  BY <3>2, <4>2, FirstAtFound
    <3> QED  BY <2>4, <3>1, <3>3
  <2>6. Visible(t, k) = read_visible(vv, t, s)
    BY <1>2, <2>1, <2>5 DEF Visible
  <2> QED  BY <2>2, <2>4, <2>6
<1> QED  BY <1>1, <1>2

\* The newest durable record up to version s that changes k, if there is one.
LEMMA DurableValueFound ==
    ASSUME SnapshotInv, NEW k \in Keys, NEW s \in Nat
    PROVE  \/ /\ DurableValue(k, s) = NoValue
              /\ \A r \in Range(durable) : r.commit_version <= s => \A c \in Range(r.changes) : c.key # k
           \/ \E r \in Range(durable) : \E c \in Range(r.changes) :
                 /\ c.key = k /\ r.commit_version <= s /\ DurableValue(k, s) = c.value.committed_history[1].value
                 /\ \A q \in Range(durable) : q.commit_version <= s /\ (\E d \in Range(q.changes) : d.key = k) =>
                       q.commit_version <= r.commit_version
<1> DEFINE Writers == {i \in DOMAIN durable :
                          /\ durable[i].commit_version <= s
                          /\ k \in {c.key : c \in Range(durable[i].changes)}}
           last == CHOOSE i \in Writers : \A j \in Writers : j <= i
           change == CHOOSE c \in Range(durable[last].changes) : c.key = k
<1>1. /\ durable \in Seq(WalRecords) /\ DOMAIN durable = 1 .. Len(durable) /\ Len(durable) \in Nat
      /\ \A i \in DOMAIN durable : durable[i].commit_version \in Nat
  <2>1. durable \in Seq(WalRecords)
    BY DEF SnapshotInv, OwnershipInv, DataInv, DataType
  <2>2. \A r \in Range(durable) : r.commit_version \in Nat
    BY <2>1, KnownRecords
  <2> QED  BY <2>1, <2>2 DEF Range
<1>2. DurableValue(k, s) = IF Writers = {} \/ change.value = NoValue THEN NoValue
                           ELSE change.value.committed_history[1].value
  BY DEF DurableValue
<1>3. CASE Writers = {}
  <2>1. DurableValue(k, s) = NoValue
    BY <1>2, <1>3
  <2>2. ASSUME NEW r \in Range(durable), r.commit_version <= s, NEW c \in Range(r.changes) PROVE c.key # k
    <3>1. PICK i \in DOMAIN durable : r = durable[i]
      BY DEF Range
    <3> QED  BY <1>3, <2>2, <3>1
  <2> QED  BY <2>1, <2>2
<1>4. CASE Writers # {}
  <2>1. \E i \in Writers : \A j \in Writers : j <= i
    <3> DEFINE Ages == {Len(durable) - i : i \in Writers}
    <3>1. Ages \in SUBSET Nat /\ Ages # {}
      BY <1>1, <1>4
    <3>2. PICK a \in Ages : \A b \in Ages : a <= b
      BY <3>1, LeastNumber
    <3>3. PICK i \in Writers : a = Len(durable) - i
      BY <3>2
    <3>4. ASSUME NEW j \in Writers PROVE j <= i
      <4>1. Len(durable) - j \in Ages
        OBVIOUS
      <4>2. a <= Len(durable) - j
        BY <3>2, <4>1
      <4>3. i \in Nat /\ j \in Nat
        BY <1>1
      <4> QED  BY <1>1, <3>3, <4>2, <4>3
    <3> QED  BY <3>4
  <2>2. last \in Writers /\ \A j \in Writers : j <= last
    BY <2>1
  <2>3. PICK r : r = durable[last]
    OBVIOUS
  <2>4. last \in DOMAIN durable /\ r \in Range(durable) /\ r.commit_version <= s /\ \E c \in Range(r.changes) : c.key = k
    BY <2>2, <2>3 DEF Range
  <2>5. PICK c : c = change
    OBVIOUS
  <2>6. c \in Range(r.changes) /\ c.key = k
    BY <2>3, <2>4, <2>5
  <2>7. c.value # NoValue
    BY <2>4, <2>6 DEF SnapshotInv, ChangesInv, HeadOf
  <2>8. DurableValue(k, s) = c.value.committed_history[1].value
    BY <1>2, <1>4, <2>5, <2>7
  <2>9. ASSUME NEW q \in Range(durable), q.commit_version <= s, NEW d \in Range(q.changes), d.key = k
        PROVE  q.commit_version <= r.commit_version
    <3>1. PICK i \in DOMAIN durable : q = durable[i]
      BY DEF Range
    <3>2. i \in Writers
      BY <2>9, <3>1
    <3>3. i <= last
      BY <2>2, <3>2
    <3> HIDE DEF last, Writers
    <3>4. i = last \/ i < last
      BY <1>1, <2>4, <3>3
    <3> QED  BY <1>1, <2>3, <2>4, <3>1, <3>4 DEF SnapshotInv, LogInv, Ascending
  <2> HIDE DEF last, change, Writers
  <2> QED  BY <2>4, <2>6, <2>8, <2>9
<1> QED  BY <1>3, <1>4

\* What an open transaction reads of a key it has not written.
ReadsOthers(t, k) == t \in active /\ pc[t] # "undo" /\ k \notin Range(undo[t])

LEMMA EntryHistory ==
    ASSUME OwnershipInv, NEW k \in Keys
    PROVE  History(map[k]) \in Seq(Versions) /\ Descending(History(map[k]))
<1>1. CASE map[k] = NoValue
  <2>1. History(map[k]) = <<>>
    BY <1>1 DEF History
  <2>2. Descending(<<>>)
    BY DEF Descending
  <2> QED  BY <2>1, <2>2
<1>2. CASE map[k] # NoValue
  <2>1. map[k] \in Entries /\ Descending(map[k].committed_history)
    BY <1>2 DEF MaybeEntries, OwnershipInv, DataInv, DataType, HistoryInv, Sound
  <2> QED  BY <1>2, <2>1 DEF History, Entries
<1> QED  BY <1>1, <1>2

LEMMA ReadOrForgotten ==
    ASSUME SnapshotInv, NEW t \in Tx, NEW k \in Keys, ReadsOthers(t, k)
    PROVE  Visible(t, k) = DurableValue(k, snapshot[t]) \/ Forgotten(History(map[k]), snapshot[t])
<1>1. OwnershipInv /\ LogInv /\ PublishedInv /\ ChangesInv /\ KeptInv
  BY DEF SnapshotInv
<1>2. PICK s \in Nat : s = snapshot[t] /\ s <= version
  BY <1>1 DEF PublishedInv
<1>3. map[k] \in MaybeEntries /\ ~ HeldBy(map[k], t)
  BY <1>1 DEF ReadsOthers, OwnershipInv, OwnInv, DataInv, DataType
<1>4. PICK h \in Seq(Versions) : h = History(map[k]) /\ Descending(h)
  BY <1>1, EntryHistory
<1>5. Visible(t, k) = IF FirstAt(h, s) = 0 THEN NoValue ELSE h[FirstAt(h, s)].value
  BY <1>2, <1>3, <1>4, VisibleValue
<1>6. \A i \in DOMAIN h : h[i].commit_version \in Nat
  <2>1. \A i \in DOMAIN h : h[i] \in Versions
    OBVIOUS
  <2> QED  BY <2>1 DEF Versions
<1>7. ASSUME NEW i \in DOMAIN h
      PROVE  \E r \in Range(durable) : \E c \in Range(r.changes) : c.key = k /\ r.commit_version = h[i].commit_version
  <2>1. Came(k, h[i])
    BY <1>1, <1>4 DEF KeptInv, Range
  <2>2. PICK r \in Range(durable) : \E c \in Range(r.changes) : c.key = k /\ c.value.committed_history[1] = h[i]
    BY <2>1 DEF Came
  <2>3. PICK c \in Range(r.changes) : c.key = k /\ c.value.committed_history[1] = h[i]
    BY <2>2
  <2>4. HeadOf(r, c)
    BY <1>1 DEF ChangesInv
  <2> QED  BY <2>3, <2>4 DEF HeadOf
<1>8. CASE /\ DurableValue(k, s) = NoValue
           /\ \A r \in Range(durable) : r.commit_version <= s => \A c \in Range(r.changes) : c.key # k
  <2>1. \A i \in DOMAIN h : ~ (h[i].commit_version <= s)
    BY <1>7, <1>8
  <2>2. FirstAt(h, s) = 0
    BY <2>1, FirstAtFound
  <2> QED  BY <1>2, <1>5, <1>8, <2>2
<1>9. ASSUME NEW r \in Range(durable), NEW c \in Range(r.changes),
             c.key = k, r.commit_version <= s, DurableValue(k, s) = c.value.committed_history[1].value,
             \A q \in Range(durable) : q.commit_version <= s /\ (\E d \in Range(q.changes) : d.key = k) =>
                 q.commit_version <= r.commit_version
      PROVE  Visible(t, k) = DurableValue(k, s) \/ Forgotten(h, s)
  <2>1. HeadOf(r, c) /\ r.commit_version \in Nat
    BY <1>1, DurableChanges DEF ChangesInv
  <2>2. \A i \in DOMAIN h : h[i].commit_version <= s => h[i].commit_version <= r.commit_version
    BY <1>7, <1>9
  <2>3. ~ OnItsWay(r, c)
    <3> SUFFICES ASSUME NEW p \in applying, batch[p[1]] = r PROVE FALSE
      BY DEF OnItsWay
    <3>1. p \in Positions(batch)
      BY <1>1 DEF OwnershipInv, AppliedInv, DataInv, ApplyInv, Applies
    <3>2. r \in Range(batch)
      BY <1>1, <3>1, PositionsKnown
    <3>3. r.commit_version > version /\ version \in Nat
      BY <1>1, <3>2 DEF PublishedInv
    <3> QED  BY <1>2, <1>9, <2>1, <3>3
  <2>4. CASE c.value.committed_history[1] \in Range(h)
    <3>1. PICK i \in DOMAIN h : c.value.committed_history[1] = h[i]
      BY <2>4 DEF Range
    <3>2. h[i].commit_version = r.commit_version
      BY <2>1, <3>1 DEF HeadOf
    <3>3. PICK j : j = FirstAt(h, s)
      OBVIOUS
    <3>4. j \in DOMAIN h /\ j # 0 /\ h[j].commit_version <= s /\ j <= i
      <4>1. ~ (h[i].commit_version > s)
        BY <1>9, <2>1, <3>2
      <4> QED  BY <1>9, <3>2, <3>3, <4>1, FirstAtFound
    <3>5. h[j].commit_version <= r.commit_version
      BY <2>2, <3>4
    <3>6. j = i
      <4>1. i \in Nat /\ j \in Nat
        BY <3>4
      <4>2. CASE j < i
        BY <1>4, <1>6, <3>2, <3>4, <3>5, <4>2 DEF Descending
      <4> QED  BY <3>4, <4>1, <4>2
    <3> QED  BY <1>5, <1>9, <3>1, <3>3, <3>4, <3>6
  <2>5. CASE Forgotten(h, r.commit_version)
    <3>1. ASSUME NEW i \in DOMAIN h PROVE h[i].commit_version > s
      BY <1>6, <2>1, <2>2, <2>5 DEF Forgotten
    <3> QED  BY <2>5, <3>1 DEF Forgotten
  <2> QED  BY <1>1, <1>4, <1>9, <2>3, <2>4, <2>5 DEF KeptInv
<1>10. \/ /\ DurableValue(k, s) = NoValue
          /\ \A r \in Range(durable) : r.commit_version <= s => \A c \in Range(r.changes) : c.key # k
       \/ \E r \in Range(durable) : \E c \in Range(r.changes) :
             /\ c.key = k /\ r.commit_version <= s /\ DurableValue(k, s) = c.value.committed_history[1].value
             /\ \A q \in Range(durable) : q.commit_version <= s /\ (\E d \in Range(q.changes) : d.key = k) =>
                   q.commit_version <= r.commit_version
  BY DurableValueFound
<1> QED  BY <1>2, <1>4, <1>8, <1>9, <1>10

\* A history full of versions newer than a snapshot takes MaxGenerations other
\* transactions.
LEMMA NothingForgotten ==
    ASSUME SnapshotInv, NEW t \in Tx, NEW k \in Keys, ReadsOthers(t, k),
           IsFiniteSet(Tx), Cardinality(Tx) <= MaxGenerations
    PROVE  ~ Forgotten(History(map[k]), snapshot[t])
<1> SUFFICES ASSUME Forgotten(History(map[k]), snapshot[t]) PROVE FALSE
  OBVIOUS
<1>1. OwnershipInv /\ PublishedInv /\ ChangesInv /\ KeptInv
  BY DEF SnapshotInv
<1>2. snapshot[t] \in Nat /\ snapshot[t] >= 1
  BY <1>1 DEF PublishedInv, ReadsOthers, OwnershipInv, ThreadInv, Open
<1>3. PICK h \in Seq(Versions) : h = History(map[k]) /\ Descending(h)
  BY <1>1, EntryHistory
<1>4. /\ Len(h) \in Nat /\ Len(h) >= MaxGenerations /\ DOMAIN h = 1 .. Len(h)
      /\ \A i \in DOMAIN h : h[i].commit_version > snapshot[t] /\ h[i].commit_version \in Nat
  <2>1. \A i \in DOMAIN h : h[i] \in Versions
    OBVIOUS
  <2> QED  BY <1>3, <2>1 DEF Forgotten, Versions
\* Each version of h is that of the record of some other transaction.
<1>5. ASSUME NEW i \in DOMAIN h
      PROVE  \E u \in Tx \ {t} : record[u].commit_version = h[i].commit_version
  <2>1. Came(k, h[i])
    BY <1>1, <1>3 DEF KeptInv, Range
  <2>2. PICK r \in Range(durable) : \E c \in Range(r.changes) : c.key = k /\ c.value.committed_history[1] = h[i]
    BY <2>1 DEF Came
  <2>3. PICK c \in Range(r.changes) : c.key = k /\ c.value.committed_history[1] = h[i]
    BY <2>2
  <2>4. r.commit_version = h[i].commit_version /\ (r.tx_id = None => r.commit_version = 1)
    BY <1>1, <2>3 DEF ChangesInv, HeadOf
  <2>5. r.tx_id # None
    BY <1>2, <1>4, <2>4
  <2>6. r.tx_id \in Tx
    <3>1. r \in WalRecords
      BY <1>1, DurableChanges
    <3> QED  BY <2>5, <3>1 DEF WalRecords
  <2>7. PICK u \in Tx : u = r.tx_id /\ r = record[u] /\ Logged(u)
    BY <1>1, <2>6 DEF OwnershipInv, RecordInv, Logged
  <2>8. u # t
    <3> SUFFICES ASSUME u = t PROVE FALSE
      OBVIOUS
    <3>1. Prepares(t) /\ todo[t] = <<>>
      BY <1>1, <2>7 DEF OwnershipInv, RecordInv
    <3>2. PICK j \in DOMAIN record[t].changes : c = record[t].changes[j]
      BY <2>7 DEF Range
    <3>3. k = undo[t][j]
      BY <2>3, <3>1, <3>2 DEF Prepares
    <3>4. j \in DOMAIN undo[t]
      <4>1. record[t].changes \in Seq(Changes) /\ undo[t] \in Seq(Keys)
        BY <1>1 DEF OwnershipInv, DataInv, DataType, WalRecords
      <4>2. Len(record[t].changes) = Len(undo[t])
        BY <3>1, <4>1 DEF Prepares
      <4> QED  BY <4>1, <4>2
    <3> QED  BY <3>3, <3>4 DEF ReadsOthers, Range
  <2> QED  BY <2>4, <2>7, <2>8
<1> DEFINE Author(i) == CHOOSE u \in Tx \ {t} : record[u].commit_version = h[i].commit_version
           f == [i \in 1 .. Len(h) |-> Author(i)]
<1>6. ASSUME NEW i \in 1 .. Len(h) PROVE Author(i) \in Tx \ {t} /\ record[Author(i)].commit_version = h[i].commit_version
  BY <1>4, <1>5
<1> HIDE DEF Author
<1>7. f \in [1 .. Len(h) -> Tx \ {t}]
  BY <1>6
<1>8. ASSUME NEW i \in 1 .. Len(h), NEW j \in 1 .. Len(h), f[i] = f[j] PROVE i = j
  <2>1. h[i].commit_version = h[j].commit_version
    BY <1>6, <1>8
  <2>2. ~ (i < j) /\ ~ (j < i)
    BY <1>3, <1>4, <2>1 DEF Descending
  <2> QED  BY <1>4, <2>2
<1>9. f \in Injection(1 .. Len(h), Tx \ {t})
  BY <1>7, <1>8 DEF Injection, IsInjective
<1>10. /\ IsFiniteSet(Tx \ {t}) /\ Cardinality(Tx \ {t}) = Cardinality(Tx) - 1 /\ Cardinality(Tx) \in Nat
  BY FS_RemoveElement, FS_CardinalityType
<1>11. IsFiniteSet(1 .. Len(h)) /\ Cardinality(1 .. Len(h)) = Len(h)
  <2>1. 1 \in Int /\ Len(h) \in Int
    BY <1>4
  <2>2. IsFiniteSet(1 .. Len(h)) /\ Cardinality(1 .. Len(h)) = IF 1 > Len(h) THEN 0 ELSE Len(h) - 1 + 1
    BY <2>1, FS_Interval
  <2> QED  BY <1>4, <2>2
<1>12. Cardinality(1 .. Len(h)) <= Cardinality(Tx \ {t})
  BY <1>9, <1>10, FS_Injection DEF ExistsInjection
<1>13. MaxGenerations \in Nat
  BY GenerationsAssumption
<1> QED  BY <1>4, <1>10, <1>11, <1>12, <1>13

\* A snapshot read goes wrong only when the history of the key has been filled
\* with versions newer than the snapshot: commit_uncommitted keeps MaxGenerations
\* of them, whoever may still need an older one.
THEOREM SnapshotsHoldUntilForgotten ==
    ASSUME MaxVacuums = 0, ~ Rewrites, ~ Contended
    PROVE  Spec => [](\A t \in Tx, k \in Keys : ReadsOthers(t, k) =>
                         \/ Visible(t, k) = DurableValue(k, snapshot[t])
                         \/ Forgotten(History(map[k]), snapshot[t]))
<1>1. SnapshotInv => \A t \in Tx, k \in Keys : ReadsOthers(t, k) =>
                         \/ Visible(t, k) = DurableValue(k, snapshot[t])
                         \/ Forgotten(History(map[k]), snapshot[t])
  BY ReadOrForgotten
<1> QED  BY <1>1, SnapshotInvariant, PTL

\* A snapshot is a prefix of the durable commits, as long as there are no more
\* transactions than versions kept.
THEOREM SnapshotsAreDurablePrefixes ==
    ASSUME MaxVacuums = 0, ~ Rewrites, ~ Contended,
           IsFiniteSet(Tx), Cardinality(Tx) <= MaxGenerations
    PROVE  Spec => []SnapshotIsDurablePrefix
<1>1. SnapshotInv => SnapshotIsDurablePrefix
  BY ReadOrForgotten, NothingForgotten DEF SnapshotIsDurablePrefix, ReadsOthers
<1> QED  BY <1>1, SnapshotInvariant, PTL

=============================================================================
