---------------------------- MODULE SqlSequences ----------------------------
(* One SQL sequence of the catalog.                                           *)
(*                                                                            *)
(* nextval, setval and ALTER change the definition in memory and write it to  *)
(* the _catalog map.  nextval and setval do not save the store: what they     *)
(* wrote is durable with the next save.  A public sequence has an entry under *)
(* its full and one under its short name; a behaviour here uses one of them.  *)
EXTENDS Integers

CONSTANTS SequenceValues,  \* the values and bounds a statement names
          Increments,
          I64Max           \* i64::MAX

VARIABLES seq,           \* the definition in memory, or NoSequence
          seqDisk,       \* in the _catalog map
          seqSaved,      \* and in the last save
          issued,        \* values handed out since the last RESTART, setval or wrap
          issuedSaved,   \* those of them that the last save covers
          repeated       \* nextval handed one of them out again before the end of i64

sequencesVars == <<seq, seqDisk, seqSaved, issued, issuedSaved, repeated>>

I64Min == -I64Max - 1

NoSequence == [current_value |-> 0, increment_by |-> 0, min_value |-> 0, max_value |-> 0,
               cycle |-> FALSE, is_called |-> FALSE]

SequencesInit ==
    /\ seq = NoSequence /\ seqDisk = NoSequence /\ seqSaved = NoSequence
    /\ issued = {} /\ issuedSaved = {} /\ repeated = FALSE

Exists == seq # NoSequence

Store(def) == seq' = def /\ seqDisk' = def

SaveWith(history) == seqSaved' = seqDisk' /\ issued' = history /\ issuedSaved' = history

create_sequence(start, inc, min, max, cycle) ==
    /\ ~Exists
    /\ Store([current_value |-> start, increment_by |-> inc, min_value |-> min,
              max_value |-> max, cycle |-> cycle, is_called |-> FALSE])
    /\ SaveWith({})
    /\ UNCHANGED repeated

drop_sequence ==
    /\ Exists
    /\ Store(NoSequence)
    /\ SaveWith({})
    /\ UNCHANGED repeated

\* ALTER SEQUENCE: RESTART WITH and the changes of a bound, the step or CYCLE.
\* A restart or another step begins a new count.
alter_sequence ==
    /\ Exists
    /\ \/ \E r \in SequenceValues : Store([seq EXCEPT !.current_value = r, !.is_called = FALSE]) /\ SaveWith({})
       \/ \E i \in Increments : Store([seq EXCEPT !.increment_by = i]) /\ SaveWith({})
       \/ \E v \in SequenceValues : Store([seq EXCEPT !.min_value = v]) /\ SaveWith(issued)
       \/ \E v \in SequenceValues : Store([seq EXCEPT !.max_value = v]) /\ SaveWith(issued)
       \/ \E c \in BOOLEAN : Store([seq EXCEPT !.cycle = c]) /\ SaveWith(issued)
    /\ UNCHANGED repeated

\* i64::saturating_add
saturating_add(x, y) ==
    IF x + y > I64Max THEN I64Max ELSE IF x + y < I64Min THEN I64Min ELSE x + y

\* What nextval computes after the first call: the next value, or the other end of
\* the range when the sequence cycles.
Next_(d) == saturating_add(d.current_value, d.increment_by)
Exhausted(d) == (d.increment_by > 0 /\ Next_(d) > d.max_value) \/ (d.increment_by < 0 /\ Next_(d) < d.min_value)
Wraps(d) == d.is_called /\ Exhausted(d)
NextValue(d) ==
    CASE ~d.is_called -> d.current_value
      [] Wraps(d) -> IF d.increment_by > 0 THEN d.min_value ELSE d.max_value
      [] OTHER -> Next_(d)

\* A plausible slip: nextval leaves the map for a later statement to write.
Advance_memory_only(def) == seq' = def /\ UNCHANGED seqDisk

\* nextval writes the map before it returns the value.
Advance(def) == Store(def)

\* Without CYCLE an exhausted sequence refuses and stays as it is.
nextval ==
    /\ Exists
    /\ Wraps(seq) => seq.cycle
    /\ LET val == NextValue(seq)
           history == IF Wraps(seq) THEN {} ELSE issued
       IN /\ Advance([seq EXCEPT !.current_value = val, !.is_called = TRUE])
          /\ repeated' = (val \in history \ {I64Min, I64Max})
          /\ issued' = history \union {val}
          /\ issuedSaved' = IF Wraps(seq) THEN {} ELSE issuedSaved
    /\ UNCHANGED seqSaved

setval(v, called) ==
    /\ Exists
    /\ Store([seq EXCEPT !.current_value = v, !.is_called = called])
    /\ issued' = IF called THEN {v} ELSE {}
    /\ issuedSaved' = {}
    /\ UNCHANGED <<seqSaved, repeated>>

\* Any statement that saves the store, and the background save.
Save ==
    /\ seqSaved # seqDisk \/ issuedSaved # issued
    /\ UNCHANGED <<seq, seqDisk, repeated>>
    /\ SaveWith(issued)

\* RESTORE reloads the catalog from its map.
reload == seq' = seqDisk /\ UNCHANGED <<seqDisk, seqSaved, issued, issuedSaved, repeated>>

Restart ==
    /\ seq' = seqSaved /\ seqDisk' = seqSaved
    /\ issued' = issuedSaved
    /\ UNCHANGED <<seqSaved, issuedSaved, repeated>>

SequencesNext ==
    \/ \E start, min, max \in SequenceValues, inc \in Increments, cycle \in BOOLEAN :
          create_sequence(start, inc, min, max, cycle)
    \/ drop_sequence
    \/ alter_sequence
    \/ nextval
    \/ \E v \in SequenceValues, called \in BOOLEAN : setval(v, called)
    \/ Save
    \/ reload
    \/ Restart

SequencesSpec == SequencesInit /\ [][SequencesNext]_sequencesVars

-----------------------------------------------------------------------------

\* nextval never hands out a value twice between two RESTARTs, setvals or wraps,
\* through reloads of the catalog and, for the values the last save covers, through
\* a crash (Catalog::nextval writes the map before it returns).  Only the two ends of
\* i64, where the addition saturates, may come again and again: a sequence whose
\* maximum is i64::MAX, the default, does not refuse there.
SequenceNeverRepeats == ~repeated
=============================================================================
