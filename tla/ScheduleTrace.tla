---------------------------- MODULE ScheduleTrace ----------------------------
(***************************************************************************)
(* The part of NativeScheduleTrace (schedule_trace.py) that draws           *)
(* conclusions: the differences it reports between schedule tables, and the*)
(* confirmed operation it files beside each. A table is a function whose    *)
(* domain is the set of keys present, tombstones included.                 *)
(*                                                                         *)
(* The raw documents that received and sending keep are redacted copies of *)
(* one message each; nothing is concluded from them and they are left out. *)
(***************************************************************************)
EXTENDS Integers, Sequences, FiniteSets

CONSTANTS
  Unset,        \* None
  MaxChanges,   \* TRACE_CHANGES, the length of the ring of changes
  MaxCaptured   \* keys that fit a fragment: MAX_ITEMS and FRAGMENT_BYTES

ASSUME TraceAssumption ==
  /\ MaxChanges \in Nat \ {0}
  /\ MaxCaptured \in Nat

EmptyTrace == [table |-> Unset, confirmed |-> Unset, changes |-> <<>>]

\* _fragment keeps the whole table, or says that it was truncated.
Captured(table) == Cardinality(DOMAIN table) <= MaxCaptured

Difference(old, new) ==
  [added   |-> DOMAIN new \ DOMAIN old,
   removed |-> DOMAIN old \ DOMAIN new,
   changed |-> {s \in (DOMAIN old) \cap (DOMAIN new) : old[s] # new[s]}]

NoDifference == [added |-> {}, removed |-> {}, changed |-> {}]

\* A deque with maxlen drops its oldest.
Pushed(ring, x) ==
  IF Len(ring) < MaxChanges THEN Append(ring, x) ELSE Append(Tail(ring), x)

Change(t, table) ==
  [kind      |-> IF t.table = Unset THEN "baseline" ELSE "change",
   diff      |-> IF t.table = Unset THEN NoDifference ELSE Difference(t.table, table),
   table     |-> table,
   confirmed |-> t.confirmed]

BugWithTable(t, table) ==
  IF ~Captured(table) \/ t.table = table THEN t
  ELSE [t EXCEPT !.table = table, !.changes = Pushed(@, Change(t, table))]

\* reported_table: nothing is claimed across a partial capture.
WithTable(t, table) ==
  IF ~Captured(table) THEN [t EXCEPT !.table = Unset]
  ELSE IF t.table = table THEN t
  ELSE [t EXCEPT !.table = table, !.changes = Pushed(@, Change(t, table))]

\* operation("confirmed", ...)
WithConfirmed(t, p) == [t EXCEPT !.confirmed = p]

=============================================================================
