------------------------- MODULE MCNativeSchedules -------------------------
(* A small instance of NativeSchedules: two schedules that share a minute.  *)
EXTENDS NativeSchedules

CONSTANTS p1, s1, s2, day, pool

OnePlan == {p1}
MCSlots == {s1, s2}

Body(on, of) ==
  [lc |-> pool, readable |-> TRUE, days |-> {day}, on |-> on, of |-> of, ar |-> 1]
Early == Body(0, 2)
Late  == Body(1, 3)

Entry(b, en) == [body |-> b, en |-> en]
MCEntries == {Entry(b, en) : b \in {Early, Late}, en \in BOOLEAN}

\* Late may not be enabled as long as Early is. Of the two entries only one
\* fits a capture of the trace.
MCTables == {[s \in MCSlots |-> IF s = s1 THEN Entry(Early, TRUE) ELSE Entry(Late, FALSE)]}
=============================================================================
