--------------------------- MODULE MCScheduleTxn ---------------------------
(* Small instances of ScheduleTxn for TLC.                                 *)
EXTENDS ScheduleTxn, TLC

CONSTANTS p1, p2, s1, s2, x

OnePlan == {p1}
TwoPlans == {p1, p2}
MCSlots == {s1, s2}

Entry(body, en) == [body |-> body, en |-> en]

\* One body, on or off.
OneBody == {Entry(x, b) : b \in BOOLEAN}

\* A controller with one enabled schedule, and perhaps one without any.
OneSchedule == {[s \in MCSlots |-> IF s = s1 THEN Entry(x, TRUE) ELSE NoEntry]}
AtMostOneSchedule == OneSchedule \cup {[s \in MCSlots |-> NoEntry]}

Symmetry == Permutations(Plans)
=============================================================================
