---------------------------- MODULE ScheduleRules ----------------------------
(***************************************************************************)
(* Which native schedules schedules.py agrees to plan: the rules of        *)
(* _validate_entry, _validate_overlap, _identity and of each operation of   *)
(* async_preview, and what they are for, stated by the minute.             *)
(*                                                                         *)
(* An entry is a record of a body and its enable flag. The body is what    *)
(* identifies a schedule: equipment, times, weekdays and speed. Times that *)
(* are not fixed clock times, and day lists that are empty, repeat a day or*)
(* hold something else, are unreadable.                                    *)
(***************************************************************************)
EXTENDS Integers

CONSTANTS
  WeekDays,    \* weekday codes, 0 to 6
  DayLength,   \* minutes of a day: T=00:00 to T=23:59
  Pool,        \* the one recognized Pool Filtration equipment
  Equipment,   \* equipment that schedules may name
  MinSpeed,    \* minSpd, the pump's reported limits
  MaxSpeed     \* maxSpd

ASSUME RulesAssumption ==
  /\ DayLength \in Nat \ {0}
  /\ Pool \in Equipment
  /\ MinSpeed \in Nat \ {0} /\ MaxSpeed \in Nat

Minutes == 0..(DayLength - 1)

Bodies ==
  [lc : Equipment, readable : BOOLEAN, days : SUBSET WeekDays,
   on : Minutes, of : Minutes, ar : Nat]

Readable(b) == b.readable /\ b.days # {}

\* Within one day, from the start up to but not including the end.
Daytime(b) == Readable(b) /\ b.on < b.of

\* _validate_entry: an overnight schedule may be stored, but not enabled.
Valid(e) ==
  /\ e.body.ar \in MinSpeed..MaxSpeed
  /\ Readable(e.body)
  /\ e.body.on # e.body.of
  /\ e.en => e.body.on < e.body.of

BugApart(b, o) ==
  Daytime(o) /\ (b.days \cap o.days = {} \/ o.of <= b.on \/ b.on <= o.on)

\* One other enabled schedule of the same equipment does not stand in the
\* way of b: it can be read, does not cross midnight, and has no weekday in
\* common with b or another part of the day.
Apart(b, o) ==
  /\ Daytime(o)
  /\ b.days \cap o.days = {} \/ o.of <= b.on \/ b.of <= o.on

\* _validate_overlap: entry e in slot s beside the rest of the table. The
\* table's empty slots hold none.
NoOverlap(table, none, s, e) ==
  e.en =>
    \A t \in DOMAIN table \ {s} :
      table[t] # none /\ table[t].en /\ table[t].body.lc = e.body.lc =>
        Apart(e.body, table[t].body)

\* The checks of async_preview on the plan it has put together. Disabling
\* and deleting need no more than an existing pool schedule.
Accepted(plan, none) ==
  LET old == plan.before[plan.slot]
  IN  /\ plan.operation # "create" => old # none /\ old.body.lc = Pool
      /\ plan.operation \notin {"delete", "disable"} =>
           /\ plan.after.body.lc = Pool
           /\ Valid(plan.after)
           /\ NoOverlap(plan.before, none, plan.slot, plan.after)

-----------------------------------------------------------------------------
(* What the rules are for. The code claims nothing about schedules that it  *)
(* cannot read or that cross midnight: they may run at any time.           *)

MayRun(b, d, m) ==
  IF Daytime(b) THEN d \in b.days /\ m >= b.on /\ m < b.of ELSE TRUE

\* Two bodies may both claim the equipment in the same minute.
Collide(b, o) ==
  b.lc = o.lc /\ \E d \in WeekDays, m \in Minutes : MayRun(b, d, m) /\ MayRun(o, d, m)

\* The pairs of slots that a table leaves in conflict.
Clashes(table, none) ==
  {q \in (DOMAIN table) \X (DOMAIN table) :
     /\ q[1] # q[2]
     /\ table[q[1]] # none /\ table[q[2]] # none
     /\ table[q[1]].en /\ table[q[2]].en
     /\ Collide(table[q[1]].body, table[q[2]].body)}

=============================================================================
