------------------------- MODULE ScheduleRulesProofs -------------------------
(* Theorems about ScheduleRules: the overlap rule, which compares start and *)
(* end times, is exactly what keeps two schedules out of the same minute.  *)
EXTENDS ScheduleRules, TLAPS

\* The first minute that two daytime bodies can share.
Later(b, o) == IF b.on >= o.on THEN b.on ELSE o.on

\* Two schedules that _validate_overlap lets pass never run in one minute.
THEOREM RuleSound ==
  ASSUME NEW b \in Bodies, NEW o \in Bodies, Daytime(b), Apart(b, o)
  PROVE  ~Collide(b, o)
<1>1. b.on \in Nat /\ b.of \in Nat /\ o.on \in Nat /\ o.of \in Nat
  BY RulesAssumption DEF Bodies, Minutes
<1>2. SUFFICES ASSUME NEW d \in WeekDays, NEW m \in Minutes,
                      MayRun(b, d, m), MayRun(o, d, m)
               PROVE  FALSE
  BY DEF Collide
<1>3. m \in Nat
  BY RulesAssumption DEF Minutes
<1>4. /\ d \in b.days \cap o.days
      /\ b.on <= m /\ m < b.of /\ o.on <= m /\ m < o.of
  BY <1>2 DEF MayRun, Apart
<1> QED
  BY <1>1, <1>3, <1>4 DEF Apart

\* A refusal is never for nothing: two daytime schedules of one equipment
\* that the rule keeps apart would really run in the same minute.
THEOREM RuleExact ==
  ASSUME NEW b \in Bodies, NEW o \in Bodies, b.lc = o.lc,
         Daytime(b), Daytime(o), ~Apart(b, o)
  PROVE  Collide(b, o)
<1> DEFINE m == Later(b, o)
<1>1. b.on \in Nat /\ b.of \in Nat /\ o.on \in Nat /\ o.of \in Nat
  BY RulesAssumption DEF Bodies, Minutes
<1>2. PICK d \in WeekDays : d \in b.days /\ d \in o.days
  BY DEF Apart, Bodies
<1>3. b.on < b.of /\ o.on < o.of /\ b.on < o.of /\ o.on < b.of
  BY <1>1 DEF Apart, Daytime
<1>4. m \in Minutes
  BY DEF Bodies, Later
<1>5. MayRun(b, d, m) /\ MayRun(o, d, m)
  BY <1>1, <1>2, <1>3 DEF MayRun, Later
<1> QED
  BY <1>4, <1>5 DEF Collide

\* What an accepted plan enables collides with no other enabled schedule of
\* the table it was made from: the table gains no conflict, whichever empty
\* slot the controller picks for a new entry.
THEOREM AcceptedApart ==
  ASSUME NEW Slots, NEW none, NEW plan, NEW s \in Slots,
         NEW E \in SUBSET [body : Bodies, en : BOOLEAN], none \notin E,
         plan.before \in [Slots -> E \cup {none}],
         plan.after \in E \cup {none},
         plan.operation \in {"create", "update", "enable", "disable", "delete"},
         plan.operation = "delete" <=> plan.after = none,
         plan.operation = "disable" => ~plan.after.en,
         plan.operation = "create" => plan.slot \notin Slots,
         plan.operation = "create" => plan.before[s] = none,
         plan.operation # "create" => plan.slot = s,
         Accepted(plan, none)
  PROVE  Clashes([plan.before EXCEPT ![s] = plan.after], none)
           \subseteq Clashes(plan.before, none)
<1> DEFINE old == plan.before
           new == [plan.before EXCEPT ![s] = plan.after]
<1>1. /\ new \in [Slots -> E \cup {none}]
      /\ new[s] = plan.after
      /\ \A t \in Slots \ {s} : new[t] = old[t]
      /\ DOMAIN new = Slots /\ DOMAIN old = Slots
  OBVIOUS
<1>2. SUFFICES ASSUME NEW q \in Clashes(new, none)
               PROVE  q \in Clashes(old, none)
  OBVIOUS
<1>3. /\ q \in Slots \X Slots /\ q[1] \in Slots /\ q[2] \in Slots /\ q[1] # q[2]
      /\ new[q[1]] # none /\ new[q[2]] # none
      /\ new[q[1]].en /\ new[q[2]].en
      /\ Collide(new[q[1]].body, new[q[2]].body)
  BY <1>1 DEF Clashes
<1>4. CASE s \notin {q[1], q[2]}
  BY <1>1, <1>3, <1>4 DEF Clashes
<1>5. CASE s \in {q[1], q[2]}
  <2>1. PICK t \in Slots \ {s} : {q[1], q[2]} = {s, t}
    BY <1>3, <1>5
  <2>2. /\ plan.after # none /\ plan.after.en
        /\ old[t] # none /\ old[t].en
    BY <2>1, <1>1, <1>3
  <2>3. Collide(plan.after.body, old[t].body) /\ plan.after.body.lc = old[t].body.lc
    BY <2>1, <1>1, <1>3 DEF Collide
  <2>4. plan.operation \notin {"delete", "disable"}
    BY <2>2
  <2>5. Valid(plan.after) /\ NoOverlap(old, none, plan.slot, plan.after)
    BY <2>4 DEF Accepted
  <2>6. t \in DOMAIN old \ {plan.slot}
    BY <1>1
  <2>7. Apart(plan.after.body, old[t].body)
    BY <2>2, <2>3, <2>5, <2>6 DEF NoOverlap
  <2>8. plan.after.body \in Bodies /\ old[t].body \in Bodies
    BY <2>2
  <2>9. Daytime(plan.after.body)
    BY <2>2, <2>5 DEF Valid, Daytime
  <2> QED
    BY <2>3, <2>7, <2>8, <2>9, RuleSound
<1> QED
  BY <1>4, <1>5

=============================================================================
