----------------------------- MODULE Coordinator -----------------------------
(***************************************************************************)
(* The coordinator (coordinator.py) as far as it decides what is shown of  *)
(* the pump: the merged reported state, the last values shown, the task    *)
(* that holds back a zero speed while the pump is still demanded, the flag *)
(* that says values come from the cache, and the cache on disk across      *)
(* restarts.                                                               *)
(*                                                                         *)
(* The store of Home Assistant, which writes some time after it was asked, *)
(* and the equipment are outside src/.                                     *)
(***************************************************************************)
EXTENDS Integers

CONSTANTS
  Speeds,       \* speeds above zero
  Grace,        \* PUMP_ZERO_GRACE_SECONDS
  SaveDelay,    \* the delay of async_delay_save
  MaxRestarts

ASSUME CoordinatorAssumption ==
  Speeds \subseteq Nat \ {0} /\ Grace \in Nat \ {0} /\ SaveDelay \in Nat /\ MaxRestarts \in Nat

Reports == [rpm : Speeds \cup {0}, demand : BOOLEAN]

Unknown == -1

VARIABLES
  running,   \* the config entry is set up
  raw,       \* raw_reported: speed and demand; rpm Unknown before a report
  shown,     \* normalized["pump_rpm"]
  task,      \* _pump_zero_task: time left of its sleep, or Unknown for None
  cached,    \* using_cached_data
  healthy,   \* client.healthy
  saving,    \* time until the store writes, or Unknown
  disk,      \* what the store holds: [raw, shown]
  restarts,  \* how much of MaxRestarts is used
  held,      \* history: how long a demanded zero was held, to Grace + 1
  live       \* history: a report has come since start or since status was bad

vars == <<running, raw, shown, task, cached, healthy, saving, disk, restarts, held, live>>

Nothing == [rpm |-> Unknown, demand |-> FALSE]

Init ==
  /\ running = TRUE /\ raw = Nothing /\ shown = Unknown /\ task = Unknown
  /\ cached = FALSE /\ healthy = FALSE /\ saving = Unknown
  /\ disk = [raw |-> Nothing, shown |-> Unknown]
  /\ restarts = 0 /\ held = 0 /\ live = FALSE

-----------------------------------------------------------------------------
(* should_suppress_transient_pump_zero and _filter_transient_pump_zero.    *)
(* Definitions that begin with Bug are slips the runs are shown to notice; *)
(* nothing uses them.                                                      *)

BugSuppresses(before, r) == before > 0 /\ r.rpm = 0

Suppresses(before, r) == before > 0 /\ r.rpm = 0 /\ r.demand

BugTaskAfter(before, r) == IF Suppresses(before, r) THEN Grace ELSE Unknown

BugKeepsTask(before, r) ==
  IF Suppresses(before, r) /\ task = Unknown THEN Grace ELSE task

\* A hold that runs goes on; the first zero starts one; anything else ends it.
TaskAfter(before, r) ==
  IF ~Suppresses(before, r) THEN Unknown
  ELSE IF task = Unknown THEN Grace ELSE task

ShownAfter(before, r) ==
  IF Suppresses(before, r) \/ r.rpm = Unknown THEN before ELSE r.rpm

\* The store writes at the end of the delay counted from the last request.
Save == saving' = SaveDelay

\* async_handle_state.
HandleState(r) ==
  /\ running
  /\ raw' = r
  /\ task' = TaskAfter(shown, r) /\ shown' = ShownAfter(shown, r)
  /\ cached' = FALSE /\ live' = TRUE
  /\ held' = IF Suppresses(shown, r) THEN held ELSE 0
  /\ Save
  /\ UNCHANGED <<running, healthy, disk, restarts>>

StillHeld == Suppresses(shown, raw)

\* The grace period is over: the zero is shown unless it no longer stands.
ConfirmZero ==
  /\ running /\ task = 0
  /\ task' = Unknown
  /\ IF StillHeld THEN shown' = raw.rpm /\ held' = 0 /\ Save
     ELSE UNCHANGED <<shown, held, saving>>
  /\ UNCHANGED <<running, raw, cached, healthy, disk, restarts, live>>

BugMarksCached == FALSE

\* async_handle_status: an unhealthy stream makes what is shown cached.
MarksCached == ~healthy /\ shown # Unknown

HandleStatus ==
  /\ running
  /\ cached' = (cached \/ MarksCached)
  /\ live' = (live /\ healthy)
  /\ UNCHANGED <<running, raw, shown, task, healthy, saving, disk, restarts, held>>

\* The stream becomes healthy with a report or unhealthy with time; the
\* client notifies the coordinator of status at other moments.
StreamChanges ==
  /\ running
  /\ healthy' = ~healthy
  /\ UNCHANGED <<running, raw, shown, task, cached, saving, disk, restarts, held, live>>

-----------------------------------------------------------------------------
\* The store writes what the coordinator holds at that moment.
Write ==
  /\ saving = 0
  /\ saving' = Unknown
  /\ disk' = [raw |-> raw, shown |-> shown]
  /\ UNCHANGED <<running, raw, shown, task, cached, healthy, restarts, held, live>>

\* Home Assistant ends, with or without a last write of the store.
Down ==
  /\ running /\ restarts < MaxRestarts
  /\ running' = FALSE /\ restarts' = restarts + 1
  /\ disk' \in {disk, IF saving # Unknown THEN [raw |-> raw, shown |-> shown] ELSE disk}
  /\ task' = Unknown /\ saving' = Unknown /\ held' = 0 /\ healthy' = FALSE
  /\ raw' = Nothing /\ shown' = Unknown /\ cached' = FALSE /\ live' = FALSE

\* async_load_cache: today's rules are applied to what was stored.
Up ==
  /\ ~running /\ running' = TRUE
  /\ raw' = disk.raw
  /\ IF disk.shown = Unknown /\ disk.raw = Nothing
     THEN UNCHANGED <<shown, task, cached>>
     ELSE /\ task' = TaskAfter(disk.shown, disk.raw)
          /\ shown' = ShownAfter(disk.shown, disk.raw)
          /\ cached' = TRUE
  /\ UNCHANGED <<healthy, saving, disk, restarts, held, live>>

Due == task = 0 \/ saving = 0

Tick ==
  /\ running /\ ~Due
  /\ task' = IF task > 0 THEN task - 1 ELSE task
  /\ saving' = IF saving > 0 THEN saving - 1 ELSE saving
  /\ held' = IF ~Suppresses(shown, raw) THEN 0
             ELSE IF held > Grace THEN held ELSE held + 1
  /\ UNCHANGED <<running, raw, shown, cached, healthy, disk, restarts, live>>

Next ==
  \/ \E r \in Reports : HandleState(r)
  \/ ConfirmZero \/ HandleStatus \/ StreamChanges \/ Write \/ Down \/ Up \/ Tick

Spec == Init /\ [][Next]_vars

\* Time passes, what is due runs, and Home Assistant comes up again.
FairSpec == Spec /\ WF_vars(Tick) /\ WF_vars(ConfirmZero) /\ WF_vars(Write) /\ WF_vars(Up)
-----------------------------------------------------------------------------
\* The variables hold what their comments say; no hold is longer than Grace.
TypeOK ==
  /\ running \in BOOLEAN /\ cached \in BOOLEAN /\ healthy \in BOOLEAN /\ live \in BOOLEAN
  /\ raw \in Reports \cup {Nothing}
  /\ shown \in Speeds \cup {0, Unknown}
  /\ disk \in [raw : Reports \cup {Nothing}, shown : Speeds \cup {0, Unknown}]
  /\ task \in 0..Grace \cup {Unknown} /\ saving \in 0..SaveDelay \cup {Unknown}
  /\ restarts \in 0..MaxRestarts /\ held \in Nat

Truthful(s, r) == s = r.rpm \/ (s \in Speeds /\ r.rpm = 0 /\ r.demand)

\* What is shown, and what a restart will find on disk, is the reported speed,
\* or an earlier speed in place of a zero that contradicts a standing demand:
\* a genuine pump-off is shown as zero at once.
ShownTruthfully == Truthful(shown, raw) /\ Truthful(disk.shown, disk.raw)

\* A zero is held back for the grace period at most, however many updates
\* come meanwhile, and a hold that a restart resumes is not endless either.
HeldWithinGrace == held <= Grace

\* A hold that is pending is the hold of a zero that still stands; and a zero
\* that is held back is always due to be shown.
HoldMatches == running => (task # Unknown <=> shown # raw.rpm)

\* What is called live came in a report since the start of the client, and
\* since the coordinator was last told that the stream is unhealthy.
LiveIsLive == running /\ shown # Unknown /\ ~cached => live

\* A demanded zero that persists is shown in the end, unless Home Assistant
\* ends first.
ZeroIsShown ==
  (running /\ raw.rpm = 0) ~> (shown = 0 \/ raw.rpm # 0 \/ ~running)
=============================================================================
