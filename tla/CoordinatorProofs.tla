-------------------------- MODULE CoordinatorProofs --------------------------
(***************************************************************************)
(* Machine-checked proofs about Coordinator, for every set of speeds and   *)
(* for every grace period and delay of the store.                          *)
(***************************************************************************)
EXTENDS Coordinator, TLAPS

USE CoordinatorAssumption

\* While a zero is held back, its task and the time it has been held for add
\* up to the grace period at most; nothing is held back while down.
HoldInv ==
  /\ running /\ task # Unknown => held + task <= Grace
  /\ task = Unknown => held = 0
  /\ ~running => raw = Nothing /\ shown = Unknown /\ task = Unknown

ShownInv == TypeOK /\ ShownTruthfully /\ HoldMatches /\ LiveIsLive /\ HoldInv

\* A report leaves what is shown truthful and a task pending for a held zero.
LEMMA Filtered ==
  ASSUME NEW before \in Speeds \cup {0, Unknown},
         NEW r \in Reports \cup {Nothing},
         TypeOK, r = Nothing => before = Unknown
  PROVE  /\ ShownAfter(before, r) \in Speeds \cup {0, Unknown}
         /\ TaskAfter(before, r) \in 0..Grace \cup {Unknown}
         /\ Truthful(ShownAfter(before, r), r)
         /\ TaskAfter(before, r) # Unknown <=> ShownAfter(before, r) # r.rpm
         /\ TaskAfter(before, r) # Unknown <=> Suppresses(before, r)
<1> USE DEF Unknown
<1>1. before \in Int /\ (before > 0 => before \in Speeds) /\ -1 \notin 0..Grace
  OBVIOUS
<1>2. task \in 0..Grace \cup {-1}
  BY DEF TypeOK
<1>3. CASE r = Nothing
  BY <1>1, <1>2, <1>3 DEF ShownAfter, TaskAfter, Suppresses, Truthful, Nothing
<1>4. CASE r \in Reports
  <2>1. r.rpm \in Speeds \cup {0} /\ r.rpm # -1
    BY <1>4 DEF Reports
  <2>2. CASE Suppresses(before, r)
    BY <1>1, <1>2, <2>1, <2>2 DEF ShownAfter, TaskAfter, Suppresses, Truthful
  <2>3. CASE ~Suppresses(before, r)
    BY <1>1, <1>2, <2>1, <2>3 DEF ShownAfter, TaskAfter, Truthful
  <2> QED BY <2>2, <2>3
<1> QED BY <1>3, <1>4

\* What is shown, now and after a restart, is truthful; a pending task stands
\* for a held zero; live values are live.
THEOREM ShownCorrect == Spec => []ShownInv
<1>1. Init => ShownInv
  <2> SUFFICES ASSUME Init PROVE ShownInv
    OBVIOUS
  <2>1. Nothing.rpm = Unknown /\ Truthful(Unknown, Nothing)
    BY DEF Truthful, Nothing
  <2>2. disk.raw = Nothing /\ disk.shown = Unknown
    BY DEF Init
  <2>3. TypeOK
    <3>1. 0 \in 0..MaxRestarts /\ 0 \in Nat
      OBVIOUS
    <3>2. disk = [raw |-> Nothing, shown |-> Unknown] /\ restarts = 0 /\ held = 0
      BY DEF Init
    <3>3. disk \in [raw : Reports \cup {Nothing}, shown : Speeds \cup {0, Unknown}]
      BY <3>2
    <3>4. running \in BOOLEAN /\ cached \in BOOLEAN /\ healthy \in BOOLEAN /\ live \in BOOLEAN
      BY DEF Init
    <3>5. raw = Nothing /\ shown = Unknown /\ task = Unknown /\ saving = Unknown
      BY DEF Init
    <3> QED BY <3>1, <3>2, <3>3, <3>4, <3>5 DEF TypeOK
  <2> QED BY <2>1, <2>2, <2>3
          DEF Init, ShownInv, ShownTruthfully, HoldMatches, LiveIsLive, HoldInv
<1>2. ShownInv /\ [Next]_vars => ShownInv'
  <2> SUFFICES ASSUME ShownInv, [Next]_vars PROVE ShownInv'
    OBVIOUS
  <2> USE DEF ShownInv, TypeOK, ShownTruthfully, HoldMatches, LiveIsLive, HoldInv, Unknown
  <2>1. ASSUME NEW r \in Reports, HandleState(r) PROVE ShownInv'
    <3>1. r # Nothing
      BY DEF Reports, Nothing
    <3>2. raw' = r /\ shown' = ShownAfter(shown, r) /\ task' = TaskAfter(shown, r)
      BY <2>1 DEF HandleState
    <3>3. /\ shown' \in Speeds \cup {0, Unknown} /\ task' \in 0..Grace \cup {Unknown}
          /\ Truthful(shown', r) /\ (task' # Unknown <=> shown' # r.rpm)
          /\ (task' # Unknown <=> Suppresses(shown, r))
      BY <3>1, <3>2, Filtered
    <3>4. task' # Unknown => held' + task' <= Grace
      BY <2>1, <3>2, <3>3 DEF HandleState, TaskAfter
    <3>5. /\ running' = running /\ cached' = FALSE /\ live' = TRUE /\ running
          /\ UNCHANGED <<healthy, disk, restarts>> /\ saving' = SaveDelay
          /\ held' = (IF Suppresses(shown, r) THEN held ELSE 0)
      BY <2>1 DEF HandleState, Save
    <3>6. TypeOK'
      <4>1. raw' \in Reports \cup {Nothing} /\ shown' \in Speeds \cup {0, Unknown}
        BY <2>1, <3>2, <3>3
      <4>2. saving' \in 0..SaveDelay \cup {Unknown} /\ held' \in Nat
        BY <3>5
      <4>3. disk' \in [raw : Reports \cup {Nothing}, shown : Speeds \cup {0, Unknown}]
        BY <3>5
      <4> QED BY <3>3, <3>5, <4>1, <4>2, <4>3
    <3>7. task' = Unknown => held' = 0
      BY <3>3, <3>5
    <3>8. ShownTruthfully' /\ HoldMatches' /\ LiveIsLive'
      BY <3>2, <3>3, <3>5
    <3> QED BY <3>4, <3>5, <3>6, <3>7, <3>8
  <2>2. CASE ConfirmZero
    BY <2>2 DEF ConfirmZero, StillHeld, Suppresses, Save, Truthful, Reports, Nothing
  <2>3. CASE HandleStatus
    BY <2>3 DEF HandleStatus, MarksCached
  <2>4. CASE StreamChanges
    BY <2>4 DEF StreamChanges
  <2>5. CASE Write
    BY <2>5 DEF Write
  <2>6. CASE Down
    <3>1. disk' = disk \/ disk' = [raw |-> raw, shown |-> shown]
      BY <2>6 DEF Down
    <3>2. disk' \in [raw : Reports \cup {Nothing}, shown : Speeds \cup {0, Unknown}]
      BY <3>1
    <3>3. Truthful(disk'.shown, disk'.raw)
      BY <3>1
    <3>4. Truthful(Unknown, Nothing) /\ Nothing.rpm = Unknown
      BY DEF Truthful, Nothing
    <3>5. restarts' \in 0..MaxRestarts
      BY <2>6 DEF Down
    <3> QED BY <2>6, <3>2, <3>3, <3>4, <3>5 DEF Down
  <2>7. CASE Up
    <3>1. disk.raw = Nothing => disk.shown = Unknown
      BY DEF Truthful, Nothing
    <3>2. CASE disk.shown = Unknown /\ disk.raw = Nothing
      BY <2>7, <3>2 DEF Up, Truthful, Nothing
    <3>3. CASE ~(disk.shown = Unknown /\ disk.raw = Nothing)
      <4>1. /\ raw' = disk.raw /\ shown' = ShownAfter(disk.shown, disk.raw)
            /\ task' = TaskAfter(disk.shown, disk.raw) /\ cached' = TRUE /\ held' = 0
            /\ UNCHANGED <<healthy, saving, disk, restarts, live>> /\ running' = TRUE
        BY <2>7, <3>3 DEF Up
      <4>2. /\ shown' \in Speeds \cup {0, Unknown} /\ task' \in 0..Grace \cup {Unknown}
            /\ Truthful(shown', raw') /\ (task' # Unknown <=> shown' # raw'.rpm)
        BY <3>1, <4>1, Filtered
      <4>3. held' + task' <= Grace \/ task' = Unknown
        BY <4>1, <4>2
      <4> QED BY <4>1, <4>2, <4>3
    <3> QED BY <3>2, <3>3
  <2>8. CASE Tick
    BY <2>8 DEF Tick, Due, Suppresses, Truthful, Reports, Nothing
  <2>9. CASE UNCHANGED vars
    BY <2>9 DEF vars
  <2> QED BY <2>1, <2>2, <2>3, <2>4, <2>5, <2>6, <2>7, <2>8, <2>9 DEF Next
<1> QED BY <1>1, <1>2, PTL DEF Spec

\* No zero is held back for longer than the grace period.
THEOREM HeldBriefly == Spec => []HeldWithinGrace
<1>1. ShownInv => HeldWithinGrace
  BY DEF ShownInv, TypeOK, HoldInv, HeldWithinGrace, Unknown
<1> QED BY <1>1, ShownCorrect, PTL

\* The speed shown and the speed on disk are truthful.
THEOREM TruthShown == Spec => []ShownTruthfully
<1>1. ShownInv => ShownTruthfully
  BY DEF ShownInv
<1> QED BY <1>1, ShownCorrect, PTL

\* A task is pending exactly as long as what is shown is not what is reported.
THEOREM HoldIsMatched == Spec => []HoldMatches
<1>1. ShownInv => HoldMatches
  BY DEF ShownInv
<1> QED BY <1>1, ShownCorrect, PTL

\* Values that pass as live have been reported since the stream was bad.
THEOREM LiveIsReported == Spec => []LiveIsLive
<1>1. ShownInv => LiveIsLive
  BY DEF ShownInv
<1> QED BY <1>1, ShownCorrect, PTL
=============================================================================
