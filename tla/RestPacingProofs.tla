-------------------------- MODULE RestPacingProofs --------------------------
(***************************************************************************)
(* Machine-checked proofs about RestPacing, for every number of callers    *)
(* and for all intervals, holds and server delays.                         *)
(***************************************************************************)
EXTENDS RestPacing, TLAPS

USE PacingAssumption

\* Backing off stays between the base and the cap and never speeds up; one
\* step of recovery stays within bounds and takes a quarter off at most.
LEMMA IntervalBounds ==
  ASSUME interval \in Base..MaxInterval
  PROVE  /\ BackedOff \in Base..MaxInterval /\ BackedOff >= interval
         /\ Eased \in Base..MaxInterval
         /\ 4 * Eased >= 3 * interval - 3
  BY DEF BackedOff, Eased, Less, More

\* What a 429 asks for is never cut short.
LEMMA CooldownBounds ==
  ASSUME interval \in Base..MaxInterval, cooldown \in Nat, NEW ra \in Nat
  PROVE  /\ CooldownAfter(ra) \in Nat
         /\ CooldownAfter(ra) >= cooldown
         /\ CooldownAfter(ra) >= ra /\ CooldownAfter(ra) >= BackedOff
  BY IntervalBounds DEF CooldownAfter, Delay, More

\* The lock: leaving frees it exactly if the reader held it.
LEMMA LeaveKeepsLock ==
  ASSUME TypeOK, OneRequest, NEW r \in Readers, Leave(r)
  PROVE  /\ pc' \in [Readers -> {"idle", "queued", "auth", "v1", "v2", "done"}]
         /\ holder' \in Readers \cup {NoReader}
         /\ OneRequest'
         /\ \A q \in Readers : pc'[q] \in {"auth", "v1", "v2"} =>
                                 pc[q] \in {"auth", "v1", "v2"}
  BY DEF TypeOK, OneRequest, Leave, Readers

PacingInv == TypeOK /\ OneRequest /\ SilentInCooldown /\ HonestCounts

\* Types, the lock, the gate and the counts are inductive together.
THEOREM PacingCorrect == Spec => []PacingInv
<1>1. Init => PacingInv
  BY DEF Init, PacingInv, TypeOK, OneRequest, SilentInCooldown, HonestCounts
<1>2. PacingInv /\ [Next]_vars => PacingInv'
  <2> SUFFICES ASSUME PacingInv, [Next]_vars PROVE PacingInv'
    OBVIOUS
  <2> USE DEF PacingInv, TypeOK, OneRequest, SilentInCooldown, HonestCounts,
              vars, pacing, history
  <2>1. ASSUME NEW r \in Readers, Call(r) PROVE PacingInv'
    BY <2>1 DEF Call
  <2>2. ASSUME NEW r \in Readers, Defer(r) PROVE PacingInv'
    BY <2>2, LeaveKeepsLock DEF Defer, Eligible
  <2>3. ASSUME NEW r \in Readers, Acquire(r) PROVE PacingInv'
    BY <2>3, LeaveKeepsLock DEF Acquire, Eligible
  <2>4. ASSUME NEW r \in Readers, Authenticated(r) PROVE PacingInv'
    BY <2>4 DEF Authenticated
  <2>5. ASSUME NEW r \in Readers, Succeed(r) PROVE PacingInv'
    BY <2>5, LeaveKeepsLock, IntervalBounds DEF Succeed, NewHold, Less
  <2>6. ASSUME NEW r \in Readers, Unsupported(r) PROVE PacingInv'
    BY <2>6, LeaveKeepsLock DEF Unsupported, Setback
  <2>7. ASSUME NEW r \in Readers, Fail(r) PROVE PacingInv'
    BY <2>7, LeaveKeepsLock DEF Fail, Setback
  <2>8. ASSUME NEW r \in Readers, Cancel(r) PROVE PacingInv'
    BY <2>8, LeaveKeepsLock DEF Cancel
  <2>9. ASSUME NEW r \in Readers, NEW ra \in RetryAfters, RateLimited(r, ra)
        PROVE  PacingInv'
    <3>1. \A q \in Readers : pc'[q] \notin {"auth", "v1", "v2"}
      BY <2>9 DEF RateLimited, Leave
    <3>2. ra \in Nat
      OBVIOUS
    <3> QED BY <2>9, <3>1, <3>2, LeaveKeepsLock, IntervalBounds, CooldownBounds
            DEF RateLimited, Setback, NewHold
  <2>10. CASE PollSleeps
    BY <2>10 DEF PollSleeps, NapLength, Less, More, Readers
  <2>11. CASE Tick
    BY <2>11 DEF Tick, Less, More
  <2>12. CASE UNCHANGED vars
    BY <2>12
  <2> QED BY <2>1, <2>2, <2>3, <2>4, <2>5, <2>6, <2>7, <2>8, <2>9, <2>10, <2>11, <2>12
          DEF Next, Answer, Gate
<1> QED BY <1>1, <1>2, PTL DEF Spec

\* No login and no HTTP request during a cooldown.
THEOREM CooldownIsSilent == Spec => []SilentInCooldown
<1>1. PacingInv => SilentInCooldown
  BY DEF PacingInv
<1> QED BY <1>1, PacingCorrect, PTL

\* One reader at a time is past the gate, and it is the one with the lock.
THEOREM OneRequestAtATime == Spec => []OneRequest
<1>1. PacingInv => OneRequest
  BY DEF PacingInv
<1> QED BY <1>1, PacingCorrect, PTL

\* The hold and the count of successes never run ahead of what happened.
THEOREM CountsAreHonest == Spec => []HonestCounts
<1>1. PacingInv => HonestCounts
  BY DEF PacingInv
<1> QED BY <1>1, PacingCorrect, PTL

\* Nothing but the clock shortens a cooldown, and a 429 waits at least as long
\* as the server asked and as the new interval.
THEOREM CooldownHonoured == Spec => ServerMinimum
<1>1. PacingInv /\ [Next]_vars =>
        [/\ cooldown' < cooldown => Tick
         /\ \A r \in Readers, ra \in RetryAfters :
              RateLimited(r, ra) => cooldown' >= ra /\ cooldown' >= interval']_vars
  <2> SUFFICES ASSUME PacingInv, Next
               PROVE  /\ cooldown' < cooldown => Tick
                      /\ \A r \in Readers, ra \in RetryAfters :
                           RateLimited(r, ra) => /\ cooldown' >= ra
                                                 /\ cooldown' >= interval'
    BY DEF vars
  <2>1. interval \in Base..MaxInterval /\ cooldown \in Nat
    BY DEF PacingInv, TypeOK
  <2>2. ASSUME NEW r \in Readers, NEW ra \in RetryAfters, RateLimited(r, ra)
        PROVE  cooldown' >= ra /\ cooldown' >= interval' /\ cooldown' >= cooldown
    <3>1. ra \in Nat
      OBVIOUS
    <3> QED BY <2>1, <2>2, <3>1, CooldownBounds DEF RateLimited
  <2>3. ASSUME cooldown' # cooldown
        PROVE  Tick \/ \E r \in Readers, ra \in RetryAfters : RateLimited(r, ra)
    BY <2>3 DEF Next, Call, Gate, Defer, Acquire, Answer, Authenticated, Succeed,
                Unsupported, Fail, Cancel, PollSleeps, pacing
  <2>4. cooldown' < cooldown => Tick
    <3> SUFFICES ASSUME cooldown' < cooldown, ~Tick PROVE FALSE
      OBVIOUS
    <3>1. cooldown' # cooldown
      BY <2>1
    <3>2. PICK r \in Readers, ra \in RetryAfters : RateLimited(r, ra)
      BY <3>1, <2>3
    <3> QED BY <3>2, <2>2, <2>1 DEF RateLimited, CooldownAfter, Delay, More
  <2> QED BY <2>2, <2>4
<1> QED BY <1>1, PacingCorrect, PTL DEF Spec, ServerMinimum

\* A faster poll interval is always earned: the hold has really passed, the
\* reads really were in a row, and one step takes off a quarter at most.
THEOREM RecoveryIsEarned == Spec => SlowRecovery
<1>1. PacingInv /\ [Next]_vars =>
        [interval' < interval =>
           /\ quiet = Hold
           /\ streak' >= Needed
           /\ 4 * interval' >= 3 * interval - 3]_vars
  <2> SUFFICES ASSUME PacingInv, Next, interval' < interval
               PROVE  /\ quiet = Hold
                      /\ streak' >= Needed
                      /\ 4 * interval' >= 3 * interval - 3
    BY DEF vars
  <2>1. /\ interval \in Base..MaxInterval
        /\ successes \in Nat /\ streak \in Nat /\ successes <= streak
        /\ quiet \in 0..Hold /\ quiet + hold >= Hold
    BY DEF PacingInv, TypeOK, HonestCounts
  <2>2. ~\E r \in Readers, ra \in RetryAfters : RateLimited(r, ra)
    BY <2>1, IntervalBounds DEF RateLimited
  <2>3. PICK r \in Readers : Succeed(r)
    BY <2>1, <2>2 DEF Next, Call, Gate, Defer, Acquire, Answer, Authenticated,
                      Unsupported, Fail, Cancel, PollSleeps, Tick, pacing
  <2>4. /\ MayEase(Less(Needed, successes + 1)) /\ interval' = Eased
        /\ streak' = Less(Needed, streak + 1)
    BY <2>1, <2>3 DEF Succeed
  <2> QED BY <2>1, <2>4, IntervalBounds DEF MayEase, Less
<1> QED BY <1>1, PacingCorrect, PTL DEF Spec, SlowRecovery

-----------------------------------------------------------------------------
(* Progress of the readers.                                                *)

\* The reader with the lock is at p; reader r is past the gate, in front of
\* it, or back.
Free == holder = NoReader
HolderAt(p) == holder # NoReader /\ pc[holder] = p
Past(r) == pc[r] \in {"auth", "v1", "v2"}
Waits(r) == pc[r] = "queued"
Back(r) == pc[r] = "idle"

\* What one step does to the reader with the lock.
HolderOn(p) ==
  /\ p = "auth" => (HolderAt("auth") \/ HolderAt("v1") \/ Free)'
  /\ p = "v1" => (HolderAt("v1") \/ HolderAt("v2") \/ Free)'
  /\ p = "v2" => (HolderAt("v2") \/ Free)'
  /\ RequestAnswered => /\ p = "auth" => (HolderAt("v1") \/ Free)'
                        /\ p # "auth" => Free'

LEMMA HolderAdvances ==
  ASSUME PacingInv, [Next]_vars, NEW h \in Readers, holder = h
  PROVE  HolderOn(pc[h])
<1> USE DEF vars, pacing, history
<1>1. /\ pc[h] \in {"auth", "v1", "v2"} /\ h # NoReader
      /\ \A q \in Readers : q # h => ~Past(q)
      /\ pc \in [Readers -> {"idle", "queued", "auth", "v1", "v2", "done"}]
  BY DEF PacingInv, TypeOK, OneRequest, Past
<1>2. ASSUME Free' PROVE HolderOn(pc[h])
  BY <1>1, <1>2 DEF HolderOn
<1>3. ASSUME holder' = holder, pc'[h] = pc[h], ~RequestAnswered PROVE HolderOn(pc[h])
  BY <1>1, <1>3 DEF HolderOn, HolderAt
<1>4. ASSUME NEW r \in Readers, Leave(r), r = h PROVE HolderOn(pc[h])
  BY <1>2, <1>4 DEF Leave, Free
<1>5. ASSUME NEW r \in Readers, Leave(r), r # h, ~RequestAnswered PROVE HolderOn(pc[h])
  BY <1>1, <1>3, <1>5 DEF Leave
<1>6. CASE RequestAnswered
  <2>1. PICK r \in Readers : Answer(r)
    BY <1>6 DEF RequestAnswered
  <2>2. r = h
    BY <1>1, <2>1 DEF Answer, Authenticated, Succeed, Past
  <2>3. CASE Authenticated(r)
    BY <1>1, <2>2, <2>3 DEF Authenticated, HolderOn, HolderAt
  <2>4. CASE Succeed(r)
    BY <1>4, <2>2, <2>4 DEF Succeed
  <2> QED BY <2>1, <2>3, <2>4 DEF Answer
<1>7. CASE ~RequestAnswered
  <2>1. ASSUME NEW r \in Readers, Call(r) \/ Gate(r) PROVE HolderOn(pc[h])
    <3>1. r # h
      BY <1>1, <2>1 DEF Call, Gate, Defer, Acquire
    <3>2. ~Gate(r)
      BY <1>1 DEF Gate, Defer, Acquire
    <3>3. holder' = holder /\ pc'[h] = pc[h]
      BY <1>1, <2>1, <3>1, <3>2 DEF Call
    <3> QED BY <1>3, <1>7, <3>3
  <2>2. ASSUME NEW r \in Readers, Unsupported(r) PROVE HolderOn(pc[h])
    <3>1. CASE Leave(r)
      BY <1>4, <1>5, <1>7, <3>1
    <3>2. CASE pc[r] = "v1" /\ pc' = [pc EXCEPT ![r] = "v2"] /\ UNCHANGED holder
      <4>1. r = h
        BY <1>1, <3>2 DEF Past
      <4> QED BY <1>1, <1>7, <3>2, <4>1 DEF HolderOn, HolderAt
    <3> QED BY <2>2, <3>1, <3>2 DEF Unsupported
  <2>3. ASSUME NEW r \in Readers, Fail(r) \/ Cancel(r) \/ \E ra \in RetryAfters : RateLimited(r, ra)
        PROVE  HolderOn(pc[h])
    BY <1>4, <1>5, <1>7, <2>3 DEF Fail, Cancel, RateLimited
  <2>4. CASE PollSleeps
    <3>1. h # Poll
      BY <1>1, <2>4 DEF PollSleeps
    <3> QED BY <1>1, <1>3, <1>7, <2>4, <3>1 DEF PollSleeps
  <2>5. CASE Tick \/ UNCHANGED vars
    BY <1>3, <1>7, <2>5 DEF Tick
  <2> QED BY <1>7, <2>1, <2>2, <2>3, <2>4, <2>5 DEF Next, RequestAnswered
<1> QED BY <1>6, <1>7

\* What one step does to a caller.
LEMMA CallerAdvances ==
  ASSUME PacingInv, [Next]_vars, NEW r \in Callers
  PROVE  /\ Waits(r) => (Waits(r) \/ Past(r) \/ Back(r))'
         /\ Past(r) => (Past(r) \/ Back(r))'
         /\ Gate(r) => ~Waits(r)'
         /\ Free => ~Past(r)
<1> USE DEF Waits, Past, Back, vars, pacing, history
<1>1. /\ r \in Readers /\ r # Poll /\ pc \in [Readers -> {"idle", "queued", "auth", "v1", "v2", "done"}]
      /\ holder = NoReader => ~Past(r)
  BY DEF PacingInv, TypeOK, OneRequest, Readers
<1>2. ASSUME NEW q \in Readers, Leave(q) PROVE pc'[r] = pc[r] \/ pc'[r] = "idle"
  BY <1>1, <1>2 DEF Leave
<1>3. Gate(r) => ~Waits(r)'
  BY <1>1 DEF Gate, Defer, Acquire, Leave
<1>4. ASSUME NEW q \in Readers, NEW p, pc' = [pc EXCEPT ![q] = p]
      PROVE  pc'[r] = IF q = r THEN p ELSE pc[r]
  BY <1>1, <1>4
<1>5. pc'[r] \in {pc[r], "idle"} \/ (pc[r] \notin {"queued", "auth", "v1", "v2"})
      \/ pc'[r] \in {"auth", "v1", "v2"}
  <2>1. ASSUME NEW q \in Readers, Call(q) \/ Authenticated(q)
        PROVE  pc'[r] = pc[r] \/ pc[r] = "idle" \/ pc'[r] = "v1"
    BY <1>4, <2>1 DEF Call, Authenticated
  <2>2. ASSUME NEW q \in Readers, Gate(q) PROVE pc'[r] \in {pc[r], "idle", "auth"}
    BY <1>2, <1>4, <2>2 DEF Gate, Defer, Acquire
  <2>3. ASSUME NEW q \in Readers, Unsupported(q) PROVE pc'[r] \in {pc[r], "idle", "v2"}
    BY <1>2, <1>4, <2>3 DEF Unsupported
  <2>4. ASSUME NEW q \in Readers, \/ Succeed(q) \/ Fail(q) \/ Cancel(q)
                                  \/ \E ra \in RetryAfters : RateLimited(q, ra)
        PROVE  pc'[r] \in {pc[r], "idle"}
    BY <1>2, <2>4 DEF Succeed, Fail, Cancel, RateLimited
  <2>5. CASE PollSleeps
    BY <1>1, <2>5 DEF PollSleeps
  <2>6. CASE Tick \/ UNCHANGED vars
    BY <2>6 DEF Tick
  <2> QED BY <2>1, <2>2, <2>3, <2>4, <2>5, <2>6 DEF Next, Answer
<1>6. Past(r) => ~Waits(r)'
  <2>1. ASSUME NEW q \in Readers, Call(q), Past(r) PROVE ~Waits(r)'
    BY <1>4, <2>1 DEF Call
  <2> QED BY <1>5
<1> QED BY <1>1, <1>3, <1>5, <1>6 DEF Free

\* The request that there is gets its answer, so the lock becomes free.
LEMMA LockFreed == FairSpec /\ []PacingInv /\ []ReadersCanStep => []<>Free
<1>1. PacingInv => Free \/ HolderAt("auth") \/ HolderAt("v1") \/ HolderAt("v2")
  BY DEF PacingInv, TypeOK, OneRequest, Free, HolderAt
<1>2. PacingInv /\ [Next]_vars =>
        /\ HolderAt("auth") => (HolderAt("auth") \/ HolderAt("v1") \/ Free)'
        /\ HolderAt("v1") => (HolderAt("v1") \/ HolderAt("v2") \/ Free)'
        /\ HolderAt("v2") => (HolderAt("v2") \/ Free)'
  BY HolderAdvances DEF HolderAt, HolderOn, PacingInv, TypeOK
<1>3. PacingInv /\ [Next]_vars /\ <<RequestAnswered>>_vars =>
        /\ HolderAt("auth") => (HolderAt("v1") \/ Free)'
        /\ HolderAt("v1") \/ HolderAt("v2") => Free'
  BY HolderAdvances DEF HolderAt, HolderOn, PacingInv, TypeOK
<1>4. ReadersCanStep => Free \/ ENABLED <<RequestAnswered>>_vars
  BY DEF ReadersCanStep, Free
<1>5. Fairness => WF_vars(RequestAnswered)
  BY PTL DEF Fairness
<1> QED BY <1>1, <1>2, <1>3, <1>4, <1>5, PTL DEF FairSpec, Spec

Returns(r) == pc[r] = "queued" ~> pc[r] = "idle"

\* Every reader gets an answer, a deferral or an error, if none is at a dead
\* end: nobody keeps the lock, however long the others queue for it.
THEOREM EveryReadReturns == FairSpec /\ []ReadersCanStep => ReadsReturn
<1>1. ASSUME NEW r \in Callers
      PROVE  FairSpec /\ []PacingInv /\ []ReadersCanStep => Returns(r)
  <2>1. PacingInv /\ [Next]_vars =>
          /\ Waits(r) => (Waits(r) \/ Past(r) \/ Back(r))'
          /\ Past(r) => (Past(r) \/ Back(r))'
    BY CallerAdvances
  <2>2. PacingInv /\ [Next]_vars /\ <<Gate(r)>>_vars => ~Waits(r)'
    BY CallerAdvances
  <2>3. PacingInv /\ Free => ~Past(r)
    <3>1. r \in Readers
      BY DEF Readers
    <3> QED BY <3>1 DEF PacingInv, OneRequest, Past, Free
  <2>4. ReadersCanStep => (Waits(r) /\ Free => ENABLED <<Gate(r)>>_vars)
    <3>1. r \in Readers
      BY DEF Readers
    <3> QED BY <3>1 DEF ReadersCanStep, Waits, Free
  <2>5. Fairness => FairTo(r)
    <3>1. FairLock => FairTo(r)
      BY DEF FairLock, Readers
    <3> QED BY <3>1, PTL DEF Fairness
  <2>6. (pc[r] = "queued" <=> Waits(r)) /\ (pc[r] = "idle" <=> Back(r))
    BY DEF Waits, Back
  <2>7. Past(r) => ~Waits(r)
    BY DEF Past, Waits
  <2> QED BY <2>1, <2>2, <2>3, <2>4, <2>5, <2>6, <2>7, LockFreed, PTL
          DEF FairSpec, Spec, FairTo, Returns
<1>2. FairSpec /\ []PacingInv /\ []ReadersCanStep => \A r \in Callers : Returns(r)
  BY <1>1
<1>3. FairSpec /\ []PacingInv /\ []ReadersCanStep => ReadsReturn
  BY <1>2 DEF ReadsReturn, Returns
<1>4. FairSpec => []PacingInv
  BY PacingCorrect, PTL DEF FairSpec
<1> QED BY <1>3, <1>4
=============================================================================
