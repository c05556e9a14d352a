----------------------------- MODULE RestPacing -----------------------------
(***************************************************************************)
(* The reads of the REST shadow (api.py): one lock and one cooldown shared *)
(* by the poll loop and every explicit reader, the back-off after an HTTP  *)
(* 429, and the slow recovery of the poll interval.                        *)
(*                                                                         *)
(* Deadlines are kept as the time that is left until them, so a tick of    *)
(* the monotonic clock lowers them all. Readers wait for asyncio's lock;   *)
(* that it is first come, first served enters as fairness only. The lock,  *)
(* the clock and the server are outside src/.                              *)
(***************************************************************************)
EXTENDS Integers

CONSTANTS
  Callers,      \* explicit readers: setup, services, timeout refreshes
  Poll,         \* the reader of _shadow_loop
  NoReader,     \* nobody holds the lock
  Base,         \* SHADOW_INTERVAL
  MaxInterval,  \* SHADOW_RATE_LIMIT_MAX_INTERVAL
  Hold,         \* SHADOW_RATE_LIMIT_RECOVERY_SECONDS
  Needed,       \* SHADOW_RATE_LIMIT_RECOVERY_SUCCESSES
  RetryAfters,  \* delays the server asks for, 0 for none
  MaxSetbacks   \* bound on responses that are not a success

Readers == Callers \cup {Poll}

ASSUME PacingAssumption ==
  /\ Poll \notin Callers /\ NoReader \notin Readers
  /\ Base \in Nat \ {0} /\ MaxInterval \in Nat /\ 2 * Base <= MaxInterval
  /\ Hold \in Nat /\ Needed \in Nat \ {0}
  /\ RetryAfters \subseteq Nat /\ MaxSetbacks \in Nat

VARIABLES
  pc,         \* where each reader is
  holder,     \* who holds _shadow_lock
  interval,   \* shadow_poll_interval
  cooldown,   \* time left until _shadow_cooldown_until
  hold,       \* time left until _shadow_recovery_not_before
  successes,  \* _shadow_recovery_successes, counted up to Needed
  supported,  \* shadow_supported: "unknown", "yes" or "no"
  nap,        \* time left of the poll loop's sleep
  setbacks,   \* how much of MaxSetbacks is used
  quiet,      \* history: time since the last 429 or reduction, up to Hold
  streak      \* history: successful reads since anything else, up to Needed

pacing  == <<interval, cooldown, hold, successes, supported>>
history == <<setbacks, quiet, streak>>
vars    == <<pc, holder, pacing, nap, history>>

Less(a, b) == IF a <= b THEN a ELSE b
More(a, b) == IF a >= b THEN a ELSE b

Init ==
  /\ pc = [r \in Readers |-> "idle"] /\ holder = NoReader
  /\ interval = Base /\ cooldown = 0 /\ hold = 0 /\ successes = 0
  /\ supported = "unknown" /\ nap = 0
  /\ setbacks = 0 /\ quiet = Hold /\ streak = 0

-----------------------------------------------------------------------------
(* The policies. The definitions whose names begin with Bug are slips the  *)
(* runs are shown to notice; nothing uses them.                            *)

\* The interval doubles, to at least twice the base and at most the cap.
BackedOff == Less(MaxInterval, More(2 * Base, 2 * interval))

\* The cap is a local policy; what the server asks for is never cut short.
BugDelay(ra) == Less(MaxInterval, More(BackedOff, ra))

Delay(ra) == More(BackedOff, ra)

CooldownAfter(ra) == More(cooldown, Delay(ra))

BugEased == More(2 * Base, (3 * interval) \div 4)

\* One step of recovery: a quarter off, rounded down here, never below base.
Eased == More(Base, (3 * interval) \div 4)

\* A 429 and a reduction each start a new hold.
NewHold == Hold

BugMayEase(n) == interval > Base /\ n >= Needed

MayEase(n) == interval > Base /\ n >= Needed /\ hold = 0

\* How long _shadow_loop sleeps between two reads.
NapLength == Less(MaxInterval, More(interval, cooldown))

BugLeaveKeeps(r) ==
  pc' = [pc EXCEPT ![r] = IF r = Poll THEN "done" ELSE "idle"] /\ UNCHANGED holder

\* A reader leaves async_get_shadow and releases the lock if it holds it.
Leave(r) ==
  /\ pc' = [pc EXCEPT ![r] = IF r = Poll THEN "done" ELSE "idle"]
  /\ holder' = IF holder = r THEN NoReader ELSE holder

Setback == setbacks < MaxSetbacks /\ setbacks' = setbacks + 1

-----------------------------------------------------------------------------
\* A caller, or the poll loop when its sleep is over, asks for the lock. The
\* loop does not read a shadow that turned out to be unsupported.
Call(r) ==
  /\ pc[r] = "idle"
  /\ r = Poll => nap = 0 /\ supported # "no"
  /\ pc' = [pc EXCEPT ![r] = "queued"]
  /\ UNCHANGED <<holder, pacing, nap, history>>

\* The gate: the cooldown is looked at with the lock in hand, because the
\* reader that had it may just have been told to back off.
BugEligible == TRUE

Eligible == cooldown = 0

Defer(r) ==
  /\ pc[r] = "queued" /\ holder = NoReader
  /\ ~Eligible
  /\ Leave(r)
  /\ UNCHANGED <<pacing, nap, history>>

Acquire(r) ==
  /\ pc[r] = "queued" /\ holder = NoReader
  /\ Eligible
  /\ IF supported = "no"
     THEN /\ Leave(r)
          /\ successes' = 0 /\ streak' = 0
          /\ UNCHANGED <<interval, cooldown, hold, supported, setbacks, quiet>>
     ELSE /\ holder' = r /\ pc' = [pc EXCEPT ![r] = "auth"]
          /\ UNCHANGED <<pacing, history>>
  /\ UNCHANGED nap

\* async_ensure_auth came back with a usable token.
Authenticated(r) ==
  /\ pc[r] = "auth"
  /\ pc' = [pc EXCEPT ![r] = "v1"]
  /\ UNCHANGED <<holder, pacing, nap, history>>

\* The endpoint answers 400, 404 or 405, or without state.reported: the v2
\* endpoint is tried next, and after it the shadow is given up for good.
Unsupported(r) ==
  /\ Setback
  /\ \/ /\ pc[r] = "v1"
        /\ pc' = [pc EXCEPT ![r] = "v2"]
        /\ UNCHANGED <<holder, pacing, streak>>
     \/ /\ pc[r] = "v2"
        /\ Leave(r)
        /\ supported' = "no" /\ successes' = 0 /\ streak' = 0
        /\ UNCHANGED <<interval, cooldown, hold>>
  /\ UNCHANGED <<nap, quiet>>

\* Login, transport or any other HTTP error.
Fail(r) ==
  /\ pc[r] \in {"auth", "v1", "v2"}
  /\ Setback
  /\ Leave(r)
  /\ successes' = 0 /\ streak' = 0
  /\ UNCHANGED <<interval, cooldown, hold, supported, nap, quiet>>

\* HTTP 429, with or without a Retry-After.
RateLimited(r, ra) ==
  /\ pc[r] \in {"v1", "v2"}
  /\ Setback
  /\ Leave(r)
  /\ successes' = 0 /\ hold' = NewHold
  /\ interval' = BackedOff
  /\ cooldown' = CooldownAfter(ra)
  /\ streak' = 0 /\ quiet' = 0
  /\ UNCHANGED <<supported, nap>>

Succeed(r) ==
  LET n == Less(Needed, successes + 1) IN
  /\ pc[r] \in {"v1", "v2"}
  /\ Leave(r)
  /\ supported' = "yes"
  /\ IF MayEase(n)
     THEN interval' = Eased /\ successes' = 0 /\ hold' = NewHold /\ quiet' = 0
     ELSE successes' = n /\ UNCHANGED <<interval, hold, quiet>>
  /\ streak' = Less(Needed, streak + 1)
  /\ UNCHANGED <<cooldown, nap, setbacks>>

\* A caller is cancelled, queued or in mid-request: no accounting at all.
Cancel(r) ==
  /\ r # Poll /\ pc[r] # "idle"
  /\ Leave(r)
  /\ UNCHANGED <<pacing, nap, history>>

\* The poll loop has handled the outcome and goes to sleep.
PollSleeps ==
  /\ pc[Poll] = "done"
  /\ pc' = [pc EXCEPT ![Poll] = "idle"]
  /\ nap' = NapLength
  /\ UNCHANGED <<holder, pacing, history>>

\* Time passes.
Tick ==
  /\ cooldown' = More(0, cooldown - 1)
  /\ hold' = More(0, hold - 1)
  /\ nap' = More(0, nap - 1)
  /\ quiet' = Less(Hold, quiet + 1)
  /\ UNCHANGED <<pc, holder, interval, successes, supported, setbacks, streak>>

Answer(r) == Authenticated(r) \/ Succeed(r)

\* There is one request at a time, and it is answered.
RequestAnswered == \E r \in Readers : Answer(r)

\* The lock is a reader's turn: it passes the gate or is turned away.
Gate(r) == Acquire(r) \/ Defer(r)

Next ==
  \/ \E r \in Readers :
       \/ Call(r) \/ Gate(r) \/ Answer(r)
       \/ Unsupported(r) \/ Fail(r) \/ Cancel(r)
       \/ \E ra \in RetryAfters : RateLimited(r, ra)
  \/ PollSleeps
  \/ Tick

Spec == Init /\ [][Next]_vars

\* The lock is first come, first served: every queued reader gets its turn.
FairTo(r) == SF_vars(Gate(r))
FairLock == \A r \in Readers : FairTo(r)

\* Time passes; the one request there is is answered or times out; the
\* lock is fair; and the poll loop keeps running.
Fairness ==
  /\ WF_vars(Tick) /\ WF_vars(PollSleeps) /\ WF_vars(Call(Poll))
  /\ WF_vars(RequestAnswered)
  /\ FairLock

FairSpec == Spec /\ Fairness

-----------------------------------------------------------------------------
\* The variables hold what their comments say: the interval stays between its
\* base and its cap, and no sleep of the poll loop is longer than the cap.
TypeOK ==
  /\ pc \in [Readers -> {"idle", "queued", "auth", "v1", "v2", "done"}]
  /\ holder \in Readers \cup {NoReader}
  /\ interval \in Base..MaxInterval /\ cooldown \in Nat /\ nap \in 0..MaxInterval
  /\ hold \in 0..Hold /\ quiet \in 0..Hold
  /\ successes \in 0..Needed /\ streak \in 0..Needed
  /\ supported \in {"unknown", "yes", "no"} /\ setbacks \in 0..MaxSetbacks

\* Only the holder of the lock is past the gate.
OneRequest == \A r \in Readers : pc[r] \in {"auth", "v1", "v2"} <=> holder = r

\* During a cooldown no reader, however long it was queued, logs in or sends
\* an HTTP request: async_get_shadow's gate stands in front of both.
SilentInCooldown ==
  cooldown > 0 => \A r \in Readers : pc[r] \notin {"auth", "v1", "v2"}

\* The code's own measures never run ahead of what really happened: when the
\* hold is over, so much time has passed; counted successes were in a row.
HonestCounts == quiet + hold >= Hold /\ successes <= streak

\* Nothing but the passing of time shortens a cooldown, and a 429 sets it to
\* no less than the server asked for and than the new interval.
ServerMinimum ==
  [][/\ cooldown' < cooldown => Tick
     /\ \A r \in Readers, ra \in RetryAfters :
          RateLimited(r, ra) => cooldown' >= ra /\ cooldown' >= interval']_vars

\* Polling speeds up only after a full hold without a 429 or an earlier
\* reduction, after enough successful reads in a row, and by a quarter at most.
SlowRecovery ==
  [][interval' < interval =>
       /\ quiet = Hold
       /\ streak' >= Needed
       /\ 4 * interval' >= 3 * interval - 3]_vars

\* Once the setbacks are over, polling returns to its base interval and stays
\* there, unless the shadow was given up.
Recovers == <>[](interval = Base \/ supported = "no")

\* Every reader gets an answer, a local deferral or an error.
ReadsReturn == \A r \in Callers : pc[r] = "queued" ~> pc[r] = "idle"

\* No reader is at a dead end: the one with the lock can be answered, and a
\* free lock can be taken by whoever waits. What ReadsReturn rests on.
ReadersCanStep ==
  /\ holder # NoReader => ENABLED <<RequestAnswered>>_vars
  /\ \A r \in Readers :
       pc[r] = "queued" /\ holder = NoReader => ENABLED <<Gate(r)>>_vars
=============================================================================
