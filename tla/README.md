# TCX Direct: a verification project

TLA+ models of the Home Assistant integration `custom_components/tcx_direct`
(paths below are relative to it), checked with TLC and, where a theorem is
named, proved with TLAPS for every value of the constants.

## The system

The integration is one asyncio program. Nothing runs in parallel, but every
`await` is a point at which any other task may run, and most of the state below
is read before one await and used after it.

| Part | State it keeps | Operations | What makes it correct |
|---|---|---|---|
| Native schedules (`schedules.py`) | the latch `pending`, its journal in HA's store, the shelf of plans, one snapshot request | read, preview, apply, acknowledge; `observe` from every report | a frame leaves once at most, never while another outcome is open, never against a stale table; "confirmed" is true; a crash forgets nothing |
| REST shadow (`api.py`: `async_get_shadow`, `_shadow_loop`) | lock, poll interval, cooldown, recovery hold and count | read by the poll loop, by setup, by services and by late confirmations | silence during a cooldown, the server's delay honoured, slow recovery that still arrives |
| Equipment control (`api.py`: setters, `_async_send_control`) | control lock, the one pending command | pump, preset, speed, waterfall and light commands | one command at a time, no stranded lock or command |
| Post-prime worker (`api.py`: `_async_post_prime_sync`) | a context and a task per startup, a generation number | scheduled by a startup, cancelled by other commands, overridden by announced speeds | one corrective write at most, only to a pump past priming, only for the newest startup |
| WebSocket (`api.py`: `_socket_supervisor`, `_bootstrap_resubscribe`, `_watchdog_loop`) | socket, session age, time since the last report, failures, reconnect event, snapshot event | open, receive, back off, resubscribe, refresh or force a reconnect | one session, bounded silence and age, always connected again |
| Schedule rules (`schedules.py`: `_validate_entry`, `_validate_overlap`, the operations of `async_preview`) | none | accept or refuse a plan | what is accepted brings no two enabled schedules of one equipment into one minute |
| Schedule trace (`schedule_trace.py`) | the last table, the last confirmed operation, bounded rings | a report, a confirmed operation | its differences are the real ones, and an operation it calls confirmed is settled |
| Authentication (`api.py`) | tokens and their deadline, the auth lock, the supervisor's failures | login, refresh, drop on 401 or refusal; setup and reauthentication around them | no request carries a token that expires on its way, no needless login, a session stays reachable |
| Coordinator (`coordinator.py`) | merged report, values shown, the held-back pump zero, cached flag, delayed cache | state and status callbacks, cache load and save | what is shown is true, held for a grace period at most, and not called live when it is not |
| Setup and unload (`__init__.py`) | the entry's runtime data | load journal and cache, start and stop, toggle the opt-in | restart resumes with the journal |
| Entities, services, config flow, diagnostics, redaction | none that others read | one call each into the client | mostly not modelled, see below |

How they interact. Every schedule call and every equipment command holds the same
`_control_lock` from its first check to its last await. A report of the
WebSocket merges into `reported`, feeds `TCXSchedules.observe`, resolves the one
pending control, of equipment or of a schedule, and calls the coordinator. A REST snapshot
merges and feeds `observe` too, but resolves no control: a waiting command looks at what it
brought when the next report of the WebSocket arrives, whatever that report carries.
The bootstrap task, the watchdog and a schedule call all subscribe on the same socket, and nothing in the answer
says whose it is. Losing the socket fails the pending control. The options flow
toggles the write opt-in without any lock.

What is hard: time of check and time of use across an await (journal save, lock
queues, refresh waits); cancellation with a lock in hand; a task that outlives the
socket it was made for; late, repeated or missing execution in the cloud; edits by
the vendor's app meanwhile; crashes around the write-ahead journal; and the limits
of back-off, recovery and hold.

## Modules

| Module | Models | Composed with |
|---|---|---|
| `ScheduleLatch` | what a schedule write promises, and nothing of how | abstract specification |
| `ScheduleTxn` | the schedule transaction with its journal, socket, REST and cloud | implements `ScheduleLatch` |
| `ScheduleTxnProofs` | theorems about `ScheduleTxn` | |
| `ScheduleRules`, `ScheduleRulesProofs` | which plans are accepted, as operators, and what the rules are for, by the minute | |
| `ScheduleTrace` | what the trace concludes from tables and operations, as operators | |
| `NativeSchedules`, `NativeSchedulesProofs` | transaction, rules and trace inside one client | extends the three above, implements `ScheduleTxn` |
| `AuthSession`, `AuthSessionProofs` | the tokens, their lock and deadline, who drops one, and the setup around them | |
| `RestPacing`, `RestPacingProofs` | the shadow's readers, cooldown and recovery | |
| `Alignment` | what is promised of the correction after a startup, and nothing of how | abstract specification |
| `PumpControl`, `PumpControlProofs` | the setters, the control lock and the post-prime worker, with a controller | implements `Alignment` |
| `Connection`, `ConnectionProofs` | supervisor, bootstrap task and watchdog | |
| `Coordinator`, `CoordinatorProofs` | the pump speed as shown, cached and restored | |
| `MC...` | small instances of the module of that name | |

### State and actions

*ScheduleTxn.* `call` is the call that holds the control lock and where it is:
each step of `CallStep` is the code between two awaits. `async_apply` is
`ApplyCall` (the plan leaves `_plans`, the snapshot is requested), `ApplyChecked`
(table, permission and no-op checks; the latch is set; the save begins),
`JournalLands`, `SendFrame` or `SendRefused` (all conditions again, then the
frame), `Confirmed` or `ControlFails`, `Readback` (the whole table is compared),
`JournalLands` and `LatchLifted`. `Abandon` is an exception or a cancellation at
any await. `request`, `control` and `touched` are `_snapshot_request`,
`_pending_control` and the slots whose sequence is newer than the write's.
`disk` is the journal, `Crash` forgets everything else, and `Restart` loads it or
finds it unreadable. `plans`, `sends`, `resolved` and `held` record what happened.
A table is a function from slots to entries, and an entry a body and an
enable flag: revisions are hashes in the code and equality of tables here. `PreviewReturns`
may be refused at any time, which stands for all validation rules; `NativeSchedules` says which.

*ScheduleRules, ScheduleTrace, NativeSchedules.* A body is an equipment, its minutes on and off, its
weekdays and a speed; `readable` says whether the times and the day list parse. `Accepted` is
what `async_preview` requires of each operation, `Apart` and `NoOverlap` the overlap rule. The
reference definition beside them, `Clashes`, knows nothing of the rule: it counts minutes of each weekday.
`WithTable` and `WithConfirmed` are the trace's `reported_table` and `operation`.
`NativeSchedules` runs every action of `ScheduleTxn` with these: a preview keeps a plan only if it is
accepted, each report goes to the trace, and `LatchLifted` files the
operation. `nulls` are the tombstones that a merged report leaves for a deleted
schedule: the transaction takes them for empty slots, the trace counts them as keys.

*AuthSession.* Two users share the session: the supervisor and whoever holds the shadow lock
(the poll loop, a service or setup; `why` says which). `holder` is `_auth_lock`, and the other user
waits for it or does not. A token has a real life in the cloud, `life`, and the client has its own idea, `left`
(`_token_expires_at`), which starts later, when the answer arrives, and from the floor
of 600 s if the cloud grants less. A sent request keeps the life of the token it
carries, since another user may replace or drop the current one meanwhile. `Arrival` is
how long the cloud may take to read a handshake's header, `Limit` the
time of each await. `Raises` is what an exception does in the task it ends, `Counts` the supervisor's
third failure. `phase` is the config entry: its setup, a retry by Home Assistant, the form that asks for a password.

*RestPacing.* A reader is idle, queued, logging in, at the v1 or at the v2 endpoint;
`Leave` is the end of `async with self._shadow_lock`. Deadlines on the monotonic
clock are kept as the time left, so `Tick` lowers them. `quiet` and `streak` are
history: what really happened, against which the code's `hold` and `successes` are
judged. The interval is an integer here and a float in the code; `Eased` rounds
down, and the bound of a quarter in `SlowRecovery` allows for it.

*PumpControl.* `line` is the control lock: its holder and, in order, those who wait.
A command is at most two writes (`FirstWrite`, `SecondWrite`), and a compound one is
followed by the next kind (`Following`: waterfall, its speed, the rollback).
Between two writes of one command there is no await except the confirmation, so
`Confirmed` goes on to the second write in one step. The worker of a generation
watches, queues for the lock, checks everything again (`Locked`) and writes once
(`Align`). `rep` is `self.reported`; `device`, `wire` and `echoes` are the
controller and its cloud, free to execute a frame at any time or never. A report is made
(`Reported`), is under way in `news`, in order, and arrives (`Report`): it is merged, and the pending
command is compared with all that is reported by then. A REST snapshot is made (`Read`; one at a time, as
`_shadow_lock` has it, for the poll loop, a service or a late look-up) and merged at any time later
(`Merge`), also over newer values and on a lost socket, and no command looks at it by itself.
Three variables are history: `outdated`, the pending worker was overtaken by a command that
succeeded; `vouched`, the controller has held the value of the pending command since it was sent, or
a message with it was under way at that moment; `severed`, the workers that lost the connection
after their write, or after they found that none was needed.

*Connection.* Tasks asleep until a deadline are timers that `Tick` counts down; time
does not pass while a task is due. `AfterSession` is the one way out of a session:
it is the `finally` part, the token rule after three failures, and the delay.
Connection numbers are used again after `MaxConns`, which is more sessions than the upsets
let pass during one wait of a task for an older one.

*Coordinator.* `raw` is the merged report and `shown` is `normalized["pump_rpm"]`;
`task` is the time left of `_pump_zero_task`. `Write` is HA's store, which writes
what the coordinator holds when the delay is over; `Down` is the end of the
process with or without that write, and `Up` is `async_load_cache`.

Names that begin with `Bug` are slips in one definition each. No specification
uses them; each property is shown to notice at least one of them.

## Runs

| Run | Question | Bounds |
|---|---|---|
| `txn_latch` | Do journal and latch hold over lost sockets, cancellations, toggles, edits, expiry, unloads and restarts, and does the transaction implement `ScheduleLatch`? | 2 plans, shelf of 2, 2 slots, 2 disturbances, 1 message under way |
| `txn_tables` | Does a frame leave only against a real table, is "confirmed" true, does every await have a next step, does every call return? | create, update and delete of 1 plan, REST too, 2 slots, empty or one schedule, 1 message, 1 disturbance |
| `native` | Transaction, rules and trace together, with REST and restarts: do plans and confirmed tables keep schedules apart, is the trace true? | create, enable and delete of 1 plan, two schedules of which one overlaps the other, 1 message, 1 disturbance, a ring of 2, captures of 1 key |
| `rest_pacing` | All pacing properties, with liveness, and no reader at a dead end | 2 explicit readers and the loop, base 2, cap 8, hold 5, 2 successes, 4 setbacks |
| `auth` | All properties of the session, with liveness, and nobody at a dead end | supervisor and one reader, timeout 1, arrival 3, margin 5, floor 6, tokens that live 5 or 6, 2 upsets |
| `pump_mixed` | Lock, pending command, true confirmations and safe alignment under any two of eight commands | 2 callers, 1 mode change at the panel or 1 REST read, 1 report under way, 1 connection |
| `pump_water` | Two startups, waterfall compounds, a reconnection: do the workers implement `Alignment`, one correction each, and is an old target dropped with its connection? | 2 callers, startups of one target, waterfall with a speed and off, stopped pump, 1 report under way, 2 connections, no read |
| `pump_ends` | Do commands and workers end, and is nobody at a dead end? | a startup and a waterfall-off, 1 touch (waterfall), 1 report under way |
| `pump_overtaken` | Does a newer command cancel the pending alignment? It does not: finding 1 | as `pump_mixed`, no touch and no read |
| `connection` | Bounded silence and age, reconnects served, connected again | stale 4, rotation 10, watchdog 2, refresh 2, 2 upsets, 3 connections |
| `conn_asked` | Does the watchdog close only the socket it asked? It does not: finding 2 | stale 6, rotation 14, watchdog 3, refresh 3 |
| `shown` | Everything of the coordinator | 2 speeds, grace 3, save delay 1, 2 restarts |

Why the bounds are enough to see the interesting cases. Two plans are the least for "one while
another is open", two slots for "every other schedule". A disturbance is what the
environment does unasked; the two of `txn_latch` reach every pair, such as a restart after a
lost socket, or an app edit after a reconnect, at every pair of steps of a call.
Executions by the cloud, snapshots, failures and cancellations of calls are not
counted. A `cloud` execution may repeat without bound. In `rest_pacing` the cap is
two doublings above the base and the largest Retry-After lies above the cap; four
setbacks are two more than reach the cap. In `pump_*` the second caller is what may
overtake the first, and one more write by a third party, or one read, may come in between. One report
under way and one snapshot, of which either may be the older one, are the least for values that arrive out
of order; a worker whose connection is lost needs a second one to be misled by, and no third. In `native` the
second schedule may be enabled only while the first is not, so a rule that looks at the wrong table
is seen; a table fits a capture only when it has one key, so the trace is cut
off and starts again. In `auth` the tokens live less than the floor or exactly as long, a
request of two endpoints and a handshake both fit the margin with nothing to spare, and
two upsets are the least for a revoked token whose replacement fails too. The
time constants keep the order that the code's own have.

Symmetry is used for the interchangeable plans of `txn_latch` and the callers of `pump_mixed` and
`pump_water`, which check no liveness. Deadlock is checked except in
`connection` and `conn_asked`, where the stopped client has no step left.

### Properties worth a word

- `WriteAhead`, `LatchSeen` (`txn_latch`): the disk names an open write
  from before its frame leaves until its outcome is settled. `LatchPromise`, the refinement of
  `ScheduleLatch`, says that a frame leaves once at most (`AtMostOnce`, which is also proved).
- `SendOnFreshTable`, `ConfirmedTable` (`txn_tables`), `ConfirmedApart` (`native`) compare the
  code's beliefs with `held`, the tables that the controller really had on this socket. A matching
  slot in a report is not enough: the full readback has to show it together with
  all other schedules unchanged.
- `PlansApart` (`native`) compares a plan's effect, in any slot the controller may pick, with the
  minutes that really clash. `ConfirmedApart` says the same of the table that was read back.
- `ChangesChain`, `Attributed` (`native`): a reader of the diagnostics may add the listed
  differences up and gets the present table; an operation filed as confirmed is no longer in the latch or journal.
- `SlowRecovery` (`rest_pacing`) compares the code's hold and count with
  time and successes as they happened (`HonestCounts`, proved, is why they agree).
- `TokenOutlives` (`auth`): the deadline is computed late and from a floor that may exceed the token's life;
  the margin has to make up for both, up to the end of a request. `OneLogin`: who
  queues behind a login uses its token. `StaysReachable`: nothing that was dropped,
  by whichever task, leaves the client without a way to connect.
- `SafeAlignment` (`pump_mixed`) is stated at the moment of the write, not when the worker first looked.
  `OldTargetDropped` (`pump_water`): motor_speed_confirmed is for the newest startup, not overridden, whose
  connection was never lost since the write (`severed`), also if the write was confirmed just before the loss and
  a new connection shows the same speeds. The code keeps no time of a value, so on the write's own connection
  requested and actual speed that were reported earlier, even by an earlier connection, do count.
- `AlignPromise` (`pump_water`), the refinement of `Alignment`: only the newest successful startup may still write or
  confirm its correction, it writes once (`OneAlignment`, which is also proved), and what was cancelled, overridden or late stays over.
- `ConfirmedByDevice` (`pump_mixed`): whatever confirms a caller's command is no older than the command: the
  controller has held the value since it was sent, or the message was under way then. What was reported before
  does not do, which is why `Skipped` compares first. The code promises no more: a value may have been left again by the
  time it confirms, and an older report or snapshot that was under way at the send may confirm; messages carry
  nothing to tell them by. `LineAlive` also says that a waterfall-off, which waits for a cancelled
  worker with the lock in hand, waits for one that only has to end.
- `LatchKept` (proved; a part of what `LatchPromise` checks with two plans): no other plan overwrites the record of an uncertain
  write, and memory forgets it only after the disk.
- `CallCanStep` (`txn_tables`), `ReadersCanStep` (`rest_pacing`), `EverybodyCanStep` (`auth`),
  `ActorsCanStep` (`pump_ends`): no await is a dead end, stated with `ENABLED`. The liveness theorems rest on them.
- `TasksEnd` (`pump_ends`): every command that waits for the control lock is answered and every worker ends; its
  mutant waits with the lock in hand for a worker that nobody cancelled, which waits for the lock.
- `SilenceBounded`, `AgeBounded` (`connection`): stale window plus one sleep plus one refresh;
  rotation plus two sleeps plus one refresh.
- `HeldWithinGrace`, `HoldMatches` (`shown`): repeated zeros do not extend a hold, and no hold is without its task, also after a restart.

### Fairness

- `ScheduleTxn`: weak fairness of `CallStep`. Every wait in a call is an
  `asyncio.timeout` or a local save, so some step of the call is always due in the end.
  Nothing is assumed of the cloud, the socket or the store.
- `RestPacing`: the clock, the poll loop and the answer (or timeout) of the one request there is
  (`RequestAnswered`); strong fairness of each reader's turn at the lock (`FairLock`), because asyncio's lock is first come, first
  served. A turn is either taken or, in a cooldown, turned away (`Gate`). Setbacks are bounded, which is what makes `Recovers` a statement about the
  time after the last one.
- `PumpControl`: weak fairness of each task's steps. A sent command has a timeout, so
  `TimesOut` is part of `CallerStep` and `AlignFails` of `WorkerStep`. A worker that
  keeps looking passes its deadline: strong fairness of `Expires`. Reports,
  executions and the motor have none.
- `Connection`: supervisor steps, tasks and clock. A login or handshake that is not
  refused ends in time (aiohttp's timeouts); no frame is assumed. Upsets are bounded.
- `AuthSession`: each user's own steps (a request ends within its timeout), the supervisor's next
  attempt, Home Assistant's setup and its retry, and the clock. Upsets are bounded.
- `Coordinator`: clock, due tasks, and Home Assistant comes up again.

## Proofs

| Theorem | Says |
|---|---|
| `TypeCorrect`, `JournalCorrect` | `Spec => []TypeOK` and `Spec => []JournalInv` of `ScheduleTxn` |
| `JournalWrittenAhead`, `SentAtMostOnce`, `UncertainIsLatched` | its safety properties |
| `TablesWereHeld`, `SentOnHeldTable`, `ConfirmedWasHeld` | the tables that the code relies on were held by the controller, so `SendOnFreshTable` and `ConfirmedTable` |
| `Refinement` | `ScheduleTxn` implements `ScheduleLatch` |
| `LatchIsKept` | the action property `LatchKept` |
| `EveryCallReturns` | liveness: `FairSpec` and `[]CallCanStep` imply `CallsReturn` |
| `RuleSound`, `RuleExact`, `AcceptedApart` | `ScheduleRules`: the overlap rule refuses what shares a minute and nothing else of what it can read; no accepted plan adds a clash |
| `NativeIsTransaction` | `NativeSchedules` implements `ScheduleTxn`, so all of the above holds of it |
| `NativeKeepsPromises` | the promises of the transaction, spelled out for `NativeSchedules` |
| `OnlyAccepted`, `PlansKeepApart`, `ConfirmedKeepsApart`, `TraceCorrect`, `DiffsAreTrue`, `CreditIsSettled` | the properties of `NativeSchedules` |
| `PacingCorrect`, `CooldownIsSilent`, `CooldownHonoured`, `RecoveryIsEarned`, `OneRequestAtATime`, `CountsAreHonest` | the safety and action properties of `RestPacing` |
| `EveryReadReturns` | liveness: `FairSpec` and `[]ReadersCanStep` imply `ReadsReturn` |
| `AuthCorrect`, `AuthTypes`, `TokensOutlive`, `LoginsAreNeeded` | those of `AuthSession` |
| `SetupIsUnderWay` | only the read loop sets up, and a setup is on its way exactly while the entry is in it |
| `EveryUserReturns` | liveness: `FairSpec` and `[]EverybodyCanStep` imply `UsersReturn`, the first half of `WaitsEnd` |
| `EveryWaitEnds`, `TheClientComesBack` | liveness: with `CalmsDown` too, `WaitsEnd` and `StaysReachable` |
| `PumpCorrect`, `PumpTypes`, `PendingIsHolders`, `LineStaysAlive`, `AlignedOnce`, `AlignedSafely`, `CompletedUncut`, `ConfirmedByTheDevice` | the safety and action properties of `PumpControl` that its passing runs check, and `OneAlignment` |
| `AlignmentKept` | `PumpControl` implements `Alignment` |
| `LaterCommandsDoCancel` | what is left of finding 1: a worker that is pending when a newer command is called is disowned for good and never writes |
| `LineGoesOn` | liveness: `Spec`, `[]Fairness` and `[]ActorsCanStep` imply `LineMovesUp`: the control lock is handed on, place by place |
| `EverybodyEnds` | liveness: with `PlacesCountDown` too, `TasksEnd` |
| `ConnectionCorrect`, `ConnectionTypes`, `SessionIsOne`, `SilenceIsBounded`, `AgeIsBounded` | the invariants of `Connection` |
| `UnaskedIsYoung` | what is left of finding 2: a socket closed unasked is no older than the refresh of the other one was given |
| `ShownCorrect`, `HeldBriefly`, `TruthShown`, `HoldIsMatched`, `LiveIsReported` | the invariants of `Coordinator` |

The assumptions are those named in the component modules: `ScheduleAssumption` (the
"none" values differ from real ones, entries are closed under enabling),
`RulesAssumption`, `TraceAssumption` and `NativeAssumption` (a day has minutes, speeds are positive, the ring
has a place, entries are what the rules read), `PumpAssumption` (finitely many callers, commands of the kinds listed, a controller that has every field a command sets), `PacingAssumption` (the cap is at least twice the base,
which the code's 1800 and 120 satisfy), `AuthAssumption`, `CoordinatorAssumption` and `ConnectionAssumption` (the watchdog's
sleep of 30 s is shorter than the stale window). Nothing bounds the
number of plans, slots, minutes, readers, speeds, messages, or setbacks, and no proof uses the size of a bound.

`AuthAssumption` is where the code meets the cloud. With the code's timeout of 20 s, margin of
300 s and floor of 600 s, and some 30 s for a handshake's header to arrive, it asks that a token
live 360 s at least: below that the floor makes the client believe in a
token that is already gone. A shorter life would be answered by a 401 and a new login. An answer without a
readable `ExpiresIn` is taken to mean 3600 s (`api.py:920`, `935`); that such a token does live that long is part of
the assumption too, and enters the model in no other way.

*The journal.* `WriteAhead` is not inductive: whether a frame may leave depends on
where the call is. `JournalInv` says, for each point of a call, what the
disk and the latch hold: the disk is empty while the journal is being saved, names the
plan from `saved` to `readback`, and is cleared only for a resolved plan; a plan on
the shelf was never sent; with a usable journal the latch equals the disk whenever the disk names a plan. A
lemma for calls that end and one for steps that touch neither plan nor journal
take care of most actions. The refinement needs, beyond it, that a frame leaves
only when no other plan is uncertain, which follows because the disk names this one.

*The tables.* `HeldInv` says that every complete snapshot on its way, the table that answered this
socket's request and the table that an apply checked are in `held`. Socket numbers are not reused in this model, so what
belongs to an older socket is told apart for good. `ConfirmedKeepsApart` joins it with `PlansKeepApart`: the readback
shows the plan's result, the result was held, and the plan was accepted on the rest of that table.

*The connection.* The bounds are not inductive: `Watched` and `Rotated` reserve
what is left of the watchdog's sleep or refresh, and a session past its rotation that was
refreshed is found quiet for less than one sleep at the next look, so it is not refreshed twice.

*The pump.* The lock, the pending command and the progress of all commands and workers are one
object: `Fits(line, sender, points)` says that the line has nobody twice and only those who still
have a step to take or to leave by, that whoever asked is its sender, and that the sender is at its head. One
lemma for each way the line can move (join, ask, leave, be cancelled, unwind) does not mention the state;
each action then is one or two of those moves. A generation is used once because each belongs to a startup
that ended well, and there is one startup per caller. That a worker sends once needs that it never
queues again after it tried. `SafeAlignment` follows from which step of the worker may send (`Locked`). `OldTargetDropped`
needs `SeveredInv` besides: who lost its connection never queues again, so it takes up no newer socket, and the one
that is open has a greater number than the one it remembers.

*The correction.* `Correction` reads an abstract correction off each worker. That every step is one of `Alignment`'s or
none needs `AlignInv`: generations are taken in order, and the worker that is current is still at work; by `PumpCorrect` it is
the newest (`OwnerIsNewest`). `WaitInv` carries the second half of `LineAlive`: the
worker somebody waits for was cancelled, and a cancelled worker takes up nothing else (`EndedStaysEnded`).

*The confirmations.* `SeenInv`: as long as a caller's command is not vouched for, nothing that is reported, held by
the controller or under way (`Told`) shows its value, and nothing has confirmed it. It holds at the send because the
command was compared with the reported state then, and everything else that had the value vouches for it. After
that every message copies what the controller holds, and every merge takes each field from the reported state or the message
(`MessagesTell`), so the value first appears in the controller, and `Vouch` marks that (`DeviceTells`).

*The liveness.* The installed provers cannot decide `ENABLED`, but PTL knows what `WF` and `SF` mean when the
enabledness is a fact. So `CallCanStep`, `ReadersCanStep`, `EverybodyCanStep` and `ActorsCanStep` are checked by TLC and taken as hypotheses, and
the theorems prove the rest for every value of the constants. `CallsReturn`: the points of a call have an order, every step of the call goes up
in it or ends the call, and no other step of the system moves it back (`CallsAdvance`); there are
finitely many points, so weak fairness suffices. `ReadsReturn`: the reader with the lock is at one of three points and moves
forward (`HolderAdvances`), so the lock is free again and again (`LockFreed`); a queued reader stays queued, with
its turn enabled infinitely often, until strong fairness gives it the turn (`CallerAdvances`). `UsersReturn`: the stages of a user of the session have an order
too (`Onward`), each of its own steps takes it further or back to where it came from (`EveryMove`), and nothing else
moves it but the lock being handed to it (`OneMoves`). A user in the line has the other one in front of it, on a stage that ends, so
weak fairness suffices.

`WaitsEnd` and `StaysReachable` speak of the time after the last disturbance, so both theorems suppose `CalmsDown`: in
the end nothing is revoked, cancelled or reloaded any more. Each disturbance counts to `MaxUpsets`, so this holds of
every behaviour of the model, but saying so to the prover takes an induction on the count. Then (`CalmPhases`) a setup goes from retry to
start to its one read, which returns (`SetupComesToAnEnd`). For `StaysReachable`, suppose the client were away for good. Its supervisor
comes back from every attempt without a session, and asks again; an attempt either carries a token that the cloud
refuses, and drops it, or one that it accepts, and nothing makes an accepted token bad any more (`SupInCalm`); so the next attempt
after the token is gone ends in a session.

`TasksEnd` is about a lock that is handed on. The holder has a rank (`Rank`: the worker it waits for, the first write, the
late look-up, the second write), its own steps lower it or let go of the lock, and nothing else raises it (`HolderGoesOn`); a
holder that waits for a worker waits for one that unwinds, whether or not that worker is in the line behind it (`WaitEnds`). So no one keeps the lock
(`HolderLetsGo`). The line is a sequence, and a step appends, takes off the head or takes out one member
(`PlacesAfter`, `LineAfter`), so everyone behind the holder moves up when it goes: `LineMovesUp`. From there to the head is an induction
on the place. `PlacesCountDown` names just that step, `LineMovesUp => LineGetsThrough`: it holds of every behaviour in which places are
numbers, says nothing about what the tasks do, and is there because the provers have no induction over temporal formulas. With it
every command leaves the line with its answer (`LeavesOut`), and a worker that leaves it watches until strong fairness lets it find its
deadline passed. These two theorems ask for `[]Fairness` where one would write `Fairness`. The two are equal, since `WF` and `SF` speak of
what happens infinitely often, but the prover does not see it through the quantifier over the tasks.

*The pacing.* Types, the lock, the gate and the counts are inductive together:
`SilentInCooldown` needs `OneRequest`, since the only reader past the gate is the one that
is told to back off and leaves. `SlowRecovery` follows from `quiet + hold >= Hold` and
`successes <= streak` at the step that lowers the interval.

*The coordinator.* `held` is the age of a hold; the strengthening says that age
and the time left of its task never exceed `Grace` together, and that a task is
pending exactly when what is shown differs from what was reported.

*The rules and the trace.* `RuleSound` is about two intervals of one day; an entry that
crosses midnight or cannot be read is never apart from anything, so it cannot be beside an enabled one.
`AcceptedApart` goes through the operations, and `PlansKeepApart` needs only that plans
change where `NativePreviewReturns` puts them on the shelf. The trace's ring is an induction over pushing and
dropping one entry; `CreditIsSettled` needs `JournalInv`: the latch is lifted and the journal
cleared only for a resolved plan, which is never applied again.

*The session.* `AuthInv` adds to the types and the lock that whoever logs in needs it (`Needed`), that
what a token still lasts covers what the client believes of it up to the floor (`Covered`), and that what a
sent token lasts covers the time its request may still take (`Carried`).

Model-checked only: `CallCanStep`, `ReadersCanStep`, `EverybodyCanStep` and `ActorsCanStep`, which are about `ENABLED`; the
liveness whose argument counts time or successes down (`Recovers`, `RequestServed`, `Reconnects`, `ZeroIsShown`): each step of the count would be
within reach, as for `LineMovesUp`, but their end is an induction; and the two findings. `TypeOK` of each component is a theorem and therefore not
an invariant of a run.

## Findings

1. A command cancels the pending alignment before it waits for the control lock, and
   a startup schedules its worker after it released that lock (`api.py:1690`,
   `1719-1720`). A newer speed, preset or startup that queues behind a running startup
   cancels nothing, succeeds, and is then followed by the older target.
   `README.md:150-151` says that such commands cancel pending alignment. It goes no further than that:
   whatever is pending when such a command is called is cancelled for good (`LaterCommandsDoCancel`), so the older target is
   written only by a startup that was still running at that moment.
2. The watchdog's forced reconnect closes whichever socket is current (`api.py:2513`).
   If the quiet one died while its refresh was awaited, a new socket that has not
   had its snapshot yet is closed. The comment at `api.py:2500-2503` says that a
   reconnect follows only an unanswered refresh of the existing socket. A socket that
   is closed unasked was opened during the refresh, so it is 15 seconds old at most (`UnaskedIsYoung`).

## Not modelled

Parsing of reports, of schedule fields and of Retry-After, payload layout and device routing, since they keep no state;
entities, services, config flow, which are views and schema checks in front of
the same calls (the reauthentication and the opt-in are modelled where they act); the redacted copies of
messages in the trace, diagnostics and redaction, from which nothing is concluded. `Coordinator` follows one value of many.
Two clients alive during a reload, and setup that fails half way, are listed as hazards without a property.
A password that changes while the entry runs is not noticed by the code: the loops log in and fail again
until the entry is loaded anew. `StaysReachable` excepts it.

## Plan

1. `Connection` and `RestPacing` composed over the tokens of `AuthSession`: a poll that drops a token
   while a handshake backs off.
2. A reload in `ScheduleTxn`: the old client's save against the new client's load.
3. The merge of REST and WebSocket reports for the values that `Coordinator` shows; for those that confirm a
   command `PumpControl` has it.
