----------------------------- MODULE PumpControl -----------------------------
(***************************************************************************)
(* Equipment commands of api.py: the setters, the control lock that        *)
(* serializes them, one sent command waiting for reported state, and the   *)
(* background worker that aligns the manual speed after priming.           *)
(*                                                                         *)
(* The equipment is recognized: pool mode, filter controller, waterfall    *)
(* and light are in the reported state, which merges never remove. The     *)
(* motor's st is cmd # 0. The controller, its cloud and other apps are     *)
(* outside src/; a sent command is executed at any time later, or never.   *)
(* Reports of the socket and REST snapshots say what the controller held   *)
(* when they were made: they arrive later, the snapshots in any order.     *)
(***************************************************************************)
EXTENDS Integers, Sequences, FiniteSets

CONSTANTS
  Callers,    \* service calls of Home Assistant
  Commands,   \* what they may ask for: records [kind, value]
  Limits,     \* speeds between the reported minSpd and maxSpd
  Prime,      \* the priming speed
  Initial,    \* states of the controller to begin with
  Parts,      \* sets of fields that one report may carry
  Touches,    \* writes of other apps and of the panel: [field, value]
  MaxTouches, \* how many of those there may be
  MaxReads,   \* how many REST reads, counted together with the touches
  MaxNews,    \* reports under way on the socket
  MaxConns

Generations == 1..Cardinality(Callers)   \* at most one start per caller
Actors == Callers \cup Generations

\* The kinds of commands, and the field that the first write of each sets.
FieldOf == [start |-> "preset", preset |-> "preset", speed |-> "man", itsSpeed |-> "man",
            power |-> "pool", waterOn |-> "water", withSpeed |-> "water",
            waterOff |-> "water", undo |-> "water", light |-> "light", colour |-> "colour"]

Settings == {FieldOf[k] : k \in DOMAIN FieldOf}

ASSUME PumpAssumption ==
  /\ IsFiniteSet(Callers) /\ Callers \cap (0..Cardinality(Callers)) = {}
  /\ \A k \in Commands : k.kind \in DOMAIN FieldOf
  /\ \A d \in Initial : Settings \subseteq DOMAIN d
  /\ MaxConns \in Nat \ {0}

VARIABLES
  call,      \* each caller's command and progress
  line,      \* the lock: its holder, then those waiting for it in order
  pending,   \* _pending_control, or NoPending
  current,   \* _post_prime_sync_context and _task: a generation, or 0
  gen,       \* _post_prime_sync_generation
  worker,    \* the worker of each generation
  rep,       \* self.reported
  up, sock,  \* websocket_connected, and which connection
  stopped,   \* _stopping
  severed,   \* history: generations that lost their connection after the write
  device,    \* external: what the controller really does
  wire,      \* external: commands sent and not executed yet
  echoes,    \* external: manual speeds still to be announced as desired
  news,      \* external: reports under way on the socket, oldest first
  snapshot,  \* external: the answer under way to the one REST read, or <<>>
  unasked    \* touches and reads so far

work  == <<current, gen, worker>>
link  == <<up, sock, stopped, severed>>
mail  == <<news, snapshot>>
cloud == <<device, wire, echoes, mail, unasked>>
vars  == <<call, line, pending, work, rep, link, cloud>>

\* vouched is history: since the command was sent, the controller has held its
\* value, or a message with it was under way already.
NoPending == [who |-> 0, field |-> "none", value |-> 0, future |-> "none", vouched |-> FALSE]

Unborn == [at |-> "none", target |-> 0, primed |-> FALSE, tried |-> FALSE,
           socket |-> 0, override |-> FALSE, result |-> "none",
           sends |-> 0, outdated |-> FALSE]

Init ==
  /\ \E cmds \in [Callers -> Commands] :
       call = [c \in Callers |-> [kind |-> cmds[c].kind, value |-> cmds[c].value,
                                  at |-> "idle", stage |-> 1, was |-> 0, waits |-> 0]]
  /\ line = <<>> /\ pending = NoPending
  /\ current = 0 /\ gen = 0 /\ worker = [g \in Generations |-> Unborn]
  /\ device \in Initial /\ rep = device
  /\ up = TRUE /\ sock = 1 /\ stopped = FALSE /\ severed = {}
  /\ wire = {} /\ echoes = {} /\ unasked = 0
  /\ news = <<>> /\ snapshot = <<>>

-----------------------------------------------------------------------------
(* What the reported state says. Definitions that begin with Bug are slips *)
(* the runs are shown to notice; nothing uses them.                        *)

Priming(r) == r.cmd = Prime /\ r.cmd # r.req

\* _post_prime_sync_ready, with the motor's st.
Ready(r, target, primed) ==
  /\ r.cmd > 0 /\ ~Priming(r)
  /\ primed \/ (r.req = target /\ r.cmd = target)

SpeedMatches(r, target) ==
  r.cmd # 0 /\ r.man = target /\ r.req = target /\ r.cmd = target

\* Motor and requested speed do not agree yet: the manual speed must wait.
Deferred(r, target) == r.req = target /\ r.cmd # target

Sendable(r) == r.auto = 1 /\ up

Holds(a) == line # <<>> /\ Head(line) = a

Cancelling == {"start", "speed", "itsSpeed", "preset", "waterOn", "withSpeed"}

\* Turning the pump on, a light command or waterfall-off cancels nothing here.
CancelsFirst(k, v) == k \in Cancelling \/ (k = "power" /\ v = 0)

-----------------------------------------------------------------------------
(* One write of a command: <<field, value>>. *)

FirstWrite(c) ==
  LET k == call[c].kind IN
  <<FieldOf[k], IF k \in {"waterOn", "withSpeed"} THEN 1
                ELSE IF k \in {"waterOff", "undo"} THEN 0 ELSE call[c].value>>

\* start: the power of a stopped pump, or the manual speed of a running one;
\* waterfall off: back to the Pool Filtration preset.
SecondWrite(c, was, r) ==
  IF call[c].kind \in {"waterOff", "undo"} THEN <<"man", r.preset>>
  ELSE IF was = 0 THEN <<"pool", 1>> ELSE <<"man", call[c].value>>

HasSecond(c, was, r) ==
  CASE call[c].kind = "start" -> was = 0 \/ ~Deferred(r, call[c].value)
    [] call[c].kind \in {"waterOff", "undo"} -> was = 1 /\ r.pool = 1 /\ r.cmd # 0
    [] OTHER -> FALSE

Refused(w, r) ==
  \/ w[1] \in {"preset", "man"} /\ w[2] \notin Limits
  \/ w[1] = "colour" /\ r.light = 0

BugSkipped(w, r) == FALSE

Skipped(w, r) == ~Refused(w, r) /\ r[w[1]] = w[2]

\* What message m says of the field of write w is what w asks for.
Shows(m, w) == w[1] \in DOMAIN m /\ m[w[1]] = w[2]

UnderWay == {snapshot} \cup {news[i] : i \in 1..Len(news)}

Send(a, w) ==
  /\ pending' = [who |-> a, field |-> w[1], value |-> w[2], future |-> "open",
                 vouched |-> \E m \in UnderWay \cup {device} : Shows(m, w)]
  /\ wire' = wire \cup {[who |-> a, field |-> w[1], value |-> w[2]]}
  /\ echoes' = IF w[1] = "man" THEN echoes \cup {w[2]} ELSE echoes

\* The pending command is left behind when its sender gives up.
BugNothingSent == UNCHANGED <<pending, wire, echoes>>

NothingSent == pending' = NoPending /\ UNCHANGED <<wire, echoes>>

-----------------------------------------------------------------------------
(* How a command ends: it releases the lock and, with no await in between, *)
(* schedules the worker or goes on to the next part of a compound command. *)

Following(c, ok) ==
  LET k == call[c].kind IN
  IF k = "withSpeed" /\ ok
  THEN [call[c] EXCEPT !.kind = "itsSpeed", !.at = "idle", !.stage = 1]
  ELSE IF k = "itsSpeed" /\ ~ok
  THEN [call[c] EXCEPT !.kind = "undo", !.at = "idle", !.stage = 1]
  ELSE [call[c] EXCEPT !.at = IF ok /\ k # "undo" THEN "ok" ELSE "failed"]

BugSchedule(target) ==
  /\ current' = gen + 1 /\ UNCHANGED gen
  /\ worker' = [worker EXCEPT ![gen + 1] =
                  [Unborn EXCEPT !.at = "watching", !.target = target]]

Schedule(target) ==
  /\ gen' = gen + 1 /\ current' = gen + 1
  /\ worker' = [worker EXCEPT ![gen + 1] =
                  [Unborn EXCEPT !.at = "watching", !.target = target]]

\* History: the worker that is now pending was overtaken by this command.
Overtake(c, ok) ==
  /\ worker' = IF ok /\ current # 0 /\ CancelsFirst(call[c].kind, call[c].value)
               THEN [worker EXCEPT ![current].outdated = TRUE] ELSE worker
  /\ UNCHANGED <<current, gen>>

End(c, ok, aligns) ==
  /\ line' = Tail(line) /\ NothingSent
  /\ call' = [call EXCEPT ![c] = Following(c, ok)]
  /\ IF aligns THEN Schedule(call[c].value) ELSE Overtake(c, ok)

Try(c, stage, was, w, r) ==
  IF Refused(w, r) \/ ~Sendable(r)
  THEN End(c, FALSE, FALSE)
  ELSE /\ Send(c, w)
       /\ call' = [call EXCEPT ![c] = [@ EXCEPT !.at = "sent", !.stage = stage, !.was = was]]
       /\ UNCHANGED <<line, work>>

Second(c, was, r) ==
  LET w == SecondWrite(c, was, r) IN
  IF Skipped(w, r)
  THEN End(c, TRUE, call[c].kind = "start" /\ was = 0)
  ELSE Try(c, 2, was, w, r)

AfterFirst(c, was, r) ==
  IF HasSecond(c, was, r) THEN Second(c, was, r)
  ELSE End(c, TRUE, call[c].kind = "start")

First(c, was, r) ==
  IF Skipped(FirstWrite(c), r) THEN AfterFirst(c, was, r)
  ELSE Try(c, 1, was, FirstWrite(c), r)

Confirmation(c, r) ==
  IF call[c].stage = 1 THEN AfterFirst(c, call[c].was, r)
  ELSE End(c, TRUE, call[c].kind = "start" /\ call[c].was = 0)

-----------------------------------------------------------------------------
(* The callers. *)

BugDrop(c) ==
  /\ current' = 0
  /\ call' = [call EXCEPT ![c].at = "dropping", ![c].waits = current]
  /\ UNCHANGED <<line, pending, gen, worker, rep, link, cloud>>

\* Cancels the pending worker and waits until it has ended.
Drop(c) ==
  /\ worker' = [worker EXCEPT ![current].at = "unwinding"]
  /\ current' = 0
  /\ call' = [call EXCEPT ![c].at = "dropping", ![c].waits = current]
  /\ UNCHANGED <<line, pending, gen, rep, link, cloud>>

Queue(c) ==
  /\ call' = [call EXCEPT ![c].at = "queued"]
  /\ line' = Append(line, c)
  /\ UNCHANGED <<pending, work, rep, link, cloud>>

Call(c) ==
  /\ call[c].at = "idle"
  /\ IF CancelsFirst(call[c].kind, call[c].value) /\ current # 0 THEN Drop(c) ELSE Queue(c)

\* Waterfall off cancels the worker with the lock in hand.
DropInside(c) == call[c].kind \in {"waterOff", "undo"} /\ rep.water = 1 /\ current # 0

Proceed(c) ==
  /\ First(c, IF call[c].kind = "start" THEN rep.pool ELSE rep.water, rep)
  /\ UNCHANGED <<rep, link, device, mail, unasked>>

Dropped(c) ==
  /\ call[c].at = "dropping" /\ worker[call[c].waits].at = "done"
  /\ IF Holds(c) THEN Proceed(c) ELSE Queue(c)

Enter(c) ==
  /\ call[c].at = "queued" /\ Holds(c)
  /\ IF DropInside(c) THEN Drop(c) ELSE Proceed(c)

Confirmed(c) ==
  /\ call[c].at = "sent" /\ pending.future = "done"
  /\ Confirmation(c, rep)
  /\ UNCHANGED <<rep, link, device, mail, unasked>>

SendFails(c) ==
  /\ call[c].at = "sent" /\ pending.future = "failed"
  /\ End(c, FALSE, FALSE)
  /\ UNCHANGED <<rep, link, device, mail, unasked>>

\* No confirmation in time: only the preset is looked up once more.
TimesOut(c) ==
  /\ call[c].at = "sent" /\ pending.future = "open"
  /\ IF pending.field = "preset"
     THEN /\ call' = [call EXCEPT ![c].at = "refresh"]
          /\ pending' = [pending EXCEPT !.future = "late"]
          /\ UNCHANGED <<line, work, rep, link, cloud>>
     ELSE End(c, FALSE, FALSE) /\ UNCHANGED <<rep, link, device, mail, unasked>>

\* Its REST read (Read, Merge) has come back or has failed; either way the
\* reported state decides.
Refresh(c) ==
  /\ call[c].at = "refresh"
  /\ IF rep.preset = pending.value THEN Confirmation(c, rep) ELSE End(c, FALSE, FALSE)
  /\ UNCHANGED <<rep, link, device, mail, unasked>>

Without(s, a) ==
  IF \E i \in 1..Len(s) : s[i] = a
  THEN LET i == CHOOSE i \in 1..Len(s) : s[i] = a
       IN  [j \in 1..(Len(s) - 1) |-> IF j < i THEN s[j] ELSE s[j + 1]]
  ELSE s

BugStopsWaiting(c) == line

\* Whoever is cancelled leaves the lock or its queue.
StopsWaiting(a) == Without(line, a)

CancelCall(c) ==
  /\ call[c].at \in {"dropping", "queued", "sent", "refresh"}
  /\ call' = [call EXCEPT ![c].at = "failed"]
  /\ line' = StopsWaiting(c)
  /\ pending' = IF pending.who = c THEN NoPending ELSE pending
  /\ UNCHANGED <<work, rep, link, cloud>>

CallerStep(c) ==
  \/ Call(c) \/ Dropped(c) \/ Enter(c) \/ Confirmed(c) \/ SendFails(c)
  \/ TimesOut(c) \/ Refresh(c)

-----------------------------------------------------------------------------
(* The worker of one generation. *)

Finishes(g, result) ==
  /\ worker' = [worker EXCEPT ![g].at = "done", ![g].result = result]
  /\ current' = IF current = g THEN 0 ELSE current
  /\ UNCHANGED gen

Becomes(g, new) == worker' = [worker EXCEPT ![g] = new] /\ UNCHANGED <<current, gen>>

BugStillOwned(g) == ~worker[g].override

StillOwned(g) == current = g /\ ~worker[g].override

BugSameConnection(w) == up

\* The socket of the write is still the client's, and open.
SameConnection(w) == up /\ sock = w.socket

\* Every interval, and at once after an override, the worker looks again.
Wake(g) ==
  LET w == worker[g] IN
  /\ w.at = "watching"
  /\ \/ /\ ~StillOwned(g) /\ Finishes(g, "cancelled") /\ UNCHANGED line
     \/ /\ StillOwned(g) /\ (rep.pool = 0 \/ rep.water = 1 \/ rep.auto = 0)
        /\ Finishes(g, "skipped") /\ UNCHANGED line
     \/ /\ StillOwned(g) /\ rep.pool = 1 /\ rep.water = 0 /\ rep.auto = 1
        /\ IF w.tried
           THEN /\ UNCHANGED line
                /\ \/ ~SameConnection(w) /\ Finishes(g, "failed")
                   \/ /\ SameConnection(w) /\ SpeedMatches(rep, w.target)
                      /\ Finishes(g, "complete")
           ELSE \/ /\ Priming(rep) /\ Becomes(g, [w EXCEPT !.primed = TRUE]) /\ UNCHANGED line
                \/ /\ Ready(rep, w.target, w.primed)
                   /\ Becomes(g, [w EXCEPT !.at = "queued"]) /\ line' = Append(line, g)
  /\ UNCHANGED <<call, pending, rep, link, cloud>>

BugStillReady(g) == TRUE

\* The wait for the lock may have been long: everything is checked again.
StillReady(g) ==
  rep.pool = 1 /\ rep.water = 0 /\ Ready(rep, worker[g].target, worker[g].primed)

\* An equal setpoint is written again only if the motor disagrees.
Align(g) ==
  LET w == worker[g] IN
  IF SpeedMatches(rep, w.target)
  THEN Becomes(g, [w EXCEPT !.at = "watching", !.tried = TRUE, !.socket = sock])
       /\ line' = Tail(line) /\ UNCHANGED <<pending, wire, echoes>>
  ELSE IF ~Sendable(rep)
  THEN Finishes(g, "failed") /\ line' = Tail(line) /\ UNCHANGED <<pending, wire, echoes>>
  ELSE /\ Becomes(g, [w EXCEPT !.at = "sent", !.socket = sock, !.sends = @ + 1])
       /\ Send(g, <<"man", w.target>>) /\ UNCHANGED line

Locked(g) ==
  /\ worker[g].at = "queued" /\ Holds(g)
  /\ IF ~StillOwned(g)
     THEN Finishes(g, "cancelled") /\ line' = Tail(line) /\ UNCHANGED <<pending, wire, echoes>>
     ELSE IF ~StillReady(g)
     THEN /\ Becomes(g, [worker[g] EXCEPT !.at = "watching"])
          /\ line' = Tail(line) /\ UNCHANGED <<pending, wire, echoes>>
     ELSE Align(g)
  /\ UNCHANGED <<call, rep, link, device, mail, unasked>>

BugObserves(w) == [w EXCEPT !.at = "watching"]

\* The setpoint is confirmed; what is left is to observe the motor.
Observes(w) == [w EXCEPT !.at = "watching", !.tried = TRUE]

Aligned(g) ==
  /\ worker[g].at = "sent" /\ pending.future = "done"
  /\ line' = Tail(line) /\ pending' = NoPending
  /\ IF worker[g].override THEN Finishes(g, "cancelled") ELSE Becomes(g, Observes(worker[g]))
  /\ UNCHANGED <<call, rep, link, cloud>>

AlignFails(g) ==
  /\ worker[g].at = "sent" /\ pending.future \in {"open", "failed"}
  /\ line' = Tail(line) /\ pending' = NoPending
  /\ Finishes(g, "failed")
  /\ UNCHANGED <<call, rep, link, cloud>>

\* The deadline is passed when the worker looks at the clock.
Expires(g) ==
  /\ worker[g].at = "watching"
  /\ Finishes(g, "timed_out")
  /\ UNCHANGED <<call, line, pending, rep, link, cloud>>

\* A cancelled worker leaves the lock and its queue and ends.
Unwind(g) ==
  /\ worker[g].at = "unwinding"
  /\ worker' = [worker EXCEPT ![g].at = "done", ![g].result = "cancelled"]
  /\ line' = StopsWaiting(g)
  /\ pending' = IF pending.who = g THEN NoPending ELSE pending
  /\ UNCHANGED <<call, current, gen, rep, link, cloud>>

WorkerStep(g) == Wake(g) \/ Locked(g) \/ Aligned(g) \/ AlignFails(g) \/ Unwind(g)

-----------------------------------------------------------------------------
(* The client's receive loop and everything outside it. *)

Merged(r, m) == [f \in DOMAIN r |-> IF f \in DOMAIN m THEN m[f] ELSE r[f]]

\* Part of the controller's state is on its way to the socket.
Reported(part) ==
  /\ up /\ Len(news) < MaxNews
  /\ news' = Append(news, [f \in part |-> device[f]])
  /\ UNCHANGED <<call, line, pending, work, rep, link, device, wire, echoes, snapshot,
                 unasked>>

\* A report arrives. Whatever it carries, a waiting command then looks at all
\* that is reported by now.
Report ==
  /\ up /\ news # <<>>
  /\ news' = Tail(news)
  /\ rep' = Merged(rep, Head(news))
  /\ pending' = IF pending.future = "open" /\ rep'[pending.field] = pending.value
                THEN [pending EXCEPT !.future = "done"] ELSE pending
  /\ UNCHANGED <<call, line, work, link, device, wire, echoes, snapshot, unasked>>

\* The poll loop, a service or a late look-up reads the shadow; a later read
\* follows one that failed.
Read ==
  /\ unasked < MaxReads /\ unasked' = unasked + 1
  /\ snapshot' = device
  /\ UNCHANGED <<call, line, pending, work, rep, link, device, wire, echoes, news>>

\* The snapshot is merged, also when the socket is down, and however old it is
\* by now. No waiting command looks at it before the next report.
Merge ==
  /\ snapshot # <<>> /\ snapshot' = <<>>
  /\ rep' = Merged(rep, snapshot)
  /\ UNCHANGED <<call, line, pending, work, link, device, wire, echoes, news, unasked>>

\* A manual speed commanded by anyone is announced as desired.
Desired(v) ==
  /\ up /\ v \in echoes
  /\ echoes' = echoes \ {v}
  /\ worker' = IF current # 0 /\ worker[current].target # v
               THEN [worker EXCEPT ![current].override = TRUE] ELSE worker
  /\ UNCHANGED <<call, line, pending, current, gen, rep, link, device, wire, mail,
                 unasked>>

FailPending ==
  pending' = IF pending.future = "open" THEN [pending EXCEPT !.future = "failed"] ELSE pending

\* A worker has written, or has found the speeds to agree, and observes.
Observing(g) ==
  worker[g].at = "sent" \/ (worker[g].at = "watching" /\ worker[g].tried)

\* What is under way on the socket is lost with it.
Sever ==
  /\ severed' = severed \cup {g \in Generations : Observing(g)}
  /\ news' = <<>>
  /\ UNCHANGED <<device, wire, echoes, snapshot, unasked>>

Disconnect ==
  /\ up /\ up' = FALSE
  /\ FailPending /\ Sever
  /\ UNCHANGED <<call, line, work, rep, sock, stopped>>

Reconnect ==
  /\ ~up /\ ~stopped /\ sock < MaxConns
  /\ up' = TRUE /\ sock' = sock + 1
  /\ UNCHANGED <<call, line, pending, work, rep, stopped, severed, cloud>>

\* async_stop: the worker is cancelled, the socket closed for good.
Stop ==
  /\ ~stopped /\ stopped' = TRUE /\ up' = FALSE
  /\ FailPending /\ Sever
  /\ current' = 0
  /\ worker' = IF current # 0 THEN [worker EXCEPT ![current].at = "unwinding"] ELSE worker
  /\ UNCHANGED <<call, line, gen, rep, sock>>

\* History: the controller comes to hold what the pending command asks for.
Vouch ==
  pending' = IF pending # NoPending /\ Shows(device', <<pending.field, pending.value>>)
             THEN [pending EXCEPT !.vouched = TRUE] ELSE pending

Execute(m) ==
  /\ m \in wire /\ wire' = wire \ {m}
  /\ device' = [device EXCEPT ![m.field] = m.value]
  /\ Vouch
  /\ UNCHANGED <<call, line, work, rep, link, echoes, mail, unasked>>

\* The motor primes, then follows the preset or the manual speed, or stops.
Motor ==
  /\ \E r \in {device.preset, device.man}, s \in {0, 1} :
       device' = [device EXCEPT
         !.req = IF device.pool = 0 THEN @ ELSE r,
         !.cmd = IF device.pool = 0 THEN 0 ELSE IF s = 0 THEN Prime ELSE r]
  /\ Vouch
  /\ UNCHANGED <<call, line, work, rep, link, wire, echoes, mail, unasked>>

Touch(t) ==
  /\ unasked < MaxTouches /\ unasked' = unasked + 1
  /\ device' = [device EXCEPT ![t.field] = t.value]
  /\ echoes' = IF t.field = "man" THEN echoes \cup {t.value} ELSE echoes
  /\ Vouch
  /\ UNCHANGED <<call, line, work, rep, link, wire, mail>>

Next ==
  \/ \E c \in Callers : CallerStep(c) \/ CancelCall(c)
  \/ \E g \in Generations : WorkerStep(g) \/ Expires(g)
  \/ \E part \in Parts : Reported(part)
  \/ Report \/ Read \/ Merge
  \/ \E v \in echoes : Desired(v)
  \/ \E m \in wire : Execute(m)
  \/ \E t \in Touches : Touch(t)
  \/ Motor \/ Disconnect \/ Reconnect \/ Stop

Spec == Init /\ [][Next]_vars

\* Tasks that can run do run; a deadline is passed by a worker that keeps
\* looking. Nothing is assumed of the controller, its reports or the socket.
FairCaller(c) == WF_vars(CallerStep(c))
FairWorker(g) == WF_vars(WorkerStep(g)) /\ SF_vars(Expires(g))

Fairness ==
  /\ \A c \in Callers : FairCaller(c)
  /\ \A g \in Generations : FairWorker(g)

FairSpec == Spec /\ Fairness
-----------------------------------------------------------------------------
CallPoints == {"idle", "dropping", "queued", "sent", "refresh", "ok", "failed"}
WorkPoints == {"none", "watching", "queued", "sent", "unwinding", "done"}
Results == {"none", "cancelled", "skipped", "failed", "complete", "timed_out"}

\* The variables hold what their comments say; a generation is used once.
TypeOK ==
  /\ \A c \in Callers : call[c].kind \in DOMAIN FieldOf /\ call[c].at \in CallPoints
  /\ \A g \in Generations : worker[g].at \in WorkPoints /\ worker[g].result \in Results
  /\ line \in Seq(Actors) /\ current \in 0..gen /\ gen \in 0..Cardinality(Callers)
  /\ DOMAIN rep = DOMAIN device /\ sock \in 1..MaxConns
  /\ pending = NoPending \/ pending.who \in Actors

Waiting(a) == IF a \in Callers THEN call[a].at \in {"sent", "refresh"}
              ELSE worker[a].at = "sent"

\* _async_send_control runs under the control lock only: a command that waits
\* for its confirmation is the holder's, it is the one in _pending_control,
\* and no cancelled or failed command leaves its own behind.
OnePending ==
  /\ \A a \in Actors : Waiting(a) => Holds(a) /\ pending.who = a
  /\ pending # NoPending => /\ Holds(pending.who)
                            /\ \/ Waiting(pending.who)
                               \/ worker[pending.who].at = "unwinding"

\* Everyone in the line of the lock is there once and is still going to take
\* the lock or to leave it.
InLine ==
  /\ \A i, j \in 1..Len(line) : line[i] = line[j] => i = j
  /\ \A i \in 1..Len(line) :
       IF line[i] \in Callers THEN call[line[i]].at \in {"queued", "dropping", "sent", "refresh"}
       ELSE worker[line[i]].at \in {"queued", "sent", "unwinding"}

\* A cancelled command or worker never strands the lock, and whoever waits for
\* the worker that it cancelled, with the lock in hand or not, waits for one
\* that ends at its next step and takes up nothing else.
LineAlive ==
  /\ InLine
  /\ \A c \in Callers : call[c].at = "dropping" =>
       worker[call[c].waits].at \in {"unwinding", "done"}

\* Each startup sends at most one corrective manual speed: never a retry.
OneAlignment == \A g \in Generations : worker[g].sends <= 1

Aligns(g) == worker'[g].sends > worker[g].sends

\* The worker that writes is that of the newest startup, nobody has commanded
\* another manual speed that it was told of, and at that moment the pump runs
\* past its priming, in Auto, with the waterfall off: however long the worker
\* waited for the lock, and whoever held it before.
SafeAlignment ==
  [][\A g \in Generations : Aligns(g) =>
       /\ g = gen /\ ~worker[g].override
       /\ rep.pool = 1 /\ rep.water = 0 /\ rep.auto = 1
       /\ rep.cmd > 0 /\ ~Priming(rep)]_vars

\* A worker reports motor_speed_confirmed only for the newest startup, never
\* after another manual speed was announced to it, and never once the connection
\* of its write was lost: also if the write was confirmed just before, and a new
\* connection shows the very speeds.
OldTargetDropped ==
  [][\A g \in Generations :
       worker'[g].result = "complete" /\ worker[g].result # "complete" =>
         g = gen /\ ~worker[g].override /\ g \notin severed]_vars

\* README.md: manual-speed commands, preset changes and newer scheduled
\* targets cancel pending alignment. So an alignment is not written after
\* such a command has succeeded.
NewerCommandCancels ==
  [][\A g \in Generations : Aligns(g) => ~worker[g].outdated]_vars

\* Nothing confirms a caller's command, neither a report nor the late look-up of
\* the preset, but a value that the controller has held since it was sent or that
\* was under way at that moment: never one that was reported before, whatever
\* order reports and snapshots arrive in.
ConfirmedByDevice ==
  /\ pending.who \in Callers
  /\ pending.future = "done" \/ Shows(rep, <<pending.field, pending.value>>)
  => pending.vouched

\* How far a worker has come, for its startup.
Live == {"watching", "queued", "sent"}

CorrectionOf(w) ==
  CASE w.at = "none" -> "none"
    [] w.at \in Live /\ w.sends = 0 -> "armed"
    [] w.at \in Live /\ w.sends = 1 -> "written"
    [] w.at \in Live /\ w.sends > 1 -> "repeated"
    [] w.at = "done" /\ w.result = "complete" -> "confirmed"
    [] OTHER -> "over"

Correction == [g \in Generations |-> CorrectionOf(worker[g])]

\* The workers implement the abstract correction.
Promise == INSTANCE Alignment WITH Startups <- Generations, correction <- Correction

AlignPromise == Promise!AlignSpec

\* Every command ends: none waits for the lock, or for the worker that it
\* cancelled, for ever -- not even the one that waits with the lock in hand.
CommandsEnd == \A c \in Callers : call[c].at = "queued" ~> call[c].at \in {"ok", "failed", "idle"}

\* Every worker ends: confirmed, refused, cancelled or past its deadline.
WorkersEnd == \A g \in Generations : worker[g].at # "none" ~> worker[g].at = "done"

TasksEnd == CommandsEnd /\ WorkersEnd

\* Nobody is at a dead end: whoever holds the lock has a next step, unless it
\* waits there for a worker that is still ending; whoever waits for one that
\* has ended goes on; a cancelled worker can end, and one that watches can find
\* its deadline passed. What TasksEnd rests on.
ActorsCanStep ==
  /\ \A c \in Callers :
       IF call[c].at = "dropping"
       THEN worker[call[c].waits].at = "done" => ENABLED <<CallerStep(c)>>_vars
       ELSE Holds(c) => ENABLED <<CallerStep(c)>>_vars
  /\ \A g \in Generations :
       /\ Holds(g) \/ worker[g].at = "unwinding" => ENABLED <<WorkerStep(g)>>_vars
       /\ worker[g].at = "watching" => ENABLED <<Expires(g)>>_vars

Stands(a, n) == n \in 1..Len(line) /\ line[n] = a

InTheLine(a) == \E n \in 1..Len(line) : line[n] = a

\* Whoever stands behind others in the line of the lock moves up in it, or
\* leaves it: the lock is handed on, and nobody gets in between.
IsFurther(a, n) == ~InTheLine(a) \/ \E m \in 1..(n - 1) : Stands(a, m)

LineMovesUp ==
  \A a \in Actors, n \in 2..Cardinality(Actors) : Stands(a, n) ~> IsFurther(a, n)

\* So, place by place, whoever is in the line gets the lock or leaves.
GetsThrough(a) == InTheLine(a) ~> Holds(a) \/ ~InTheLine(a)

LineGetsThrough == \A a \in Actors : GetsThrough(a)
=============================================================================
