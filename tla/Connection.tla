----------------------------- MODULE Connection -----------------------------
(***************************************************************************)
(* The WebSocket of the TCX client (api.py): the supervisor task that      *)
(* opens it, receives from it and backs off, the bootstrap task that asks  *)
(* again for the first snapshot, the watchdog that refreshes or replaces a *)
(* subscription gone quiet, and forced reconnects.                         *)
(*                                                                         *)
(* A task sleeping until a deadline is a timer that Tick counts down; time *)
(* does not pass while a task is due, so only the network takes time. The  *)
(* network and the cloud are outside src/: they may refuse, close, fall    *)
(* silent, or leave a subscription unanswered.                             *)
(***************************************************************************)
EXTENDS Integers

CONSTANTS
  Stale,         \* WEBSOCKET_STALE_SECONDS
  Rotate,        \* MAX_WEBSOCKET_SESSION
  Period,        \* the watchdog's sleep
  Patience,      \* WATCHDOG_RESUBSCRIBE_TIMEOUT
  BootInterval,  \* BOOTSTRAP_SUBSCRIBE_INTERVAL
  BootAttempts,  \* BOOTSTRAP_SUBSCRIBE_ATTEMPTS
  ReconnectMax,  \* RECONNECT_MAX
  MaxUpsets,     \* bound on failures outside and on manual reconnects
  MaxConns       \* connections told apart at a time; numbers are used again

ASSUME ConnectionAssumption ==
  /\ Stale \in Nat \ {0} /\ Rotate \in Nat \ {0} /\ Period \in Nat \ {0}
  /\ Patience \in Nat \ {0} /\ BootInterval \in Nat \ {0} /\ BootAttempts \in Nat \ {0}
  /\ ReconnectMax \in Nat /\ ReconnectMax >= 2
  /\ Period < Stale   \* or a refreshed session would be silent at each look
  /\ MaxUpsets \in Nat /\ MaxConns \in Nat \ {0}

VARIABLES
  sup,        \* the supervisor: [at, timer]
  ws,         \* _ws: the connection's number, 0 for None
  closed,     \* ws.closed
  connected,  \* websocket_connected
  conns,      \* the number of the latest connection, 0 before the first
  age,        \* time since _ws_opened_monotonic
  quiet,      \* time since last_ws_reported_monotonic, -1 for None
  failures,   \* the supervisor's local count, to 5
  token,      \* id_token: "none", "due" for a refresh, "good", or "bad" for the cloud
  reconnect,  \* _reconnect_requested
  snapshot,   \* _authorization_snapshot_event
  boot,       \* the bootstrap task: [at, timer, left, socket]
  dog,        \* the watchdog: [at, timer, socket]
  owed,       \* external: a subscription of this connection is unanswered
  upsets      \* how much of MaxUpsets is used

socketState == <<ws, closed, connected, conns, age, quiet, owed>>
vars == <<sup, socketState, failures, token, reconnect, snapshot, boot, dog, upsets>>

Less(a, b) == IF a <= b THEN a ELSE b
More(a, b) == IF a >= b THEN a ELSE b

NoBoot == [at |-> "idle", timer |-> 0, left |-> 0, socket |-> 0]
Sleeping == [at |-> "sleep", timer |-> Period, socket |-> 0]

Init ==
  /\ sup = [at |-> "auth", timer |-> 0]
  /\ ws = 0 /\ closed = FALSE /\ connected = FALSE /\ conns = 0
  /\ age = 0 /\ quiet = -1 /\ owed = FALSE
  /\ failures = 0 /\ token \in {"none", "good"}
  /\ reconnect = FALSE /\ snapshot = FALSE
  /\ boot = NoBoot /\ dog = Sleeping /\ upsets = 0

Upset == upsets < MaxUpsets /\ upsets' = upsets + 1

-----------------------------------------------------------------------------
(* The supervisor. Definitions that begin with Bug are slips the runs are  *)
(* shown to notice; nothing uses them.                                     *)

Backoff(f) == Less(ReconnectMax, More(2, 2 ^ Less(f, 5)))

BugAfterSession(f, t) ==
  /\ ws' = 0 /\ closed' = FALSE /\ connected' = FALSE /\ boot' = NoBoot
  /\ failures' = Less(5, f) /\ token' = t
  /\ sup' = [at |-> IF t = "none" THEN "dead" ELSE "backoff", timer |-> Backoff(f)]

BugKeepsBootstrap(f, t) ==
  /\ ws' = 0 /\ closed' = FALSE /\ connected' = FALSE /\ UNCHANGED boot
  /\ failures' = Less(5, f)
  /\ token' = IF f >= 3 THEN "none" ELSE t
  /\ sup' = [at |-> "backoff", timer |-> Backoff(f)]

\* What every way out of a session does: everything of the session is
\* cleared, tokens are dropped after three failures, and a delay begins.
AfterSession(f, t) ==
  /\ ws' = 0 /\ closed' = FALSE /\ connected' = FALSE /\ boot' = NoBoot
  /\ failures' = Less(5, f)
  /\ token' = IF f >= 3 THEN "none" ELSE t
  /\ \E jitter \in 0..Less(3, Backoff(f) \div 4) :
       sup' = [at |-> "backoff", timer |-> Backoff(f) + jitter]

\* async_ensure_auth: a missing token is fetched by a login, a due one by a
\* refresh or, when that is rejected, by a login.
Authenticate ==
  /\ sup.at = "auth"
  /\ token' = IF token = "bad" THEN "bad" ELSE "good"
  /\ sup' = [sup EXCEPT !.at = "connect"]
  /\ UNCHANGED <<socketState, failures, reconnect, snapshot, boot, dog, upsets>>

LoginFails ==
  /\ sup.at = "auth" /\ token \in {"none", "due"}
  /\ Upset
  /\ \E t \in {token, "none"} : AfterSession(failures + 1, t)
  /\ UNCHANGED <<conns, age, quiet, owed, reconnect, snapshot, dog>>

\* The cloud knows the token or rejects it for good.
HandshakeRejected ==
  /\ sup.at = "connect" /\ token = "bad"
  /\ AfterSession(failures + 1, "none")
  /\ UNCHANGED <<conns, age, quiet, owed, reconnect, snapshot, dog, upsets>>

HandshakeFails ==
  /\ sup.at = "connect"
  /\ Upset
  /\ AfterSession(failures + 1, token)
  /\ UNCHANGED <<conns, age, quiet, owed, reconnect, snapshot, dog>>

\* Connected and subscribed: the session begins, and the bootstrap task.
Opened ==
  /\ sup.at = "connect" /\ token # "bad"
  /\ sup' = [sup EXCEPT !.at = "live"]
  /\ conns' = (conns % MaxConns) + 1 /\ ws' = conns'
  /\ connected' = TRUE /\ closed' = FALSE
  /\ age' = 0 /\ quiet' = -1 /\ owed' = TRUE
  /\ snapshot' = FALSE
  /\ boot' = [at |-> "waiting", timer |-> BootInterval, left |-> BootAttempts - 1,
              socket |-> conns']
  /\ UNCHANGED <<failures, token, reconnect, dog, upsets>>

\* A frame. While a reconnect is requested it is dropped and ends the session.
Received ==
  /\ sup.at = "live" /\ ~closed
  /\ IF reconnect
     THEN AfterSession(failures, token) /\ UNCHANGED <<conns, age, quiet, owed, snapshot>>
     ELSE /\ quiet' = 0 /\ failures' = 0
          /\ \/ UNCHANGED <<owed, snapshot>>
             \/ owed /\ owed' = FALSE /\ snapshot' = TRUE
          /\ UNCHANGED <<sup, ws, closed, connected, conns, age, token, boot>>
  /\ UNCHANGED <<reconnect, dog, upsets>>

\* The receive loop sees that its socket is closed.
SessionEnds ==
  /\ sup.at = "live" /\ closed
  /\ AfterSession(IF reconnect THEN failures ELSE failures + 1, token)
  /\ UNCHANGED <<conns, age, quiet, owed, reconnect, snapshot, dog, upsets>>

BugTryAgain ==
  /\ sup.at = "backoff" /\ (sup.timer = 0 \/ reconnect)
  /\ sup' = [at |-> "auth", timer |-> 0]
  /\ UNCHANGED <<socketState, failures, token, reconnect, snapshot, boot, dog, upsets>>

TryAgain ==
  /\ sup.at = "backoff" /\ (sup.timer = 0 \/ reconnect)
  /\ sup' = [at |-> "auth", timer |-> 0]
  /\ reconnect' = FALSE
  /\ UNCHANGED <<socketState, failures, token, snapshot, boot, dog, upsets>>

-----------------------------------------------------------------------------
(* The bootstrap task and the watchdog, which share the snapshot event.    *)

BootstrapDone ==
  /\ boot.at = "waiting"
  /\ snapshot \/ (boot.timer = 0 /\ (boot.left = 0 \/ closed \/ ws # boot.socket))
  /\ boot' = NoBoot
  /\ UNCHANGED <<sup, socketState, failures, token, reconnect, snapshot, dog, upsets>>

Resubscribe ==
  /\ boot.at = "waiting" /\ ~snapshot /\ boot.timer = 0
  /\ boot.left > 0 /\ ~closed /\ ws = boot.socket
  /\ owed' = TRUE
  /\ boot' = IF boot.left = 1 THEN NoBoot
             ELSE [boot EXCEPT !.left = @ - 1, !.timer = BootInterval]
  /\ UNCHANGED <<sup, ws, closed, connected, conns, age, quiet, failures, token,
                 reconnect, snapshot, dog, upsets>>

\* async_force_reconnect: the request, and the socket closed if there is one.
ForceReconnect ==
  /\ reconnect' = TRUE
  /\ closed' = (closed \/ ws # 0)

BugSilent == quiet # -1 /\ quiet >= Stale

\* No report for too long, be it since the last one or since the opening.
Silent == IF quiet = -1 THEN age >= Stale ELSE quiet >= Stale

BugTooOld == FALSE

TooOld == age >= Rotate

Watch ==
  /\ dog.at = "sleep" /\ dog.timer = 0
  /\ IF connected /\ Silent /\ ~closed
     THEN /\ dog' = [at |-> "asking", timer |-> Patience, socket |-> ws]
          /\ snapshot' = FALSE /\ owed' = TRUE
          /\ UNCHANGED <<reconnect, closed>>
     ELSE /\ dog' = Sleeping /\ UNCHANGED <<snapshot, owed>>
          /\ IF connected /\ (Silent \/ TooOld) THEN ForceReconnect
             ELSE UNCHANGED <<reconnect, closed>>
  /\ UNCHANGED <<sup, ws, connected, conns, age, quiet, failures, token, boot, upsets>>

Refreshed ==
  /\ dog.at = "asking" /\ snapshot
  /\ dog' = Sleeping
  /\ UNCHANGED <<sup, socketState, failures, token, reconnect, snapshot, boot, upsets>>

NotRefreshed ==
  /\ dog.at = "asking" /\ ~snapshot /\ dog.timer = 0
  /\ dog' = Sleeping
  /\ ForceReconnect
  /\ UNCHANGED <<sup, ws, connected, conns, age, quiet, owed, failures, token,
                 snapshot, boot, upsets>>

-----------------------------------------------------------------------------
(* The world: the reconnect button, the cloud, the clock, the unload.      *)

Manual ==
  /\ Upset /\ ForceReconnect
  /\ UNCHANGED <<sup, ws, connected, conns, age, quiet, owed, failures, token,
                 snapshot, boot, dog>>

PeerCloses ==
  /\ ws # 0 /\ ~closed /\ Upset /\ closed' = TRUE
  /\ UNCHANGED <<sup, ws, connected, conns, age, quiet, owed, failures, token,
                 reconnect, snapshot, boot, dog>>

\* The token comes near its expiry, or the cloud no longer accepts it.
TokenAges ==
  /\ token = "good" /\ Upset /\ token' \in {"due", "bad"}
  /\ UNCHANGED <<sup, socketState, failures, reconnect, snapshot, boot, dog>>

\* A REST reader was told 401 and drops whatever token there is by now.
TokenDropped ==
  /\ token # "none" /\ Upset /\ token' = "none"
  /\ UNCHANGED <<sup, socketState, failures, reconnect, snapshot, boot, dog>>

Stop ==
  /\ sup.at # "stopped"
  /\ sup' = [at |-> "stopped", timer |-> 0]
  /\ dog' = [Sleeping EXCEPT !.at = "stopped"] /\ boot' = NoBoot
  /\ ws' = 0 /\ closed' = FALSE /\ connected' = FALSE /\ reconnect' = TRUE
  /\ UNCHANGED <<conns, age, quiet, owed, failures, token, snapshot, upsets>>

Due ==
  \/ sup.at = "live" /\ closed
  \/ sup.at = "backoff" /\ (sup.timer = 0 \/ reconnect)
  \/ boot.at = "waiting" /\ (snapshot \/ boot.timer = 0)
  \/ dog.at = "asking" /\ (snapshot \/ dog.timer = 0)
  \/ dog.at = "sleep" /\ dog.timer = 0

Tick ==
  /\ ~Due /\ sup.at # "stopped"
  /\ sup' = [sup EXCEPT !.timer = More(0, @ - 1)]
  /\ boot' = [boot EXCEPT !.timer = More(0, @ - 1)]
  /\ dog' = [dog EXCEPT !.timer = More(0, @ - 1)]
  /\ IF connected THEN age' = age + 1 /\ quiet' = IF quiet = -1 THEN -1 ELSE quiet + 1
     ELSE UNCHANGED <<age, quiet>>
  /\ UNCHANGED <<ws, closed, connected, conns, owed, failures, token, reconnect,
                 snapshot, upsets>>

Supervise ==
  \/ Authenticate \/ HandshakeRejected \/ Opened \/ SessionEnds \/ TryAgain

Tasks == BootstrapDone \/ Resubscribe \/ Watch \/ Refreshed \/ NotRefreshed

Next ==
  \/ Supervise \/ Tasks
  \/ LoginFails \/ HandshakeFails \/ Received
  \/ Manual \/ PeerCloses \/ TokenAges \/ TokenDropped
  \/ Stop \/ Tick

Spec == Init /\ [][Next]_vars

\* The event loop runs what is due, time passes, and a login or a handshake
\* that is neither rejected nor upset ends in time. No frame is ever assumed.
Fairness == WF_vars(Supervise) /\ WF_vars(Tasks) /\ WF_vars(Tick)

FairSpec == Spec /\ Fairness

-----------------------------------------------------------------------------
\* The variables hold what their comments say; the supervisor is always in
\* one of the states it can leave again.
TypeOK ==
  /\ sup.at \in {"auth", "connect", "live", "backoff", "stopped"} /\ sup.timer \in Nat
  /\ ws \in {0, conns} /\ conns \in 0..MaxConns
  /\ {closed, connected, reconnect, snapshot, owed} \subseteq BOOLEAN
  /\ age \in Nat /\ quiet \in Nat \cup {-1} /\ failures \in 0..5
  /\ token \in {"none", "due", "good", "bad"}
  /\ boot.at \in {"idle", "waiting"} /\ boot.left \in 0..BootAttempts /\ boot.timer \in 0..BootInterval
  /\ dog.at \in {"sleep", "asking", "stopped"} /\ dog.socket \in 0..MaxConns
  /\ upsets \in 0..MaxUpsets

\* _ws, websocket_connected and the supervisor agree, and the bootstrap task
\* belongs to the session: no task of an old session outlives it.
OneSession ==
  /\ connected <=> sup.at = "live"
  /\ connected <=> ws # 0
  /\ boot.at = "waiting" => boot.socket = ws /\ ws = conns

Silence == IF quiet = -1 THEN age ELSE quiet

\* A subscription that is connected but silent does not stay: it reports
\* again or is replaced within the stale window, one sleep of the watchdog
\* and the time the refresh is given.
SilenceBounded == connected => Silence <= Stale + Period + Patience

\* No session outlives its rotation by more than the watchdog's own delays.
AgeBounded == connected => age <= Rotate + 2 * Period + Patience

\* _watchdog_loop: reconnect only if Zodiac does not answer the refresh of
\* the quiet subscription. So the socket it closes is the one it asked.
AskedFirst ==
  [][NotRefreshed /\ ws # 0 /\ ~closed => ws = dog.socket]_vars

\* Every requested reconnect is taken up; none stays set and turns the first
\* frame of each later session into its end.
RequestServed == reconnect ~> (~reconnect \/ sup.at = "stopped")

\* However the cloud closes, refuses or rejects, the client is connected
\* again and again, until it is stopped.
Reconnects == []<>(connected \/ sup.at = "stopped")
=============================================================================
