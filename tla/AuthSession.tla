---------------------------- MODULE AuthSession ----------------------------
(***************************************************************************)
(* The iAquaLink session of the TCX client (api.py) and the setup that     *)
(* starts it (__init__.py, config_flow.py): login and refresh behind one   *)
(* lock, the tokens and their deadline, the two users of a token -- the    *)
(* supervisor's handshake and the one REST read that the shadow lock lets  *)
(* through -- and who drops a token when.                                  *)
(*                                                                         *)
(* The cloud is outside src/: it issues tokens for a while, may revoke     *)
(* them, may lose or reject a request, and knows the account's password.   *)
(***************************************************************************)
EXTENDS Integers

CONSTANTS
  Timeout,    \* ClientTimeout of a login, a refresh or a read
  Arrival,    \* external: how long until the cloud has read a handshake's header
  Margin,     \* TOKEN_REFRESH_MARGIN
  Floor,      \* the least expiry that _apply_auth believes, 600
  Lives,      \* how long the cloud's tokens may live: ExpiresIn
  MaxUpsets   \* bound on disturbances: revocations, failures, cancellations,
              \* password changes, reloads

\* The longest that a token is under way before the cloud has read it: a read
\* may ask two endpoints with one header.
Longest == IF Arrival > 2 * Timeout THEN Arrival ELSE 2 * Timeout

\* A token may live for less than the floor, but not for so little that the
\* margin cannot cover the delay of an answer and the use of the token.
ASSUME AuthAssumption ==
  /\ Timeout \in Nat \ {0} /\ Arrival \in Nat \ {0}
  /\ Margin \in Nat /\ Floor \in Nat /\ MaxUpsets \in Nat
  /\ Margin < Floor /\ Margin >= Timeout + Longest
  /\ Lives \subseteq Nat
  /\ \A l \in Lives : l > Timeout + Longest /\ l + Margin >= Floor + Timeout + Longest

VARIABLES
  phase,     \* the entry: "start", "setup", "running", "retry" or "reauth"
  cached,    \* whether setup finds a cached state
  token,     \* id_token: [have, life]; life is what is left of it in the cloud,
             \* -1 once revoked
  session,   \* authentication_token is there
  left,      \* time to _token_expires_at
  refresh,   \* refresh_token is there
  holder,    \* of _auth_lock, or "none"; the other user waits if it is queued
  user,      \* user[u]: [at, why, timer, life]; life is that of the token sent
  failures,  \* the supervisor's count, to 3
  password,  \* external: the account has the entry's password
  upsets     \* how much of MaxUpsets is used

clientVars == <<token, session, left, refresh, holder, user, failures>>
vars == <<phase, cached, clientVars, password, upsets>>

Users == {"sup", "rest"}
Whys  == {"loop", "call", "setup"}

Idle    == [at |-> "idle", why |-> "loop", timer |-> 0, life |-> 0]
NoToken == [have |-> FALSE, life |-> -1]

Waiting == {"login", "refresh", "asking", "again"}
Asking  == {"asking", "again"}

NewClient ==
  /\ token' = NoToken /\ session' = FALSE /\ left' = 0 /\ refresh' = FALSE
  /\ holder' = "none" /\ user' = [u \in Users |-> Idle] /\ failures' = 0

Init ==
  /\ phase = "start" /\ cached \in BOOLEAN
  /\ token = NoToken /\ session = FALSE /\ left = 0 /\ refresh = FALSE
  /\ holder = "none" /\ user = [u \in Users |-> Idle] /\ failures = 0
  /\ password = TRUE /\ upsets = 0

Upset == upsets < MaxUpsets /\ upsets' = upsets + 1

Less(a, b) == IF a <= b THEN a ELSE b
More(a, b) == IF a >= b THEN a ELSE b

-----------------------------------------------------------------------------
(* Helpers. Definitions that begin with Bug are slips the runs are shown to *)
(* notice; nothing uses them.                                              *)

Missing == ~token.have \/ ~session

BugDue == left <= 0

Due == left <= Margin

Other(u) == IF u = "sup" THEN "rest" ELSE "sup"

BugReleased(u) == holder

BugWakesNobody(u) == IF holder = u THEN "none" ELSE holder

\* The holder hands the lock to whoever waits; a waiter only leaves.
Released(u) ==
  IF holder # u THEN holder
  ELSE IF user[Other(u)].at = "queued" THEN Other(u) ELSE "none"

Limit(u, at) == IF u = "sup" /\ at = "asking" THEN Arrival ELSE Timeout

At(u, at) == [user[u] EXCEPT !.at = at, !.timer = Limit(u, at)]

\* async_ensure_auth returns and, with no await between, the request leaves
\* with the token that is there.
Sends(u, t) ==
  /\ holder' = Released(u)
  /\ user' = [user EXCEPT ![u] = [At(u, "asking") EXCEPT !.life = t.life]]

\* At its third failure in a row the supervisor drops everything.
Counts(f, t) ==
  /\ failures' = f
  /\ token' = (IF f = 3 THEN NoToken ELSE t)
  /\ session' = (session /\ f # 3)
  /\ left' = (IF f = 3 THEN 0 ELSE left)

\* What an exception does in the task it ends. A service call only passes it
\* on; the poll loop, setup and the supervisor drop a token that was refused.
Raises(u, refused, t) ==
  LET kept == IF refused /\ user[u].why # "call" THEN NoToken ELSE t IN
  /\ holder' = Released(u)
  /\ user' = [user EXCEPT ![u] = Idle]
  /\ IF u = "sup" THEN Counts(Less(3, failures + 1), kept)
     ELSE token' = kept /\ UNCHANGED <<session, left, failures>>
  /\ UNCHANGED refresh

BugSetupAfter(u, outcome) ==
  phase' = IF user[u].why = "setup" /\ user[u].at \in Asking THEN "running" ELSE phase

\* The outcome of a login or of a read in setup. Only a login may stop it:
\* a rejected one asks for the password, an unreachable one waits for a retry
\* unless there is a cached state to start from.
SetupAfter(u, outcome) ==
  phase' = IF user[u].why # "setup" THEN phase
           ELSE IF user[u].at \in Asking THEN "running"
           ELSE IF outcome = "rejected" THEN "reauth"
           ELSE IF outcome = "unreachable" THEN IF cached THEN "running" ELSE "retry"
           ELSE phase

\* _apply_auth. The answer was on its way for as long as the request took at
\* most. Only a refresh keeps an earlier refresh token.
Applies(u, keeps) ==
  \E l \in Lives, delay \in 0..(Timeout - user[u].timer), r \in BOOLEAN :
    LET t == [have |-> TRUE, life |-> l - delay] IN
    /\ token' = t /\ session' = TRUE
    /\ left' = More(Floor, l)
    /\ refresh' = (r \/ (keeps /\ refresh))
    /\ Sends(u, t)
    /\ UNCHANGED <<phase, failures>>

-----------------------------------------------------------------------------
(* The users.                                                              *)

\* The supervisor connects again, the poll loop or a service call reads; each
\* queues for the lock.
Ask(u, why) ==
  /\ phase = "running" /\ user[u].at = "idle"
  /\ user' = [user EXCEPT ![u] = [Idle EXCEPT !.at = "queued", !.why = why]]
  /\ holder' = IF holder = "none" THEN u ELSE holder
  /\ UNCHANGED <<phase, cached, token, session, left, refresh, failures, password, upsets>>

BugEnter(u) ==
  /\ user[u].at = "queued" /\ holder = u
  /\ \/ user' = [user EXCEPT ![u] = At(u, "login")] /\ UNCHANGED holder
     \/ ~Missing /\ ~Due /\ Sends(u, token)
  /\ UNCHANGED <<phase, cached, token, session, left, refresh, failures, password, upsets>>

\* async_ensure_auth with the lock in hand.
Enter(u) ==
  /\ user[u].at = "queued" /\ holder = u
  /\ \/ /\ Missing \/ (Due /\ ~refresh)
        /\ user' = [user EXCEPT ![u] = At(u, "login")]
        /\ UNCHANGED holder
     \/ /\ ~Missing /\ Due /\ refresh
        /\ user' = [user EXCEPT ![u] = At(u, "refresh")]
        /\ UNCHANGED holder
     \/ ~Missing /\ ~Due /\ Sends(u, token)
  /\ UNCHANGED <<phase, cached, token, session, left, refresh, failures, password, upsets>>

LoginOk(u) ==
  /\ user[u].at = "login" /\ password
  /\ Applies(u, FALSE)
  /\ UNCHANGED <<cached, password, upsets>>

\* 401 or 403, or an answer without the required tokens.
LoginRejected(u) ==
  /\ user[u].at = "login"
  /\ \/ ~password /\ UNCHANGED upsets
     \/ password /\ Upset
  /\ Raises(u, TRUE, token)
  /\ SetupAfter(u, "rejected")
  /\ UNCHANGED <<cached, password>>

LoginUnreachable(u) ==
  /\ user[u].at = "login" /\ Upset
  /\ Raises(u, FALSE, token)
  /\ SetupAfter(u, "unreachable")
  /\ UNCHANGED <<cached, password>>

RefreshOk(u) ==
  /\ user[u].at = "refresh"
  /\ Applies(u, TRUE)
  /\ UNCHANGED <<cached, password, upsets>>

\* Whatever goes wrong with a refresh, a login follows under the same lock.
RefreshFails(u) ==
  /\ user[u].at = "refresh"
  /\ user' = [user EXCEPT ![u] = At(u, "login")]
  /\ UNCHANGED <<phase, cached, token, session, left, refresh, holder, failures, password, upsets>>

\* ... except an answer without the required tokens, which is an error.
RefreshUnusable(u) ==
  /\ user[u].at = "refresh" /\ Upset
  /\ Raises(u, TRUE, token)
  /\ UNCHANGED <<phase, cached, password>>

\* The read has its answer, or the socket is open and subscribed. What it
\* reports is on its way to the cache.
Accepted(u) ==
  /\ user[u].at \in Asking /\ user[u].life > 0
  /\ user' = [user EXCEPT ![u] = IF u = "sup" THEN [Idle EXCEPT !.at = "live"] ELSE Idle]
  /\ SetupAfter(u, "ok")
  /\ cached' \in {cached, TRUE}
  /\ UNCHANGED <<token, session, left, refresh, holder, failures, password, upsets>>

\* The v1 endpoint does not know the shadow; v2 is asked with the same header.
AskAgain ==
  /\ user["rest"].at = "asking" /\ user["rest"].life > 0
  /\ user' = [user EXCEPT !["rest"] = At("rest", "again")]
  /\ UNCHANGED <<phase, cached, token, session, left, refresh, holder, failures, password, upsets>>

\* 401 or 403: the token that is there now goes, be it the one sent or not.
Refused(u) ==
  /\ user[u].at \in Asking /\ user[u].life <= 0
  /\ Raises(u, TRUE, NoToken)
  /\ SetupAfter(u, "refused")
  /\ UNCHANGED <<cached, password, upsets>>

RequestFails(u) ==
  /\ user[u].at \in Asking /\ Upset
  /\ Raises(u, FALSE, token)
  /\ SetupAfter(u, "failed")
  /\ UNCHANGED <<cached, password>>

\* The session breaks or is to be replaced, after reports, which set the
\* count back, or without any.
SessionEnds ==
  /\ user["sup"].at = "live"
  /\ user' = [user EXCEPT !["sup"] = Idle]
  /\ \E f \in {0, 1, failures, Less(3, failures + 1)} : Counts(f, token)
  /\ UNCHANGED <<phase, cached, refresh, holder, password, upsets>>

\* The caller of a service is cancelled, in the queue or in mid-request.
Cancelled ==
  /\ user["rest"].at # "idle" /\ user["rest"].why = "call" /\ Upset
  /\ holder' = Released("rest") /\ user' = [user EXCEPT !["rest"] = Idle]
  /\ UNCHANGED <<phase, cached, token, session, left, refresh, failures, password>>

-----------------------------------------------------------------------------
(* The entry, and the world.                                               *)

\* async_setup_entry logs in before anything else uses the client.
SetupBegins ==
  /\ phase = "start" /\ phase' = "setup"
  /\ holder' = "rest"
  /\ user' = [user EXCEPT !["rest"] = [At("rest", "login") EXCEPT !.why = "setup"]]
  /\ UNCHANGED <<cached, token, session, left, refresh, failures, password, upsets>>

\* Home Assistant tries a setup that was not ready again.
SetupRetried ==
  /\ phase = "retry" /\ phase' = "start"
  /\ NewClient
  /\ UNCHANGED <<cached, password, upsets>>

\* The owner enters a password with which a client of the flow's own logs in
\* and finds the device; the entry takes it and is loaded again.
Reauthenticated ==
  /\ phase = "reauth" /\ phase' = "start"
  /\ password' = TRUE
  /\ NewClient
  /\ UNCHANGED <<cached, upsets>>

Reloaded ==
  /\ phase = "running" /\ Upset /\ phase' = "start"
  /\ NewClient
  /\ UNCHANGED <<cached, password>>

PasswordChanged ==
  /\ password /\ Upset /\ password' = FALSE
  /\ UNCHANGED <<phase, cached, clientVars>>

\* The cloud no longer accepts the tokens it has issued.
Revoked ==
  /\ Upset
  /\ token' = [token EXCEPT !.life = -1]
  /\ user' = [u \in Users |-> IF user[u].at \in Asking THEN [user[u] EXCEPT !.life = -1] ELSE user[u]]
  /\ UNCHANGED <<phase, cached, session, left, refresh, holder, failures, password>>

Tick ==
  /\ \A u \in Users : /\ user[u].at \in Waiting => user[u].timer > 0
                      /\ ~(user[u].at = "queued" /\ holder = u)
  /\ left' = More(0, left - 1)
  /\ token' = IF token.life > 0 THEN [token EXCEPT !.life = @ - 1] ELSE token
  /\ user' = [u \in Users |->
       [user[u] EXCEPT !.timer = More(0, @ - 1),
                       !.life = IF user[u].at \in Asking /\ @ > 0 THEN @ - 1 ELSE @]]
  /\ UNCHANGED <<phase, cached, session, refresh, holder, failures, password, upsets>>

\* A user's own steps, and the answers that come or time out in the end.
UserStep(u) ==
  \/ Enter(u) \/ LoginOk(u) \/ (~password /\ LoginRejected(u))
  \/ RefreshOk(u) \/ RefreshFails(u) \/ Accepted(u) \/ Refused(u)

Setup == SetupBegins \/ SetupRetried

Next ==
  \/ \E u \in Users : UserStep(u) \/ LoginRejected(u) \/ LoginUnreachable(u)
                      \/ RefreshUnusable(u) \/ RequestFails(u)
  \/ Ask("sup", "loop") \/ Ask("rest", "loop") \/ Ask("rest", "call")
  \/ AskAgain \/ SessionEnds \/ Cancelled
  \/ Setup \/ Reauthenticated \/ Reloaded
  \/ PasswordChanged \/ Revoked \/ Tick

Spec == Init /\ [][Next]_vars

\* Every request ends within its timeout.
FairTo(u) == WF_vars(UserStep(u))
FairUsers == \A u \in Users : FairTo(u)

\* Besides, the supervisor never rests, Home Assistant sets the entry up, and
\* time passes. Upsets are bounded.
Fairness ==
  /\ FairUsers
  /\ WF_vars(Ask("sup", "loop"))
  /\ WF_vars(Setup) /\ WF_vars(Tick)

FairSpec == Spec /\ Fairness

-----------------------------------------------------------------------------
(* Properties.                                                             *)

Phases == {"start", "setup", "running", "retry", "reauth"}
Tokens == [have : BOOLEAN, life : Int]
UserStates ==
  [at : {"idle", "queued", "live"} \cup Waiting, why : Whys, timer : Nat, life : Int]

\* Only the holder of the lock logs in or refreshes, and the lock is neither
\* free while someone waits nor held by someone who has left.
LockOK ==
  /\ holder \in Users \cup {"none"}
  /\ \A u \in Users :
       /\ user[u].at \in {"login", "refresh"} => holder = u
       /\ holder = u => user[u].at \in {"queued", "login", "refresh"}
       /\ user[u].at = "queued" => holder # "none"

\* The variables hold what their comments say, and _auth_lock is sound.
TypeOK ==
  /\ phase \in Phases /\ cached \in BOOLEAN /\ password \in BOOLEAN
  /\ token \in Tokens /\ session \in BOOLEAN /\ left \in Nat /\ refresh \in BOOLEAN
  /\ failures \in 0..3 /\ upsets \in 0..MaxUpsets
  /\ user \in [Users -> UserStates]
  /\ LockOK

\* A handshake or a read, with its second endpoint, is over before the token
\* it carries expires, however long the token's own answer was under way and
\* also if it lives for less than the floor: only a revoked one is refused.
TokenOutlives == \A u \in Users : user[u].at \in Asking => user[u].life # 0

\* Users that queue behind a login do not log in again: a new token replaces
\* one that is missing, due or no longer accepted, and nothing else.
OneLogin ==
  [][\A u \in Users : LoginOk(u) \/ RefreshOk(u) => Missing \/ Due]_vars

\* Whoever waits for the session, in the line or in a request, gets on, with an
\* answer or an exception; and setup comes to an end, with a running entry or
\* with a form to fill in.
UsersReturn ==
  \A u \in Users : user[u].at \in {"queued"} \cup Waiting ~> user[u].at \in {"idle", "live"}

SetupEnds == phase \in {"start", "setup", "retry"} ~> phase \in {"running", "reauth"}

WaitsEnd == UsersReturn /\ SetupEnds

\* Nobody is at a dead end: whoever holds the lock or has a request under way
\* has a next step, and so has a setup that is not under way and a supervisor
\* without a session. What WaitsEnd and StaysReachable rest on.
EverybodyCanStep ==
  /\ \A u \in Users :
       holder = u \/ user[u].at \in Waiting => ENABLED <<UserStep(u)>>_vars
  /\ phase \in {"start", "retry"} => ENABLED <<Setup>>_vars
  /\ phase = "running" /\ user["sup"].at = "idle" => ENABLED <<Ask("sup", "loop")>>_vars

\* As long as the password is right the client connects again and again,
\* whatever was revoked, refused or dropped before.
StaysReachable ==
  []<>(user["sup"].at = "live" \/ ~password \/ phase = "reauth")

\* In the end nothing is revoked, fails, is cancelled, changed or reloaded any
\* more: each such disturbance uses up one of MaxUpsets.
CalmsDown == <>[][upsets' = upsets]_vars
=============================================================================
