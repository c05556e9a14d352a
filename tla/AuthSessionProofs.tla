------------------------- MODULE AuthSessionProofs -------------------------
(***************************************************************************)
(* Machine-checked proofs about AuthSession, for all timeouts, margins,    *)
(* floors and lifetimes that AuthAssumption allows.                        *)
(***************************************************************************)
EXTENDS AuthSession, TLAPS

\* Who logs in or refreshes was right to, and stays right: nobody else gets
\* tokens while it holds the lock.
Needed == \A u \in Users : user[u].at \in {"login", "refresh"} => Missing \/ Due

\* As long as the client counts on a token, the cloud does so for longer than
\* any use of it takes, less what the margin makes up for.
Covered ==
  /\ token.have => token.life >= -1
  /\ token.have /\ token.life # -1 /\ left > 0 => token.life + Margin >= left + Longest

\* What a token has to last for when its user is in state e: a read may have
\* its second endpoint ahead.
Ahead(u, e) == e.timer + (IF u = "rest" /\ e.at = "asking" THEN Timeout ELSE 0)

Lasts(u, e) == e.at \in Asking => e.life = -1 \/ e.life > Ahead(u, e)

Carried == \A u \in Users : Lasts(u, user[u])

\* A client that has just been made has no token and no user.
Clean == phase = "start" => ~token.have /\ \A u \in Users : user[u].at = "idle"

AuthInv == TypeOK /\ Needed /\ Covered /\ Carried /\ Clean

LEMMA LongestBound ==
  Longest \in Nat /\ Longest > 0 /\ Longest >= Arrival /\ Longest >= 2 * Timeout
BY AuthAssumption DEF Longest

\* A user that starts to wait keeps its reason and its token.
LEMMA AtIs ==
  ASSUME TypeOK, NEW u \in Users, NEW at \in Waiting
  PROVE  /\ At(u, at) \in UserStates
         /\ At(u, at).at = at /\ At(u, at).life = user[u].life
         /\ At(u, at).timer = Limit(u, at) /\ Limit(u, at) \in Nat
<1>1. user[u] \in UserStates
  BY DEF TypeOK
<1>2. Limit(u, at) \in Nat
  BY AuthAssumption DEF Limit
<1> QED BY <1>1, <1>2 DEF At, UserStates, Waiting

LEMMA IdleIs == Idle \in UserStates /\ Idle.at = "idle" /\ \A u \in Users : Lasts(u, Idle)
BY DEF Idle, UserStates, Whys, Lasts, Asking

LEMMA NoTokenIs == NoToken \in Tokens /\ NoToken.have = FALSE
BY DEF NoToken, Tokens

\* One user's state changes, to one its token lasts for.
LEMMA Moved ==
  ASSUME TypeOK, Carried, NEW u \in Users, NEW e \in UserStates, Lasts(u, e),
         user' = [user EXCEPT ![u] = e]
  PROVE  /\ user' \in [Users -> UserStates] /\ Carried'
         /\ user'[u] = e /\ \A w \in Users \ {u} : user'[w] = user[w]
<1>1. user \in [Users -> UserStates]
  BY DEF TypeOK
<1>2. user' \in [Users -> UserStates] /\ user'[u] = e
      /\ \A w \in Users \ {u} : user'[w] = user[w]
  BY <1>1
<1> QED BY <1>2 DEF Carried, Lasts, Ahead

\* Whoever releases the lock hands it to the other if that one waits.
LEMMA HandedOver ==
  ASSUME TypeOK, NEW u \in Users, user'[u].at \in {"idle", "live", "asking", "again"},
         \A w \in Users \ {u} : user'[w] = user[w], holder' = Released(u)
  PROVE  LockOK'
BY DEF TypeOK, LockOK, Released, Other, Users, Waiting, Asking

\* The lock stays where it is while its holder goes on, or someone comes.
LEMMA LockStays ==
  ASSUME TypeOK, NEW u \in Users, holder' = holder,
         \A w \in Users \ {u} : user'[w] = user[w],
         \/ holder = u /\ user'[u].at \in {"login", "refresh"}
         \/ holder # u /\ user'[u].at \notin {"queued", "login", "refresh"}
  PROVE  LockOK'
BY DEF TypeOK, LockOK, Users

\* A token that is there, and not due, lasts for whatever it is sent with.
LEMMA EnoughLeft ==
  ASSUME TypeOK, Covered, ~Missing, ~Due, NEW u \in Users
  PROVE  token.life = -1 \/ token.life > Longest
BY LongestBound, AuthAssumption DEF TypeOK, Tokens, Covered, Missing, Due

\* A request that leaves with such a token.
LEMMA SentWell ==
  ASSUME TypeOK, Carried, NEW u \in Users, NEW t \in Tokens, t.life = -1 \/ t.life > Longest,
         Sends(u, t)
  PROVE  /\ user' \in [Users -> UserStates] /\ Carried' /\ LockOK'
         /\ user'[u].at = "asking" /\ \A w \in Users \ {u} : user'[w] = user[w]
<1> DEFINE e == [At(u, "asking") EXCEPT !.life = t.life]
<1>1. /\ At(u, "asking") \in UserStates /\ At(u, "asking").at = "asking"
      /\ At(u, "asking").timer = Limit(u, "asking") /\ t.life \in Int
  BY AtIs DEF Waiting, Tokens
<1>2. e \in UserStates /\ e.at = "asking" /\ e.timer = Limit(u, "asking") /\ e.life = t.life
  BY <1>1 DEF UserStates
<1>3. Lasts(u, e)
  BY <1>2, LongestBound, AuthAssumption DEF Lasts, Ahead, Limit, Tokens, Users
<1>4. user' = [user EXCEPT ![u] = e] /\ holder' = Released(u)
  BY DEF Sends
<1> HIDE DEF e
<1>5. /\ user' \in [Users -> UserStates] /\ Carried'
      /\ user'[u] = e /\ \A w \in Users \ {u} : user'[w] = user[w]
  BY <1>2, <1>3, <1>4, Moved
<1>6. LockOK'
  BY <1>2, <1>4, <1>5, HandedOver
<1> QED BY <1>2, <1>5, <1>6

\* New tokens last long enough, and their owner was the only one to log in.
LEMMA Applied ==
  ASSUME AuthInv, NEW u \in Users, NEW keeps \in BOOLEAN,
         user[u].at \in {"login", "refresh"}, Applies(u, keeps),
         UNCHANGED <<cached, password, upsets>>
  PROVE  AuthInv'
<1> USE DEF AuthInv
<1>1. PICK l \in Lives, delay \in 0..(Timeout - user[u].timer), r \in BOOLEAN :
        /\ token' = [have |-> TRUE, life |-> l - delay] /\ session' = TRUE
        /\ left' = More(Floor, l) /\ refresh' = (r \/ (keeps /\ refresh))
        /\ Sends(u, [have |-> TRUE, life |-> l - delay])
  BY DEF Applies
<1>2. UNCHANGED <<phase, failures>>
  BY DEF Applies
<1>3. user[u].timer \in Nat
  BY DEF TypeOK, UserStates
<1>4. /\ l \in Nat /\ l > Timeout + Longest /\ l + Margin >= Floor + Timeout + Longest
      /\ delay \in Nat /\ delay <= Timeout
  BY <1>3, AuthAssumption
<1>5. token' \in Tokens /\ token'.life = l - delay /\ token'.life > Longest
  BY <1>1, <1>4, LongestBound, AuthAssumption DEF Tokens
<1>6. /\ user' \in [Users -> UserStates] /\ Carried' /\ LockOK'
      /\ user'[u].at = "asking" /\ \A w \in Users \ {u} : user'[w] = user[w]
  BY <1>1, <1>5, SentWell
<1>7. left' \in Nat
  BY <1>1, <1>4, AuthAssumption DEF More
<1>8. TypeOK'
  BY <1>1, <1>2, <1>5, <1>6, <1>7 DEF TypeOK
<1>9. Covered'
  BY <1>1, <1>4, <1>5, LongestBound, AuthAssumption DEF Covered, More
<1>10. Needed'
  BY <1>6 DEF Needed, TypeOK, LockOK
<1>11. Clean'
  BY <1>2 DEF Clean
<1> QED BY <1>6, <1>8, <1>9, <1>10, <1>11

\* An exception ends the request; tokens are dropped, never gained.
LEMMA Raised ==
  ASSUME AuthInv, NEW u \in Users, NEW refused \in BOOLEAN, NEW t \in {token, NoToken},
         Raises(u, refused, t), phase' \in Phases, upsets' \in 0..MaxUpsets,
         phase' = "start" => phase = "start", user[u].at # "idle",
         UNCHANGED <<cached, password>>
  PROVE  AuthInv'
<1> USE DEF AuthInv
<1>1. user' = [user EXCEPT ![u] = Idle] /\ holder' = Released(u) /\ refresh' = refresh
  BY DEF Raises
<1>2. /\ user' \in [Users -> UserStates] /\ Carried'
      /\ user'[u] = Idle /\ \A w \in Users \ {u} : user'[w] = user[w]
  BY <1>1, IdleIs, Moved
<1>3. LockOK'
  BY <1>1, <1>2, IdleIs, HandedOver
<1>4. failures \in 0..3 /\ Less(3, failures + 1) \in 0..3
  BY DEF TypeOK, Less
<1>5. /\ token' = token \/ token' = NoToken
      /\ left' = left \/ (left' = 0 /\ token' = NoToken)
      /\ failures' \in 0..3
  <2> DEFINE kept == IF refused /\ user[u].why # "call" THEN NoToken ELSE t
  <2>1. kept = token \/ kept = NoToken
    OBVIOUS
  <2>2. CASE u = "sup"
    <3>1. Counts(Less(3, failures + 1), kept)
      BY <2>2 DEF Raises
    <3> QED BY <2>1, <3>1, <1>4 DEF Counts
  <2>3. CASE u # "sup"
    <3>1. token' = kept /\ UNCHANGED <<session, left, failures>>
      BY <2>3 DEF Raises
    <3> QED BY <2>1, <3>1, <1>4
  <2> QED BY <2>2, <2>3
<1>6. session' \in BOOLEAN /\ (session' => session)
  <2>1. CASE session' = session
    BY <2>1 DEF TypeOK
  <2>2. CASE session' = (session /\ Less(3, failures + 1) # 3)
    BY <2>2
  <2> QED BY <2>1, <2>2 DEF Raises, Counts
<1>7. TypeOK'
  BY <1>1, <1>2, <1>3, <1>5, <1>6, NoTokenIs DEF TypeOK
<1>8. Covered'
  BY <1>5, NoTokenIs DEF Covered
<1>9. Missing \/ Due => (Missing \/ Due)'
  <2>1. CASE token' = NoToken
    BY <2>1, NoTokenIs DEF Missing
  <2>2. CASE token' = token /\ left' = left
    BY <2>2, <1>6 DEF Missing, Due
  <2> QED BY <2>1, <2>2, <1>5
<1>10. Needed'
  BY <1>2, <1>9, IdleIs DEF Needed
<1>11. Clean'
  BY DEF Clean
<1> QED BY <1>2, <1>7, <1>8, <1>10, <1>11

\* A new client has no token, and nobody uses it.
LEMMA Fresh ==
  ASSUME AuthInv, NewClient, phase' \in Phases, upsets' \in 0..MaxUpsets,
         cached' \in BOOLEAN, password' \in BOOLEAN
  PROVE  AuthInv'
<1>1. user' = [u \in Users |-> Idle] /\ user' \in [Users -> UserStates]
  BY IdleIs DEF NewClient
<1>2. LockOK'
  BY <1>1, IdleIs DEF NewClient, LockOK, Users
<1>3. TypeOK'
  <2>1. token' \in Tokens /\ session' = FALSE /\ left' = 0 /\ refresh' = FALSE /\ failures' = 0
    BY NoTokenIs DEF NewClient
  <2>2. session' \in BOOLEAN /\ refresh' \in BOOLEAN
    BY <2>1
  <2> QED BY <1>1, <1>2, <2>1, <2>2 DEF TypeOK
<1>4. Needed' /\ Carried'
  BY <1>1, IdleIs DEF Needed, Carried
<1>5. Covered'
  BY NoTokenIs DEF NewClient, Covered
<1>6. Clean'
  BY <1>1, NoTokenIs, IdleIs DEF NewClient, Clean
<1> QED BY <1>3, <1>4, <1>5, <1>6 DEF AuthInv

\* Types, the lock, and what a token still lasts for are inductive together.
THEOREM AuthCorrect == Spec => []AuthInv
<1>1. Init => AuthInv
  <2> SUFFICES ASSUME Init PROVE AuthInv
    OBVIOUS
  <2>1. user = [u \in Users |-> Idle] /\ user \in [Users -> UserStates]
    BY IdleIs DEF Init
  <2>2. LockOK
    BY <2>1, IdleIs DEF Init, LockOK, Users
  <2>3. token \in Tokens /\ token.have = FALSE
    BY NoTokenIs DEF Init
  <2>4. TypeOK
    <3>1. phase \in Phases /\ failures \in 0..3 /\ upsets \in 0..MaxUpsets /\ left \in Nat
      BY AuthAssumption DEF Init, Phases
    <3>2. cached \in BOOLEAN /\ password \in BOOLEAN /\ session \in BOOLEAN /\ refresh \in BOOLEAN
      BY DEF Init
    <3> QED BY <2>1, <2>2, <2>3, <3>1, <3>2 DEF TypeOK
  <2>5. Needed /\ Carried
    BY <2>1, IdleIs DEF Needed, Carried
  <2> QED BY <2>1, <2>3, <2>4, <2>5, IdleIs DEF AuthInv, Covered, Clean
<1>2. AuthInv /\ [Next]_vars => AuthInv'
  <2> SUFFICES ASSUME AuthInv, [Next]_vars PROVE AuthInv'
    OBVIOUS
  <2>0. /\ TypeOK /\ Needed /\ Covered /\ Carried /\ Clean
        /\ Upset => upsets' \in 0..MaxUpsets
        /\ upsets \in 0..MaxUpsets
    BY AuthAssumption DEF AuthInv, TypeOK, Upset
  <2>1. ASSUME NEW u \in Users, NEW why \in {"loop", "call"}, Ask(u, why) PROVE AuthInv'
    <3> DEFINE e == [Idle EXCEPT !.at = "queued", !.why = why]
    <3>1. e \in UserStates /\ e.at = "queued" /\ Lasts(u, e)
      BY IdleIs DEF UserStates, Whys, Lasts, Asking, Waiting
    <3>2. user' = [user EXCEPT ![u] = e] /\ user[u].at = "idle"
          /\ holder' = (IF holder = "none" THEN u ELSE holder) /\ phase # "start"
          /\ UNCHANGED <<phase, cached, token, session, left, refresh, failures, password, upsets>>
      BY <2>1 DEF Ask
    <3> HIDE DEF e
    <3>3. /\ user' \in [Users -> UserStates] /\ Carried' /\ user'[u] = e
          /\ \A w \in Users \ {u} : user'[w] = user[w]
      BY <2>0, <3>1, <3>2, Moved
    <3>4. LockOK'
      BY <2>0, <3>1, <3>2, <3>3 DEF TypeOK, LockOK, Users
    <3>5. TypeOK'
      BY <2>0, <3>2, <3>3, <3>4 DEF TypeOK
    <3>6. Needed' /\ Covered' /\ Clean'
      BY <2>0, <3>1, <3>2, <3>3 DEF Needed, Covered, Clean, Missing, Due
    <3> QED BY <3>3, <3>5, <3>6 DEF AuthInv
  <2>2. ASSUME NEW u \in Users, Enter(u) PROVE AuthInv'
    <3>1. /\ user[u].at = "queued" /\ holder = u
          /\ UNCHANGED <<phase, cached, token, session, left, refresh, failures, password, upsets>>
      BY <2>2 DEF Enter
    <3>2. ASSUME NEW at \in {"login", "refresh"}, user' = [user EXCEPT ![u] = At(u, at)],
                 holder' = holder, Missing \/ Due
          PROVE  AuthInv'
      <4>1. At(u, at) \in UserStates /\ At(u, at).at = at /\ Lasts(u, At(u, at))
        BY <2>0, AtIs DEF Waiting, Lasts, Asking
      <4>2. /\ user' \in [Users -> UserStates] /\ Carried' /\ user'[u] = At(u, at)
            /\ \A w \in Users \ {u} : user'[w] = user[w]
        BY <2>0, <3>2, <4>1, Moved
      <4>3. LockOK'
        BY <2>0, <3>1, <3>2, <4>1, <4>2, LockStays
      <4>4. TypeOK' /\ Needed' /\ Covered' /\ Clean'
        BY <2>0, <3>1, <3>2, <4>2, <4>3 DEF TypeOK, Needed, Covered, Clean, Missing, Due
      <4> QED BY <4>2, <4>4 DEF AuthInv
    <3>3. ASSUME ~Missing, ~Due, Sends(u, token) PROVE AuthInv'
      <4>1. token \in Tokens /\ (token.life = -1 \/ token.life > Longest)
        BY <2>0, <3>3, EnoughLeft DEF TypeOK
      <4>2. /\ user' \in [Users -> UserStates] /\ Carried' /\ LockOK'
            /\ user'[u].at = "asking" /\ \A w \in Users \ {u} : user'[w] = user[w]
        BY <2>0, <3>3, <4>1, SentWell
      <4>3. TypeOK' /\ Needed' /\ Covered' /\ Clean'
        BY <2>0, <3>1, <4>2 DEF TypeOK, Needed, Covered, Clean, Missing, Due
      <4> QED BY <4>2, <4>3 DEF AuthInv
    <3> QED BY <2>2, <3>2, <3>3 DEF Enter
  <2>3. ASSUME NEW u \in Users, LoginOk(u) \/ RefreshOk(u) PROVE AuthInv'
    BY <2>3, Applied DEF LoginOk, RefreshOk
  <2>4. ASSUME NEW u \in Users, NEW outcome, SetupAfter(u, outcome)
        PROVE  phase' \in Phases /\ (phase' = "start" => phase = "start")
    BY <2>0, <2>4 DEF SetupAfter, TypeOK, Phases
  <2>5. ASSUME NEW u \in Users,
               \/ LoginRejected(u) \/ LoginUnreachable(u) \/ RefreshUnusable(u)
               \/ Refused(u) \/ RequestFails(u)
        PROVE  AuthInv'
    <3>1. /\ UNCHANGED <<cached, password>> /\ user[u].at # "idle"
          /\ upsets' = upsets \/ Upset
      BY <2>5 DEF LoginRejected, LoginUnreachable, RefreshUnusable, Refused, RequestFails, Asking
    <3>2. phase' \in Phases /\ (phase' = "start" => phase = "start")
      <4>1. CASE phase' = phase
        BY <2>0, <4>1 DEF TypeOK
      <4>2. ASSUME NEW outcome, SetupAfter(u, outcome)
            PROVE  phase' \in Phases /\ (phase' = "start" => phase = "start")
        BY <2>4, <4>2
      <4> QED BY <2>5, <4>1, <4>2
              DEF LoginRejected, LoginUnreachable, RefreshUnusable, Refused, RequestFails
    <3>3. upsets' \in 0..MaxUpsets
      BY <2>0, <3>1
    <3>4. \/ Raises(u, TRUE, token) \/ Raises(u, FALSE, token) \/ Raises(u, TRUE, NoToken)
      BY <2>5 DEF LoginRejected, LoginUnreachable, RefreshUnusable, Refused, RequestFails
    <3> QED BY <3>1, <3>2, <3>3, <3>4, Raised
  <2>6. ASSUME NEW u \in Users, RefreshFails(u) PROVE AuthInv'
    <3>1. /\ user[u].at = "refresh" /\ user' = [user EXCEPT ![u] = At(u, "login")]
          /\ UNCHANGED <<phase, cached, token, session, left, refresh, holder, failures,
                         password, upsets>>
      BY <2>6 DEF RefreshFails
    <3>2. At(u, "login") \in UserStates /\ At(u, "login").at = "login" /\ Lasts(u, At(u, "login"))
      BY <2>0, AtIs DEF Waiting, Lasts, Asking
    <3>3. /\ user' \in [Users -> UserStates] /\ Carried' /\ user'[u] = At(u, "login")
          /\ \A w \in Users \ {u} : user'[w] = user[w]
      BY <2>0, <3>1, <3>2, Moved
    <3>4. LockOK'
      BY <2>0, <3>1, <3>2, <3>3, LockStays DEF TypeOK, LockOK
    <3>5. TypeOK' /\ Needed' /\ Covered' /\ Clean'
      BY <2>0, <3>1, <3>3, <3>4 DEF TypeOK, Needed, Covered, Clean, Missing, Due
    <3> QED BY <3>3, <3>5 DEF AuthInv
  <2>7. ASSUME NEW u \in Users, Accepted(u) PROVE AuthInv'
    <3> DEFINE e == IF u = "sup" THEN [Idle EXCEPT !.at = "live"] ELSE Idle
    <3>1. e \in UserStates /\ e.at \in {"idle", "live"} /\ Lasts(u, e)
      BY IdleIs DEF UserStates, Lasts, Asking, Waiting
    <3>2. user[u].at \in Asking /\ user' = [user EXCEPT ![u] = e] /\ cached' \in {cached, TRUE}
          /\ UNCHANGED <<token, session, left, refresh, holder, failures, password, upsets>>
      BY <2>7 DEF Accepted
    <3> HIDE DEF e
    <3>3. phase' \in Phases /\ (phase' = "start" => phase = "start")
      BY <2>4, <2>7 DEF Accepted
    <3>4. /\ user' \in [Users -> UserStates] /\ Carried' /\ user'[u] = e
          /\ \A w \in Users \ {u} : user'[w] = user[w]
      BY <2>0, <3>1, <3>2, Moved
    <3>5. holder # u
      BY <2>0, <3>2 DEF TypeOK, LockOK, Asking
    <3>6. LockOK'
      BY <2>0, <3>1, <3>2, <3>4, <3>5, LockStays
    <3>7. Needed' /\ Covered' /\ Clean'
      BY <2>0, <3>1, <3>2, <3>3, <3>4 DEF Needed, Covered, Clean, Missing, Due, Asking
    <3>8. cached' \in BOOLEAN
      BY <2>0, <3>2 DEF TypeOK
    <3>9. TypeOK'
      BY <2>0, <3>2, <3>3, <3>4, <3>6, <3>8 DEF TypeOK
    <3> QED BY <3>4, <3>7, <3>9 DEF AuthInv
  <2>8. CASE AskAgain
    <3> DEFINE e == At("rest", "again")
    <3>1. /\ user["rest"].at = "asking" /\ user' = [user EXCEPT !["rest"] = e]
          /\ UNCHANGED <<phase, cached, token, session, left, refresh, holder, failures,
                         password, upsets>>
      BY <2>8 DEF AskAgain
    <3>2. e \in UserStates /\ e.at = "again" /\ e.timer = Timeout /\ e.life = user["rest"].life
      BY <2>0, AtIs DEF Users, Waiting, Limit
    <3>3. user["rest"] \in UserStates /\ "rest" \in Users
      BY <2>0 DEF TypeOK, Users
    <3>4. user["rest"].life = -1 \/ user["rest"].life > user["rest"].timer + Timeout
      BY <2>0, <3>1, <3>3 DEF Carried, Lasts, Ahead, Asking
    <3>5. Lasts("rest", e)
      BY <3>2, <3>3, <3>4, AuthAssumption DEF Lasts, Ahead, UserStates
    <3> HIDE DEF e
    <3>6. /\ user' \in [Users -> UserStates] /\ Carried' /\ user'["rest"] = e
          /\ \A w \in Users \ {"rest"} : user'[w] = user[w]
      BY <2>0, <3>1, <3>2, <3>3, <3>5, Moved
    <3>7. LockOK'
      BY <2>0, <3>1, <3>2, <3>3, <3>6, LockStays DEF TypeOK, LockOK
    <3>8. TypeOK' /\ Needed' /\ Covered' /\ Clean'
      BY <2>0, <3>1, <3>2, <3>6, <3>7 DEF TypeOK, Needed, Covered, Clean, Missing, Due
    <3> QED BY <3>6, <3>8 DEF AuthInv
  <2>9. CASE SessionEnds
    <3>1. PICK f \in {0, 1, failures, Less(3, failures + 1)} : Counts(f, token)
      BY <2>9 DEF SessionEnds
    <3>2. /\ user["sup"].at = "live" /\ user' = [user EXCEPT !["sup"] = Idle]
          /\ UNCHANGED <<phase, cached, refresh, holder, password, upsets>>
      BY <2>9 DEF SessionEnds
    <3>3. "sup" \in Users /\ f \in 0..3
      BY <2>0 DEF Users, TypeOK, Less
    <3>4. /\ user' \in [Users -> UserStates] /\ Carried' /\ user'["sup"] = Idle
          /\ \A w \in Users \ {"sup"} : user'[w] = user[w]
      BY <2>0, <3>2, <3>3, IdleIs, Moved
    <3>5. LockOK'
      BY <2>0, <3>2, <3>3, <3>4, IdleIs, LockStays DEF TypeOK, LockOK
    <3>6. \/ token' = token /\ session' = session /\ left' = left
          \/ token' = NoToken /\ session' = FALSE /\ left' = 0
      <4>1. CASE f = 3
        BY <3>1, <4>1 DEF Counts
      <4>2. CASE f # 3
        BY <2>0, <3>1, <4>2 DEF Counts, TypeOK
      <4> QED BY <4>1, <4>2
    <3>7. TypeOK'
      BY <2>0, <3>1, <3>2, <3>3, <3>4, <3>5, <3>6, NoTokenIs DEF TypeOK, Counts
    <3>8. Needed' /\ Covered' /\ Clean'
      BY <2>0, <3>2, <3>3, <3>4, <3>6, IdleIs, NoTokenIs DEF Needed, Covered, Clean, Missing, Due
    <3> QED BY <3>4, <3>7, <3>8 DEF AuthInv
  <2>10. CASE Cancelled
    <3>1. /\ holder' = Released("rest") /\ user' = [user EXCEPT !["rest"] = Idle] /\ Upset
          /\ UNCHANGED <<phase, cached, token, session, left, refresh, failures, password>>
      BY <2>10 DEF Cancelled
    <3>2. "rest" \in Users
      BY DEF Users
    <3>3. /\ user' \in [Users -> UserStates] /\ Carried' /\ user'["rest"] = Idle
          /\ \A w \in Users \ {"rest"} : user'[w] = user[w]
      BY <2>0, <3>1, <3>2, IdleIs, Moved
    <3>4. LockOK'
      BY <2>0, <3>1, <3>2, <3>3, IdleIs, HandedOver
    <3>5. TypeOK' /\ Needed' /\ Covered' /\ Clean'
      BY <2>0, <3>1, <3>3, <3>4, IdleIs DEF TypeOK, Needed, Covered, Clean, Missing, Due
    <3> QED BY <3>3, <3>5 DEF AuthInv
  <2>11. CASE SetupBegins
    <3> DEFINE e == [At("rest", "login") EXCEPT !.why = "setup"]
    <3>1. /\ phase = "start" /\ phase' = "setup" /\ holder' = "rest"
          /\ user' = [user EXCEPT !["rest"] = e]
          /\ UNCHANGED <<cached, token, session, left, refresh, failures, password, upsets>>
      BY <2>11 DEF SetupBegins
    <3>2. /\ "rest" \in Users /\ ~token.have /\ \A w \in Users : user[w].at = "idle"
      BY <2>0, <3>1 DEF Clean, Users
    <3>3. e \in UserStates /\ e.at = "login" /\ Lasts("rest", e)
      BY <2>0, <3>2, AtIs DEF UserStates, Waiting, Whys, Lasts, Asking
    <3> HIDE DEF e
    <3>4. /\ user' \in [Users -> UserStates] /\ Carried' /\ user'["rest"] = e
          /\ \A w \in Users \ {"rest"} : user'[w] = user[w]
      BY <2>0, <3>1, <3>2, <3>3, Moved
    <3>5. LockOK'
      BY <3>1, <3>2, <3>3, <3>4 DEF LockOK
    <3>6. TypeOK' /\ Needed' /\ Covered' /\ Clean'
      BY <2>0, <3>1, <3>2, <3>4, <3>5 DEF TypeOK, Needed, Covered, Clean, Missing, Phases
    <3> QED BY <3>4, <3>6 DEF AuthInv
  <2>12. CASE SetupRetried \/ Reauthenticated \/ Reloaded
    <3>1. /\ NewClient /\ phase' = "start" /\ cached' = cached
          /\ password' = password \/ password' = TRUE
          /\ upsets' = upsets \/ Upset
      BY <2>12 DEF SetupRetried, Reauthenticated, Reloaded
    <3> QED BY <2>0, <3>1, Fresh DEF TypeOK, Phases
  <2>13. CASE PasswordChanged
    <3>1. /\ UNCHANGED <<phase, cached, clientVars>> /\ password' = FALSE /\ Upset
      BY <2>13 DEF PasswordChanged
    <3> QED BY <2>0, <3>1 DEF AuthInv, TypeOK, LockOK, Needed, Covered, Carried, Lasts, Ahead, Clean,
                              Missing, Due, clientVars
  <2>14. CASE Revoked
    <3>1. /\ token' = [token EXCEPT !.life = -1] /\ Upset
          /\ UNCHANGED <<phase, cached, session, left, refresh, holder, failures, password>>
          /\ user' = [u \in Users |-> IF user[u].at \in Asking THEN [user[u] EXCEPT !.life = -1]
                                      ELSE user[u]]
      BY <2>14 DEF Revoked
    <3>2. token' \in Tokens /\ token'.have = token.have /\ token'.life = -1
      BY <2>0, <3>1 DEF TypeOK, Tokens
    <3>3. ASSUME NEW u \in Users
          PROVE  /\ user'[u] \in UserStates /\ user'[u].at = user[u].at /\ Lasts(u, user'[u])
      <4>1. user[u] \in UserStates
        BY <2>0 DEF TypeOK
      <4>2. CASE user[u].at \in Asking
        BY <3>1, <4>1, <4>2 DEF UserStates, Lasts
      <4>3. CASE user[u].at \notin Asking
        BY <3>1, <4>1, <4>3 DEF Lasts
      <4> QED BY <4>2, <4>3
    <3>4. user' \in [Users -> UserStates] /\ Carried' /\ LockOK'
      BY <2>0, <3>1, <3>3 DEF Carried, Lasts, Ahead, TypeOK, LockOK
    <3>5. TypeOK' /\ Needed' /\ Covered' /\ Clean'
      BY <2>0, <3>1, <3>2, <3>3, <3>4 DEF TypeOK, Needed, Covered, Clean, Missing, Due
    <3> QED BY <3>4, <3>5 DEF AuthInv
  <2>15. CASE Tick
    <3>1. UNCHANGED <<phase, cached, session, refresh, holder, failures, password, upsets>>
      BY <2>15 DEF Tick
    <3>2. \A u \in Users : user[u].at \in Waiting => user[u].timer > 0
      BY <2>15 DEF Tick
    <3>3. /\ left' \in Nat /\ (left' > 0 => left' = left - 1) /\ left' <= left
      <4>1. left' = More(0, left - 1) /\ left \in Nat
        BY <2>0, <2>15 DEF Tick, TypeOK
      <4> QED BY <4>1 DEF More
    <3>4. /\ token' \in Tokens /\ token'.have = token.have
          /\ token'.life = (IF token.life > 0 THEN token.life - 1 ELSE token.life)
      <4>1. token' = (IF token.life > 0 THEN [token EXCEPT !.life = token.life - 1] ELSE token)
        BY <2>15 DEF Tick
      <4>2. token \in Tokens
        BY <2>0 DEF TypeOK
      <4> QED BY <4>1, <4>2 DEF Tokens
    <3>5. ASSUME NEW u \in Users
          PROVE  user'[u] \in UserStates /\ user'[u].at = user[u].at /\ Lasts(u, user'[u])
      <4>1. user[u] \in UserStates /\ Lasts(u, user[u])
        BY <2>0 DEF TypeOK, Carried
      <4>2. user'[u] = [user[u] EXCEPT !.timer = More(0, user[u].timer - 1),
                          !.life = IF user[u].at \in Asking /\ user[u].life > 0
                                   THEN user[u].life - 1 ELSE user[u].life]
        BY <2>15 DEF Tick
      <4>3. /\ user'[u].at = user[u].at /\ user'[u].why = user[u].why
            /\ user'[u].timer = More(0, user[u].timer - 1)
            /\ user'[u].life = (IF user[u].at \in Asking /\ user[u].life > 0
                               THEN user[u].life - 1 ELSE user[u].life)
        BY <4>1, <4>2 DEF UserStates
      <4>5. More(0, user[u].timer - 1) \in Nat
        BY <4>1 DEF UserStates, More
      <4>6. user'[u] \in UserStates
        <5>1. \A t \in Nat, l \in Int : [user[u] EXCEPT !.timer = t, !.life = l] \in UserStates
          BY <4>1 DEF UserStates
        <5> DEFINE l == IF user[u].at \in Asking /\ user[u].life > 0
                        THEN user[u].life - 1 ELSE user[u].life
        <5>2. l \in Int
          BY <4>1 DEF UserStates
        <5>3. user'[u] = [user[u] EXCEPT !.timer = More(0, user[u].timer - 1), !.life = l]
          BY <4>2
        <5> HIDE DEF l
        <5> QED BY <4>5, <5>1, <5>2, <5>3
      <4>4. user[u].at \in Asking => user[u].timer > 0
        BY <3>2 DEF Asking, Waiting
      <4> QED BY <4>1, <4>3, <4>4, <4>6, AuthAssumption DEF UserStates, Lasts, Ahead, More
    <3>6. user' \in [Users -> UserStates] /\ Carried'
      <4>1. user' = [u \in Users |-> user'[u]]
        BY <2>15 DEF Tick
      <4> QED BY <3>5, <4>1 DEF Carried
    <3>7. LockOK' /\ Needed' /\ Clean'
      <4>1. LockOK'
        BY <2>0, <3>1, <3>5 DEF TypeOK, LockOK
      <4>2. Missing \/ Due => (Missing \/ Due)'
        BY <2>0, <3>1, <3>3, <3>4, AuthAssumption DEF TypeOK, Missing, Due
      <4>3. Needed' /\ Clean'
        BY <2>0, <3>1, <3>4, <3>5, <4>2 DEF Needed, Clean
      <4> QED BY <4>1, <4>3
    <3>8. Covered'
      BY <2>0, <3>3, <3>4, AuthAssumption, LongestBound DEF TypeOK, Tokens, Covered
    <3>9. TypeOK'
      BY <2>0, <3>1, <3>3, <3>4, <3>6, <3>7 DEF TypeOK
    <3> QED BY <3>6, <3>7, <3>8, <3>9 DEF AuthInv
  <2>16. CASE UNCHANGED vars
    BY <2>0, <2>16 DEF AuthInv, TypeOK, LockOK, Needed, Covered, Carried, Lasts, Ahead, Clean,
                      Missing, Due, vars, clientVars
  <2> QED BY <2>1, <2>2, <2>3, <2>5, <2>6, <2>7, <2>8, <2>9, <2>10, <2>11, <2>12, <2>13,
             <2>14, <2>15, <2>16 DEF Next, UserStep, Setup, Users
<1> QED BY <1>1, <1>2, PTL DEF Spec

\* The types, and a lock that is neither lost nor doubled.
THEOREM AuthTypes == Spec => []TypeOK
<1>1. AuthInv => TypeOK
  BY DEF AuthInv
<1> QED BY <1>1, AuthCorrect, PTL

\* No request carries a token that runs out before the cloud has read it.
THEOREM TokensOutlive == Spec => []TokenOutlives
<1>1. AuthInv => TokenOutlives
  <2> SUFFICES ASSUME AuthInv, NEW u \in Users, user[u].at \in Asking PROVE user[u].life # 0
    BY DEF TokenOutlives
  <2>1. user[u].timer \in Nat /\ user[u].life \in Int
    BY DEF AuthInv, TypeOK, UserStates
  <2> QED BY <2>1, AuthAssumption DEF AuthInv, Carried, Lasts, Ahead
<1> QED BY <1>1, AuthCorrect, PTL

\* Nobody logs in or refreshes for nothing, however many wait for it.
THEOREM LoginsAreNeeded == Spec => OneLogin
<1>1. AuthInv /\ [Next]_vars =>
        [\A u \in Users : LoginOk(u) \/ RefreshOk(u) => Missing \/ Due]_vars
  BY DEF AuthInv, Needed, LoginOk, RefreshOk
<1> QED BY <1>1, AuthCorrect, PTL DEF Spec, OneLogin
-----------------------------------------------------------------------------
(* Progress of the users.                                                  *)

\* Where a user is on its way through a request, and where one step may take
\* it: never back.
Stage(u) ==
  IF user[u].at = "queued" THEN IF holder = u THEN "front" ELSE "line"
  ELSE IF user[u].at \in {"idle", "live"} THEN "back" ELSE user[u].at

In(u, s) == Stage(u) = s

Onward(s) ==
  CASE s = "line"    -> {"line", "front", "back"}
    [] s = "front"   -> {"front", "refresh", "login", "asking", "back"}
    [] s = "refresh" -> {"refresh", "login", "asking", "back"}
    [] s = "login"   -> {"login", "asking", "back"}
    [] s = "asking"  -> {"asking", "again", "back"}
    [] s = "again"   -> {"again", "back"}
    [] OTHER         -> {s}

LEMMA StagesAre ==
  ASSUME AuthInv, NEW u \in Users
  PROVE  /\ Stage(u) \in {"line", "front", "refresh", "login", "asking", "again", "back"}
         /\ Stage(u) = "line" => Stage(Other(u)) \in {"front", "refresh", "login"}
<1>1. user[u].at \in {"idle", "queued", "live"} \cup Waiting
  BY DEF AuthInv, TypeOK, UserStates
<1>2. Stage(u) \in {"line", "front", "refresh", "login", "asking", "again", "back"}
  BY <1>1 DEF Stage, Waiting
<1>3. ASSUME Stage(u) = "line" PROVE Stage(Other(u)) \in {"front", "refresh", "login"}
  <2>1. user[u].at = "queued" /\ holder # u
    BY <1>1, <1>3 DEF Stage, Waiting
  <2>2. Other(u) \in Users /\ holder = Other(u)
    BY <2>1 DEF AuthInv, TypeOK, LockOK, Users, Other
  <2>3. user[Other(u)].at \in {"queued", "login", "refresh"}
    BY <2>2 DEF AuthInv, TypeOK, LockOK
  <2> QED BY <2>2, <2>3 DEF Stage
<1> QED BY <1>2, <1>3

\* One user moves on, and the lock goes with it or to the one in the line.
LEMMA OneMoves ==
  ASSUME AuthInv, NEW u \in Users, NEW v \in Users, u # v,
         user'[u] = user[u], holder' = holder \/ holder' = Released(v)
  PROVE  Stage(u)' \in Onward(Stage(u))
<1>1. Other(v) = u
  BY DEF Users, Other
<1>2. holder' = holder \/ (holder = v /\ (holder' = u <=> user[u].at = "queued"))
  BY <1>1 DEF Released, Users
<1>3. Stage(u)' = Stage(u) \/ (Stage(u) = "line" /\ Stage(u)' = "front")
  BY <1>2 DEF Stage
<1> QED BY <1>3, StagesAre DEF Onward

\* A user is on its way and moves on; nobody else does, but for the lock.
Moves(v) ==
  /\ \A w \in Users \ {v} : user'[w] = user[w]
  /\ holder' = holder \/ holder' = Released(v)
  /\ Stage(v) \notin {"back", "line"}
  /\ Stage(v)' \in Onward(Stage(v)) \ {Stage(v)}

LEMMA EveryMove ==
  ASSUME AuthInv, NEW v \in Users,
         \/ UserStep(v) \/ LoginRejected(v) \/ LoginUnreachable(v)
         \/ RefreshUnusable(v) \/ RequestFails(v) \/ (v = "rest" /\ AskAgain)
  PROVE  Moves(v)
<1>1. user \in [Users -> UserStates] /\ TypeOK
  BY DEF AuthInv, TypeOK
<1>2. ASSUME NEW e, user' = [user EXCEPT ![v] = e]
      PROVE  user'[v] = e /\ \A w \in Users \ {v} : user'[w] = user[w]
  BY <1>1, <1>2
<1>3. ASSUME NEW at \in Waiting, NEW x,
             user' = [user EXCEPT ![v] = At(v, at)] \/ user' = [user EXCEPT ![v] = [At(v, at) EXCEPT !.life = x]]
      PROVE  user'[v].at = at /\ \A w \in Users \ {v} : user'[w] = user[w]
  <2>1. At(v, at) \in UserStates /\ At(v, at).at = at
    BY <1>1, AtIs
  <2>2. [At(v, at) EXCEPT !.life = x].at = at
    BY <2>1 DEF UserStates
  <2> QED BY <1>2, <1>3, <2>1, <2>2
<1>4. ASSUME user'[v].at \in {"idle", "live"}, user[v].at \in {"queued"} \cup Waiting, Stage(v) # "line",
             \A w \in Users \ {v} : user'[w] = user[w], holder' = holder \/ holder' = Released(v)
      PROVE  Moves(v)
  BY <1>4 DEF Moves, Stage, Onward, Waiting
<1>5. ASSUME NEW refused, NEW t, Raises(v, refused, t), user[v].at \in Waiting PROVE Moves(v)
  BY <1>2, <1>4, <1>5, IdleIs DEF Raises, Stage, Waiting
<1>6. CASE Enter(v)
  <2>1. Stage(v) = "front" /\ holder = v
    BY <1>6 DEF Enter, Stage
  <2>2. ASSUME NEW at \in {"login", "refresh"}, user' = [user EXCEPT ![v] = At(v, at)], holder' = holder
        PROVE  Moves(v)
    BY <1>3, <2>1, <2>2 DEF Moves, Onward, Waiting, Stage
  <2>3. CASE Sends(v, token)
    <3>1. user'[v].at = "asking" /\ (\A w \in Users \ {v} : user'[w] = user[w]) /\ holder' = Released(v)
      BY <1>3, <2>3 DEF Sends, Waiting
    <3> QED BY <2>1, <3>1 DEF Moves, Onward, Stage
  <2> QED BY <1>6, <2>2, <2>3 DEF Enter
<1>7. ASSUME NEW keeps, Applies(v, keeps), user[v].at \in {"login", "refresh"} PROVE Moves(v)
  <2>1. PICK t : Sends(v, t)
    BY <1>7 DEF Applies
  <2>2. user'[v].at = "asking" /\ (\A w \in Users \ {v} : user'[w] = user[w]) /\ holder' = Released(v)
    BY <1>3, <2>1 DEF Sends, Waiting
  <2> QED BY <1>7, <2>2 DEF Moves, Onward, Stage
<1>8. CASE RefreshFails(v)
  <2>1. user[v].at = "refresh" /\ holder' = holder /\ user' = [user EXCEPT ![v] = At(v, "login")]
    BY <1>8 DEF RefreshFails
  <2>2. user'[v].at = "login" /\ \A w \in Users \ {v} : user'[w] = user[w]
    BY <1>3, <2>1 DEF Waiting
  <2> QED BY <2>1, <2>2 DEF Moves, Onward, Stage
<1>9. CASE Accepted(v)
  <2>1. /\ user[v].at \in Waiting /\ Stage(v) # "line" /\ holder' = holder
        /\ user' = [user EXCEPT ![v] = IF v = "sup" THEN [Idle EXCEPT !.at = "live"] ELSE Idle]
    BY <1>9 DEF Accepted, Asking, Waiting, Stage
  <2>2. (IF v = "sup" THEN [Idle EXCEPT !.at = "live"] ELSE Idle).at \in {"idle", "live"}
    BY DEF Idle
  <2> QED BY <1>2, <1>4, <2>1, <2>2
<1>10. CASE v = "rest" /\ AskAgain
  <2>1. user[v].at = "asking" /\ holder' = holder /\ user' = [user EXCEPT ![v] = At(v, "again")]
    BY <1>10 DEF AskAgain
  <2>2. user'[v].at = "again" /\ \A w \in Users \ {v} : user'[w] = user[w]
    BY <1>3, <2>1 DEF Waiting
  <2> QED BY <2>1, <2>2 DEF Moves, Onward, Stage
<1>11. CASE LoginOk(v) \/ RefreshOk(v)
  BY <1>7, <1>11 DEF LoginOk, RefreshOk
<1>12. CASE LoginRejected(v) \/ LoginUnreachable(v) \/ RefreshUnusable(v) \/ RequestFails(v) \/ Refused(v)
  BY <1>5, <1>12 DEF LoginRejected, LoginUnreachable, RefreshUnusable, RequestFails, Refused,
                     Asking, Waiting
<1> QED BY <1>6, <1>8, <1>9, <1>10, <1>11, <1>12 DEF UserStep

\* What one step does to user u, and what u's own steps do.
LEMMA UserAdvances ==
  ASSUME AuthInv, [Next]_vars, NEW u \in Users
  PROVE  /\ Stage(u) # "back" => Stage(u)' \in Onward(Stage(u))
         /\ UserStep(u) => Stage(u)' # Stage(u)
<1>0. /\ user \in [Users -> UserStates] /\ LockOK
      /\ Stage(u) \in {"line", "front", "refresh", "login", "asking", "again", "back"}
  BY StagesAre DEF AuthInv, TypeOK
<1>1. UserStep(u) => Stage(u)' # Stage(u)
  BY EveryMove DEF Moves
<1> SUFFICES ASSUME Stage(u) # "back" PROVE Stage(u)' \in Onward(Stage(u))
  BY <1>1
<1>2. ASSUME Stage(u)' = Stage(u) \/ Stage(u)' = "back" PROVE Stage(u)' \in Onward(Stage(u))
  BY <1>0, <1>2 DEF Onward
<1>3. ASSUME NEW v \in Users, Moves(v) PROVE Stage(u)' \in Onward(Stage(u))
  BY <1>3, OneMoves DEF Moves
<1>4. ASSUME \A w \in Users : user'[w].at = user[w].at, holder' = holder
      PROVE  Stage(u)' = Stage(u)
  BY <1>4 DEF Stage
<1>5. ASSUME NEW v \in Users, NEW why, Ask(v, why)
      PROVE  Stage(u)' \in Onward(Stage(u))
  <2>1. user[v].at = "idle" /\ u # v /\ user'[u] = user[u]
    BY <1>0, <1>5 DEF Ask, Stage
  <2>2. holder' = holder \/ (holder = "none" /\ user[u].at # "queued" /\ user'[u].at # "queued")
    BY <1>0, <1>5, <2>1 DEF Ask, LockOK
  <2>3. Stage(u)' = Stage(u)
    BY <2>1, <2>2 DEF Stage
  <2> QED BY <1>2, <2>3
<1>6. CASE SessionEnds
  <2>1. /\ user' = [user EXCEPT !["sup"] = Idle] /\ user["sup"].at = "live" /\ holder' = holder
    BY <1>6 DEF SessionEnds
  <2>2. CASE u = "sup"
    <3>1. user'[u].at = "idle"
      BY <1>0, <2>1, <2>2, IdleIs
    <3> QED BY <1>2, <3>1 DEF Stage
  <2>3. CASE u # "sup"
    <3>1. user'[u] = user[u]
      BY <1>0, <2>1, <2>3
    <3>2. Stage(u)' = Stage(u)
      BY <2>1, <3>1 DEF Stage
    <3> QED BY <1>2, <3>2
  <2> QED BY <2>2, <2>3
<1>7. CASE Cancelled
  <2>1. /\ user' = [user EXCEPT !["rest"] = Idle] /\ holder' = Released("rest") /\ "rest" \in Users
    BY <1>7 DEF Cancelled, Users
  <2>2. CASE u = "rest"
    <3>1. user'[u].at = "idle"
      BY <1>0, <2>1, <2>2, IdleIs
    <3> QED BY <1>2, <3>1 DEF Stage
  <2>3. CASE u # "rest"
    <3>1. user'[u] = user[u]
      BY <1>0, <2>1, <2>3
    <3> QED BY <2>1, <2>3, <3>1, OneMoves
  <2> QED BY <2>2, <2>3
<1>8. CASE SetupBegins
  <2>1. user[u].at = "idle"
    BY <1>8 DEF SetupBegins, AuthInv, Clean
  <2>2. Stage(u) = "back"
    BY <2>1 DEF Stage
  <2> QED BY <2>2
<1>9. ASSUME NewClient PROVE Stage(u)' \in Onward(Stage(u))
  <2>1. user'[u].at = "idle"
    BY <1>9, IdleIs DEF NewClient
  <2> QED BY <1>2, <2>1 DEF Stage
<1>10. CASE Revoked
  <2>1. \A w \in Users : user'[w].at = user[w].at
    BY <1>0, <1>10 DEF Revoked, UserStates
  <2> QED BY <1>2, <1>4, <1>10, <2>1 DEF Revoked
<1>11. CASE Tick
  <2>1. \A w \in Users : user'[w].at = user[w].at
    BY <1>0, <1>11 DEF Tick, UserStates
  <2> QED BY <1>2, <1>4, <1>11, <2>1 DEF Tick
<1>12. CASE PasswordChanged \/ UNCHANGED vars
  BY <1>2, <1>4, <1>12 DEF PasswordChanged, vars, clientVars
<1>13. "sup" \in Users /\ "rest" \in Users
  BY DEF Users
<1> QED BY <1>3, <1>5, <1>6, <1>7, <1>8, <1>9, <1>10, <1>11, <1>12, <1>13, EveryMove
        DEF Next, Setup, SetupRetried, Reauthenticated, Reloaded

IsBack(u) == In(u, "back")
GoesOn(u) == ~In(u, "line") /\ ~IsBack(u) ~> IsBack(u)
GetsBack(u) == ~IsBack(u) ~> IsBack(u)

\* A user that is not in the line goes on until it is back.
LEMMA UserGoesOn ==
  ASSUME NEW u \in Users
  PROVE  FairSpec /\ []AuthInv /\ []EverybodyCanStep => GoesOn(u)
<1>1. AuthInv => \/ In(u, "line") \/ In(u, "front") \/ In(u, "refresh") \/ In(u, "login")
                 \/ In(u, "asking") \/ In(u, "again") \/ IsBack(u)
  BY StagesAre DEF In, IsBack
<1>2. AuthInv /\ [Next]_vars =>
        /\ In(u, "front") =>
             (In(u, "front") \/ In(u, "refresh") \/ In(u, "login") \/ In(u, "asking") \/ IsBack(u))'
        /\ In(u, "refresh") => (In(u, "refresh") \/ In(u, "login") \/ In(u, "asking") \/ IsBack(u))'
        /\ In(u, "login") => (In(u, "login") \/ In(u, "asking") \/ IsBack(u))'
        /\ In(u, "asking") => (In(u, "asking") \/ In(u, "again") \/ IsBack(u))'
        /\ In(u, "again") => (In(u, "again") \/ IsBack(u))'
  BY UserAdvances DEF In, IsBack, Onward
<1>3. AuthInv /\ [Next]_vars /\ <<UserStep(u)>>_vars =>
        /\ In(u, "front") => ~In(u, "front")'
        /\ In(u, "refresh") => ~In(u, "refresh")'
        /\ In(u, "login") => ~In(u, "login")'
        /\ In(u, "asking") => ~In(u, "asking")'
        /\ In(u, "again") => ~In(u, "again")'
  BY UserAdvances DEF In
<1>4. AuthInv /\ EverybodyCanStep =>
        (In(u, "front") \/ In(u, "refresh") \/ In(u, "login") \/ In(u, "asking") \/ In(u, "again")
           => ENABLED <<UserStep(u)>>_vars)
  <2>1. ASSUME AuthInv,
               In(u, "front") \/ In(u, "refresh") \/ In(u, "login") \/ In(u, "asking") \/ In(u, "again")
        PROVE  holder = u \/ user[u].at \in Waiting
    <3>1. user[u].at \in {"idle", "queued", "live"} \cup Waiting
      BY <2>1 DEF AuthInv, TypeOK, UserStates
    <3> QED BY <2>1, <3>1 DEF In, Stage, Waiting
  <2>2. EverybodyCanStep => (holder = u \/ user[u].at \in Waiting => ENABLED <<UserStep(u)>>_vars)
    BY Zenon DEF EverybodyCanStep
  <2> QED BY <2>1, <2>2
<1>5. FairUsers => FairTo(u)
  BY DEF FairUsers
<1> QED BY <1>1, <1>2, <1>3, <1>4, <1>5, PTL DEF FairSpec, Spec, Fairness, FairTo, GoesOn

\* Nor does it stay in the line: the one in front of it goes on.
LEMMA UserGetsBack ==
  ASSUME NEW u \in Users
  PROVE  FairSpec /\ []AuthInv /\ []EverybodyCanStep => GetsBack(u)
<1> DEFINE o == Other(u)
<1>1. o \in Users
  BY DEF Users, Other
<1>2. AuthInv => (In(u, "line") => ~In(o, "line") /\ ~IsBack(o))
  BY StagesAre DEF In, IsBack
<1> HIDE DEF o
<1>3. AuthInv /\ [Next]_vars => (In(u, "line") => (In(u, "line") \/ In(u, "front") \/ IsBack(u))')
  BY UserAdvances DEF In, IsBack, Onward
<1>4. In(u, "front") => ~In(u, "line") /\ ~IsBack(u)
  BY DEF In, IsBack
<1>5. FairSpec /\ []AuthInv /\ []EverybodyCanStep => GoesOn(u)
  BY UserGoesOn
<1>6. FairSpec /\ []AuthInv /\ []EverybodyCanStep => GoesOn(o)
  BY <1>1, UserGoesOn
<1> QED BY <1>2, <1>3, <1>4, <1>5, <1>6, PTL DEF FairSpec, Spec, GoesOn, GetsBack

Returns(u) == user[u].at \in {"queued"} \cup Waiting ~> user[u].at \in {"idle", "live"}

\* Whoever waits in the line or in a request gets back, however the lock goes
\* round and whatever is refused, revoked, cancelled or loaded again.
THEOREM EveryUserReturns == FairSpec /\ []EverybodyCanStep => UsersReturn
<1>1. ASSUME NEW u \in Users
      PROVE  FairSpec /\ []AuthInv /\ []EverybodyCanStep => Returns(u)
  <2>1. /\ user[u].at \in {"queued"} \cup Waiting => ~IsBack(u)
        /\ AuthInv => (IsBack(u) => user[u].at \in {"idle", "live"})
    BY DEF IsBack, In, Stage, Waiting, AuthInv, TypeOK, UserStates
  <2>2. FairSpec /\ []AuthInv /\ []EverybodyCanStep => GetsBack(u)
    BY UserGetsBack
  <2> QED BY <2>1, <2>2, PTL DEF Returns, GetsBack
<1>2. FairSpec /\ []AuthInv /\ []EverybodyCanStep => \A u \in Users : Returns(u)
  BY <1>1
<1>3. FairSpec /\ []AuthInv /\ []EverybodyCanStep => UsersReturn
  BY <1>2 DEF UsersReturn, Returns
<1>4. FairSpec => []AuthInv
  BY AuthCorrect, PTL DEF FairSpec
<1> QED BY <1>3, <1>4
-----------------------------------------------------------------------------
(* Progress of the setup and of the supervisor once the world is calm.     *)

\* Setup is the read loop's only, and a login or a read is all there is to it.
SetupInv ==
  /\ user["sup"].why # "setup"
  /\ user["rest"].why = "setup" => user["rest"].at \in {"login"} \cup Asking
  /\ user["rest"].why = "setup" <=> phase = "setup"

LEMMA WhyIs == Idle.why = "loop" /\ "sup" \in Users /\ "rest" \in Users /\ "sup" # "rest"
BY DEF Idle, Users

\* What the steps of user v make of its reason, its state and the phase.
LEMMA StepOfSetup ==
  ASSUME AuthInv, SetupInv, NEW v \in Users,
         \/ UserStep(v) \/ LoginRejected(v) \/ LoginUnreachable(v)
         \/ RefreshUnusable(v) \/ RequestFails(v) \/ (v = "rest" /\ AskAgain)
  PROVE  SetupInv'
<1>0. TypeOK /\ user \in [Users -> UserStates]
  BY DEF AuthInv, TypeOK
<1>1. ASSUME NEW e, user' = [user EXCEPT ![v] = e]
      PROVE  user'[v] = e /\ \A w \in Users \ {v} : user'[w] = user[w]
  BY <1>0, <1>1
<1>2. ASSUME NEW at \in Waiting, NEW x,
             user' = [user EXCEPT ![v] = At(v, at)] \/ user' = [user EXCEPT ![v] = [At(v, at) EXCEPT !.life = x]]
      PROVE  /\ user'[v].at = at /\ user'[v].why = user[v].why
             /\ \A w \in Users \ {v} : user'[w] = user[w]
  <2>1. user[v] \in UserStates /\ At(v, at) \in UserStates /\ At(v, at).at = at
    BY <1>0, AtIs
  <2>2. At(v, at).why = user[v].why
    BY <2>1 DEF At, UserStates
  <2>3. [At(v, at) EXCEPT !.life = x].at = at /\ [At(v, at) EXCEPT !.life = x].why = user[v].why
    BY <2>1, <2>2 DEF UserStates
  <2> QED BY <1>1, <1>2, <2>1, <2>2, <2>3
<1>3. ASSUME user'[v].why = user[v].why, user'[v].at \in {"login"} \cup Asking \/ user[v].why # "setup",
             \A w \in Users \ {v} : user'[w] = user[w], phase' = phase
      PROVE  SetupInv'
  BY <1>3, WhyIs DEF SetupInv, Users
<1>4. ASSUME NEW e, user' = [user EXCEPT ![v] = e], e.why # "setup", 
             user[v].why = "setup" => phase' # "setup",
             user[v].why # "setup" => phase' = phase
      PROVE  SetupInv'
  BY <1>1, <1>4, WhyIs DEF SetupInv, Users
<1>5. user[v].why = "setup" => user[v].at \in {"login"} \cup Asking
  BY DEF SetupInv, Users
<1>6. ASSUME NEW outcome \in {"rejected", "unreachable", "ok", "refused", "failed"},
             SetupAfter(v, outcome),
             user[v].at \in Asking \/ outcome \in {"rejected", "unreachable"}
      PROVE  /\ user[v].why = "setup" => phase' # "setup"
             /\ user[v].why # "setup" => phase' = phase
  BY <1>6 DEF SetupAfter
<1>7. CASE Enter(v)
  <2>1. user[v].at = "queued" /\ user[v].why # "setup" /\ phase' = phase
    BY <1>5, <1>7 DEF Enter, Asking
  <2>2. \E at \in Waiting : \E x :
          user' = [user EXCEPT ![v] = At(v, at)] \/ user' = [user EXCEPT ![v] = [At(v, at) EXCEPT !.life = x]]
    BY <1>7 DEF Enter, Sends, Waiting
  <2> QED BY <1>2, <1>3, <2>1, <2>2
<1>8. CASE LoginOk(v) \/ RefreshOk(v)
  <2>1. PICK t : Sends(v, t) /\ phase' = phase
    BY <1>8 DEF LoginOk, RefreshOk, Applies
  <2>2. user'[v].at = "asking" /\ user'[v].why = user[v].why /\ \A w \in Users \ {v} : user'[w] = user[w]
    BY <1>2, <2>1 DEF Sends, Waiting
  <2> QED BY <1>3, <2>1, <2>2 DEF Asking
<1>9. CASE RefreshFails(v) \/ (v = "rest" /\ AskAgain)
  <2>1. phase' = phase
    BY <1>9 DEF RefreshFails, AskAgain
  <2>2. \E at \in {"login", "again"} : user' = [user EXCEPT ![v] = At(v, at)]
    BY <1>9 DEF RefreshFails, AskAgain
  <2>3. user'[v].at \in {"login", "again"} /\ user'[v].why = user[v].why /\ \A w \in Users \ {v} : user'[w] = user[w]
    BY <1>2, <2>2 DEF Waiting
  <2> QED BY <1>3, <2>1, <2>3 DEF Asking
<1>10. CASE Accepted(v)
  <2>1. /\ user' = [user EXCEPT ![v] = IF v = "sup" THEN [Idle EXCEPT !.at = "live"] ELSE Idle]
        /\ SetupAfter(v, "ok") /\ user[v].at \in Asking
    BY <1>10 DEF Accepted
  <2>2. (IF v = "sup" THEN [Idle EXCEPT !.at = "live"] ELSE Idle).why = "loop"
    BY DEF Idle
  <2> QED BY <1>4, <1>6, <2>1, <2>2
<1>11. CASE LoginRejected(v) \/ LoginUnreachable(v) \/ Refused(v) \/ RequestFails(v)
  <2>1. \E refused, t : Raises(v, refused, t)
    BY <1>11 DEF LoginRejected, LoginUnreachable, Refused, RequestFails
  <2>2. user' = [user EXCEPT ![v] = Idle]
    BY <2>1 DEF Raises
  <2>3. /\ user[v].why = "setup" => phase' # "setup"
        /\ user[v].why # "setup" => phase' = phase
    BY <1>6, <1>11 DEF LoginRejected, LoginUnreachable, Refused, RequestFails
  <2> QED BY <1>4, <2>2, <2>3, WhyIs
<1>12. CASE RefreshUnusable(v)
  <2>1. user[v].why # "setup" /\ phase' = phase
    BY <1>5, <1>12 DEF RefreshUnusable, Asking
  <2>2. user' = [user EXCEPT ![v] = Idle]
    BY <1>12 DEF RefreshUnusable, Raises
  <2> QED BY <1>4, <2>1, <2>2, WhyIs
<1> QED BY <1>7, <1>8, <1>9, <1>10, <1>11, <1>12 DEF UserStep

\* Only a setup has the reason "setup", and as long as it runs it is on its way
\* through a login or a read.
THEOREM SetupIsUnderWay == Spec => []SetupInv
<1>1. Init => SetupInv
  BY IdleIs, WhyIs DEF Init, SetupInv
<1>2. AuthInv /\ SetupInv /\ [Next]_vars => SetupInv'
  <2> SUFFICES ASSUME AuthInv, SetupInv, [Next]_vars PROVE SetupInv'
    OBVIOUS
  <2>0. user \in [Users -> UserStates]
    BY DEF AuthInv, TypeOK
  <2>1. ASSUME NEW u \in Users, NEW why \in {"loop", "call"}, Ask(u, why) PROVE SetupInv'
    <3>1. /\ user' = [user EXCEPT ![u] = [Idle EXCEPT !.at = "queued", !.why = why]]
          /\ phase = "running" /\ phase' = phase
      BY <2>1 DEF Ask
    <3>2. user'[u].why = why /\ \A w \in Users \ {u} : user'[w] = user[w]
      BY <2>0, <3>1 DEF Idle
    <3> QED BY <3>1, <3>2, WhyIs DEF SetupInv, Users
  <2>2. ASSUME NEW e, NEW u \in Users, e.why # "setup", user[u].why # "setup",
               user' = [user EXCEPT ![u] = e], phase' = phase
        PROVE  SetupInv'
    <3>1. user'[u] = e /\ \A w \in Users \ {u} : user'[w] = user[w]
      BY <2>0, <2>2
    <3> QED BY <2>2, <3>1, WhyIs DEF SetupInv, Users
  <2>3. CASE SessionEnds
    BY <2>2, <2>3, WhyIs DEF SessionEnds, SetupInv
  <2>4. CASE Cancelled
    BY <2>2, <2>4, WhyIs DEF Cancelled
  <2>5. CASE SetupBegins
    <3>1. /\ user' = [user EXCEPT !["rest"] = [At("rest", "login") EXCEPT !.why = "setup"]]
          /\ phase' = "setup"
      BY <2>5 DEF SetupBegins
    <3>2. [At("rest", "login") EXCEPT !.why = "setup"].why = "setup"
          /\ [At("rest", "login") EXCEPT !.why = "setup"].at = "login"
      <4>1. At("rest", "login") \in UserStates /\ At("rest", "login").at = "login"
        BY AtIs, WhyIs DEF AuthInv, Waiting
      <4> QED BY <4>1 DEF UserStates
    <3>3. user'["rest"] = [At("rest", "login") EXCEPT !.why = "setup"] /\ user'["sup"] = user["sup"]
      BY <2>0, <3>1, WhyIs
    <3> QED BY <3>1, <3>2, <3>3 DEF SetupInv
  <2>6. CASE NewClient /\ phase' = "start"
    BY <2>6, WhyIs DEF NewClient, SetupInv
  <2>7. ASSUME \A w \in Users : user'[w].at = user[w].at /\ user'[w].why = user[w].why, phase' = phase
        PROVE  SetupInv'
    BY <2>7, WhyIs DEF SetupInv
  <2>8. CASE Revoked
    BY <2>0, <2>7, <2>8 DEF Revoked, UserStates
  <2>9. CASE Tick
    BY <2>0, <2>7, <2>9 DEF Tick, UserStates
  <2>10. CASE PasswordChanged \/ UNCHANGED vars
    BY <2>7, <2>10 DEF PasswordChanged, vars, clientVars
  <2> QED BY <2>1, <2>3, <2>4, <2>5, <2>6, <2>8, <2>9, <2>10, StepOfSetup, WhyIs
          DEF Next, Setup, SetupRetried, Reauthenticated, Reloaded
<1> QED BY <1>1, <1>2, AuthCorrect, PTL DEF Spec

Calm == upsets' = upsets

LEMMA CalmIs == AuthInv /\ [Calm]_vars => ~Upset
<1>1. AuthInv => upsets \in Nat
  BY DEF AuthInv, TypeOK
<1>2. [Calm]_vars => upsets' = upsets
  BY DEF Calm, vars
<1> QED BY <1>1, <1>2 DEF Upset

\* Where the entry is, and where a step without a disturbance may take it.
PhaseIs(s) == phase = s

LEMMA CalmPhases ==
  ASSUME AuthInv, SetupInv, [Next]_vars, [Calm]_vars
  PROVE  /\ PhaseIs("retry") => phase' \in {"retry", "start"}
         /\ PhaseIs("start") => phase' \in {"start", "setup"}
         /\ PhaseIs("setup") => phase' \in {"setup", "running", "reauth"}
         /\ PhaseIs("running") => phase' = "running"
         /\ Setup => phase' # phase
<1>1. ~Upset
  BY CalmIs
<1>2. ASSUME NEW u \in Users, NEW outcome \in {"rejected", "ok", "refused"}, SetupAfter(u, outcome)
      PROVE  phase' = phase \/ (phase = "setup" /\ phase' \in {"running", "reauth"})
  BY <1>2 DEF SetupAfter, SetupInv, Users
<1>3. ASSUME NEW u \in Users, UserStep(u) \/ LoginRejected(u)
      PROVE  phase' = phase \/ (phase = "setup" /\ phase' \in {"running", "reauth"})
  BY <1>1, <1>2, <1>3 DEF UserStep, LoginRejected, Enter, LoginOk, RefreshOk, RefreshFails, Accepted,
                          Refused, Applies
<1> QED BY <1>1, <1>3
        DEF Next, LoginUnreachable, RefreshUnusable, RequestFails, Ask, AskAgain, SessionEnds,
            Cancelled, Setup, SetupBegins, SetupRetried, Reauthenticated, Reloaded,
            PasswordChanged, Revoked, Tick, PhaseIs, vars

\* Once the world is calm every setup comes to an end: a retry starts again, a
\* start sets up, and what setting up waits for gets back.
LEMMA SetupComesToAnEnd ==
  FairSpec /\ []AuthInv /\ []SetupInv /\ []EverybodyCanStep /\ CalmsDown => SetupEnds
<1> DEFINE Ended == PhaseIs("running") \/ PhaseIs("reauth")
           Back == IsBack("rest")
<1>1. AuthInv => PhaseIs("retry") \/ PhaseIs("start") \/ PhaseIs("setup") \/ Ended
  BY DEF AuthInv, TypeOK, Phases, PhaseIs
<1>2. SetupInv => (PhaseIs("setup") => ~Back)
  BY DEF SetupInv, PhaseIs, IsBack, In, Stage, Asking
<1>3. AuthInv /\ SetupInv /\ [Next]_vars /\ [Calm]_vars =>
        /\ PhaseIs("retry") => (PhaseIs("retry") \/ PhaseIs("start"))'
        /\ PhaseIs("start") => (PhaseIs("start") \/ PhaseIs("setup"))'
        /\ PhaseIs("setup") => (PhaseIs("setup") \/ Ended)'
  BY CalmPhases DEF PhaseIs
<1>4. AuthInv /\ SetupInv /\ [Next]_vars /\ [Calm]_vars /\ <<Setup>>_vars =>
        /\ PhaseIs("retry") => ~PhaseIs("retry")'
        /\ PhaseIs("start") => ~PhaseIs("start")'
  BY CalmPhases DEF PhaseIs
<1>5. EverybodyCanStep => (PhaseIs("retry") \/ PhaseIs("start") => ENABLED <<Setup>>_vars)
  BY Zenon DEF EverybodyCanStep, PhaseIs
<1>6. "rest" \in Users
  BY DEF Users
<1>7. FairSpec /\ []AuthInv /\ []EverybodyCanStep => GetsBack("rest")
  BY <1>6, UserGetsBack
<1>8. /\ phase \in {"start", "setup", "retry"} => PhaseIs("retry") \/ PhaseIs("start") \/ PhaseIs("setup")
      /\ phase \in {"running", "reauth"} <=> Ended
  BY DEF PhaseIs
<1>9. [upsets' = upsets]_vars <=> [Calm]_vars
  BY DEF Calm
<1> HIDE DEF Ended, Back
<1> QED BY <1>1, <1>2, <1>3, <1>4, <1>5, <1>7, <1>8, <1>9, PTL
        DEF FairSpec, Spec, Fairness, CalmsDown, SetupEnds, GetsBack, Back

\* Setup ends and users return: nobody waits for ever.
THEOREM EveryWaitEnds ==
  FairSpec /\ []EverybodyCanStep /\ CalmsDown => WaitsEnd
<1>1. FairSpec => []AuthInv /\ []SetupInv
  BY AuthCorrect, SetupIsUnderWay, PTL DEF FairSpec
<1> QED BY <1>1, EveryUserReturns, SetupComesToAnEnd DEF WaitsEnd

\* The client counts on a token that the cloud no longer accepts.
Sick == token.have /\ token.life = -1

\* The supervisor is on its way to a session with a token, or to tokens ...
Promising == /\ ~Sick
             /\ \/ user["sup"].at \in {"queued", "login", "refresh"}
                \/ user["sup"].at = "asking" /\ user["sup"].life # -1

\* ... or on its way to find out that its token is no longer accepted.
FindsOut == /\ Sick
            /\ \/ user["sup"].at \in {"queued", "login", "refresh"}
               \/ user["sup"].at = "asking" /\ user["sup"].life = -1

Live == user["sup"].at = "live"
SupIdle == user["sup"].at = "idle"

\* New tokens are good ones, and are there before they are used.
LEMMA NewTokensGood ==
  ASSUME AuthInv, NEW u \in Users, NEW keeps \in BOOLEAN, Applies(u, keeps)
  PROVE  /\ ~Sick' /\ user'[u].at = "asking" /\ user'[u].life # -1
         /\ \A w \in Users \ {u} : user'[w] = user[w]
<1>1. PICK l \in Lives, delay \in 0..(Timeout - user[u].timer) :
        /\ token' = [have |-> TRUE, life |-> l - delay]
        /\ Sends(u, [have |-> TRUE, life |-> l - delay])
  BY DEF Applies
<1>2. user[u].timer \in Nat /\ user \in [Users -> UserStates]
  BY DEF AuthInv, TypeOK, UserStates
<1>3. l - delay \in Int /\ l - delay > 0
  BY <1>2, AuthAssumption, LongestBound
<1>4. ~Sick'
  BY <1>1, <1>3 DEF Sick
<1>5. /\ At(u, "asking") \in UserStates /\ At(u, "asking").at = "asking"
      /\ user' = [user EXCEPT ![u] = [At(u, "asking") EXCEPT !.life = l - delay]]
  BY <1>1, AtIs DEF AuthInv, Waiting, Sends
<1>6. /\ [At(u, "asking") EXCEPT !.life = l - delay].at = "asking"
      /\ [At(u, "asking") EXCEPT !.life = l - delay].life = l - delay
  BY <1>5 DEF UserStates
<1> QED BY <1>2, <1>3, <1>4, <1>5, <1>6

\* An exception leaves a token or drops it.
LEMMA RaisesIs ==
  ASSUME AuthInv, NEW u \in Users, NEW refused, NEW t, Raises(u, refused, t)
  PROVE  /\ token' \in {t, NoToken}
         /\ user'[u] = Idle /\ \A w \in Users \ {u} : user'[w] = user[w]
<1>1. user \in [Users -> UserStates] /\ user' = [user EXCEPT ![u] = Idle]
  BY DEF AuthInv, TypeOK, Raises
<1>2. token' \in {t, NoToken}
  <2> DEFINE kept == IF refused /\ user[u].why # "call" THEN NoToken ELSE t
  <2>1. kept \in {t, NoToken}
    OBVIOUS
  <2>2. token' \in {kept, NoToken}
    BY DEF Raises, Counts
  <2> QED BY <2>1, <2>2
<1> QED BY <1>1, <1>2

\* A supervisor that leaves the lock's line or a refresh with its token.
LEMMA EntersWell ==
  ASSUME AuthInv, Enter("sup")
  PROVE  Promising \/ FindsOut => Promising' \/ FindsOut'
<1>0. "sup" \in Users /\ user \in [Users -> UserStates] /\ token' = token
  BY DEF Users, AuthInv, TypeOK, Enter
<1>1. ASSUME NEW at \in {"login", "refresh"}, user' = [user EXCEPT !["sup"] = At("sup", at)]
      PROVE  user'["sup"].at = at
  BY <1>0, <1>1, AtIs DEF AuthInv, Waiting
<1>2. ASSUME Sends("sup", token)
      PROVE  user'["sup"].at = "asking" /\ user'["sup"].life = token.life
  <2>1. /\ At("sup", "asking") \in UserStates /\ At("sup", "asking").at = "asking"
        /\ user' = [user EXCEPT !["sup"] = [At("sup", "asking") EXCEPT !.life = token.life]]
    BY <1>0, <1>2, AtIs DEF AuthInv, Waiting, Sends
  <2>2. /\ [At("sup", "asking") EXCEPT !.life = token.life].at = "asking"
        /\ [At("sup", "asking") EXCEPT !.life = token.life].life = token.life
    BY <2>1 DEF UserStates
  <2> QED BY <1>0, <2>1, <2>2
<1>3. CASE ~Missing /\ Sends("sup", token)
  BY <1>0, <1>2, <1>3 DEF Missing, Promising, FindsOut, Sick
<1>4. CASE \E at \in {"login", "refresh"} : user' = [user EXCEPT !["sup"] = At("sup", at)]
  BY <1>0, <1>1, <1>4 DEF Promising, FindsOut, Sick
<1> QED BY <1>3, <1>4 DEF Enter

\* What a step leaves of the supervisor's way when it is not the supervisor's.
LEMMA OthersLeaveIt ==
  ASSUME user'["sup"].at = user["sup"].at,
         user'["sup"].life = -1 <=> user["sup"].life = -1,
         ~Sick' \/ (Sick /\ Sick')
  PROVE  /\ ~Sick => ~Sick'
         /\ Promising => Promising'
         /\ FindsOut => FindsOut' \/ ~Sick'
         /\ SupIdle => SupIdle'
BY DEF Promising, FindsOut, SupIdle

\* As long as the entry runs, the password is right and nothing is disturbed,
\* a promising supervisor stays so until it is live, and one with a token that
\* is no longer accepted stays on its way until the token is gone.
LEMMA SupInCalm ==
  ASSUME AuthInv, [Next]_vars, [Calm]_vars, PhaseIs("running"), password
  PROVE  /\ ~Sick => ~Sick'
         /\ Promising => Promising' \/ Live'
         /\ FindsOut => FindsOut' \/ ~Sick'
         /\ SupIdle => SupIdle' \/ Promising' \/ FindsOut'
         /\ Ask("sup", "loop") => ~SupIdle'
<1>0. /\ TypeOK /\ user \in [Users -> UserStates] /\ token \in Tokens
      /\ "sup" \in Users /\ "rest" \in Users /\ "sup" # "rest"
      /\ user["sup"] \in UserStates
  BY DEF AuthInv, TypeOK, Users
<1>1. ~Upset
  BY CalmIs
<1> DEFINE Goal == /\ ~Sick => ~Sick'
                   /\ Promising => Promising' \/ Live'
                   /\ FindsOut => FindsOut' \/ ~Sick'
                   /\ SupIdle => SupIdle' \/ Promising' \/ FindsOut'
                   /\ Ask("sup", "loop") => ~SupIdle'
<1>2. Ask("sup", "loop") => /\ SupIdle /\ (Promising' \/ FindsOut') /\ token' = token
                            /\ user'["sup"].at = "queued"
  <2> SUFFICES ASSUME Ask("sup", "loop")
               PROVE  SupIdle /\ (Promising' \/ FindsOut') /\ token' = token /\ user'["sup"].at = "queued"
    OBVIOUS
  <2>1. /\ user' = [user EXCEPT !["sup"] = [[Idle EXCEPT !.at = "queued"] EXCEPT !.why = "loop"]]
        /\ token' = token /\ user["sup"].at = "idle"
    BY DEF Ask
  <2>2. [[Idle EXCEPT !.at = "queued"] EXCEPT !.why = "loop"].at = "queued"
    BY DEF Idle
  <2>3. user'["sup"].at = "queued"
    BY <1>0, <2>1, <2>2
  <2> QED BY <2>1, <2>3 DEF SupIdle, Promising, FindsOut, Sick
<1>3. ASSUME Ask("sup", "loop") PROVE Goal
  <2>1. Sick' = Sick /\ SupIdle /\ (Promising' \/ FindsOut') /\ ~SupIdle'
    BY <1>2, <1>3 DEF Sick, SupIdle
  <2> QED BY <2>1 DEF Promising, FindsOut, SupIdle
<1> SUFFICES ASSUME ~Ask("sup", "loop") PROVE Goal
  BY <1>3
<1>4. ASSUME user'["sup"].at = user["sup"].at,
             user'["sup"].life = -1 <=> user["sup"].life = -1,
             ~Sick' \/ (Sick /\ Sick')
      PROVE  Goal
  BY <1>4, OthersLeaveIt
<1> HIDE DEF Goal
<1>5. token' \in {token, NoToken} => ~Sick' \/ (Sick /\ Sick')
  BY NoTokenIs DEF Sick
<1>6. ASSUME UserStep("rest") \/ LoginRejected("rest") \/ AskAgain
             \/ Ask("rest", "loop") \/ Ask("rest", "call")
      PROVE  Goal
  <2>1. user'["sup"] = user["sup"]
    <3>1. CASE Ask("rest", "loop") \/ Ask("rest", "call")
      BY <1>0, <3>1 DEF Ask
    <3>2. CASE ~(Ask("rest", "loop") \/ Ask("rest", "call"))
      BY <1>0, <1>6, <3>2, EveryMove DEF Moves
    <3> QED BY <3>1, <3>2
  <2>2. ~Sick' \/ (Sick /\ Sick')
    <3>1. CASE LoginOk("rest") \/ RefreshOk("rest")
      BY <1>0, <3>1, NewTokensGood DEF LoginOk, RefreshOk
    <3>2. CASE LoginRejected("rest") \/ Refused("rest")
      BY <1>0, <1>5, <3>2, RaisesIs DEF LoginRejected, Refused
    <3>3. CASE token' = token
      BY <1>5, <3>3
    <3> QED BY <1>6, <3>1, <3>2, <3>3
            DEF UserStep, Enter, RefreshFails, Accepted, AskAgain, Ask
  <2> QED BY <1>4, <2>1, <2>2
<1>7. CASE Enter("sup")
  <2>1. Promising' \/ FindsOut'
    BY <1>7, EntersWell DEF Enter, Promising, FindsOut
  <2>2. Sick' = Sick /\ ~SupIdle
    BY <1>7 DEF Enter, Sick, SupIdle
  <2> QED BY <2>1, <2>2 DEF Goal, Promising, FindsOut
<1>8. CASE LoginOk("sup") \/ RefreshOk("sup")
  <2>1. ~Sick' /\ user'["sup"].at = "asking" /\ user'["sup"].life # -1
    BY <1>0, <1>8, NewTokensGood DEF LoginOk, RefreshOk
  <2>2. Promising' /\ ~SupIdle
    BY <1>8, <2>1 DEF Promising, SupIdle, LoginOk, RefreshOk
  <2> QED BY <2>1, <2>2 DEF Goal
<1>9. CASE RefreshFails("sup")
  <2>1. user' = [user EXCEPT !["sup"] = At("sup", "login")] /\ token' = token /\ user["sup"].at = "refresh"
    BY <1>9 DEF RefreshFails
  <2>2. user'["sup"].at = "login"
    BY <1>0, <2>1, AtIs DEF Waiting
  <2> QED BY <2>1, <2>2 DEF Goal, Promising, FindsOut, Sick, SupIdle
<1>10. CASE Accepted("sup")
  <2>1. /\ user' = [user EXCEPT !["sup"] = [Idle EXCEPT !.at = "live"]] /\ token' = token
        /\ user["sup"].at \in Asking /\ user["sup"].life > 0
    BY <1>10 DEF Accepted
  <2>2. Live'
    BY <1>0, <2>1 DEF Live, Idle
  <2>3. ~FindsOut /\ ~SupIdle
    BY <2>1 DEF FindsOut, SupIdle, Asking
  <2> QED BY <2>1, <2>2, <2>3 DEF Goal, Sick
<1>11. CASE Refused("sup")
  <2>1. user["sup"].at \in Asking /\ user["sup"].life <= 0 /\ token' = NoToken
    BY <1>0, <1>11, RaisesIs DEF Refused
  <2>2. user["sup"].life = -1
    BY <1>0, <2>1, AuthAssumption DEF AuthInv, Carried, Lasts, Ahead, UserStates
  <2>3. ~Sick' /\ ~Promising /\ ~SupIdle
    BY <2>1, <2>2, NoTokenIs DEF Sick, Promising, SupIdle, Asking
  <2> QED BY <2>3 DEF Goal
<1>12. ASSUME LoginRejected("sup") PROVE FALSE
  BY <1>1, <1>12 DEF LoginRejected
<1>13. CASE SessionEnds
  <2>1. user["sup"].at = "live" /\ user' = [user EXCEPT !["sup"] = Idle]
    BY <1>13 DEF SessionEnds
  <2>2. token' \in {token, NoToken}
    BY <1>13 DEF SessionEnds, Counts
  <2> QED BY <1>5, <2>1, <2>2 DEF Goal, Promising, FindsOut, SupIdle
<1>14. CASE Tick
  <2>1. /\ user'["sup"] = [user["sup"] EXCEPT !.timer = More(0, @ - 1),
                              !.life = IF user["sup"].at \in Asking /\ @ > 0 THEN @ - 1 ELSE @]
        /\ token' = IF token.life > 0 THEN [token EXCEPT !.life = @ - 1] ELSE token
    BY <1>0, <1>14 DEF Tick
  <2>2. user'["sup"].at = user["sup"].at /\ (user'["sup"].life = -1 <=> user["sup"].life = -1)
    BY <1>0, <2>1 DEF UserStates
  <2>3. ~Sick' \/ (Sick /\ Sick')
    BY <1>0, <2>1 DEF Sick, Tokens
  <2> QED BY <1>4, <2>2, <2>3
<1>15. CASE UNCHANGED vars
  BY <1>4, <1>5, <1>15 DEF vars, clientVars
<1>16. ASSUME \/ \E u \in Users : LoginUnreachable(u) \/ RefreshUnusable(u) \/ RequestFails(u)
              \/ Cancelled \/ Setup \/ Reauthenticated \/ Reloaded \/ PasswordChanged \/ Revoked
       PROVE  FALSE
  BY <1>1, <1>16 DEF LoginUnreachable, RefreshUnusable, RequestFails, Cancelled, Setup, SetupBegins,
                     SetupRetried, Reauthenticated, Reloaded, PasswordChanged, Revoked, PhaseIs
<1>17. Goal
  BY <1>6, <1>7, <1>8, <1>9, <1>10, <1>11, <1>12, <1>13, <1>14, <1>15, <1>16 DEF Next, UserStep, Users
<1> QED BY <1>17 DEF Goal

Away == PhaseIs("running") /\ password /\ ~Live

\* Whatever the world did before, once it is calm the supervisor gets through:
\* a token that is no longer accepted is found out and dropped with the first
\* request that carries it, and then nothing comes between it and a session.
THEOREM TheClientComesBack ==
  FairSpec /\ []EverybodyCanStep /\ CalmsDown => StaysReachable
<1> DEFINE Fine == Live \/ ~password \/ PhaseIs("reauth")
           Back == IsBack("sup")
           H == FairSpec /\ []AuthInv /\ []SetupInv /\ []EverybodyCanStep /\ CalmsDown
<1>0. "sup" \in Users
  BY DEF Users
<1>1. H => GetsBack("sup") /\ SetupEnds
  BY <1>0, UserGetsBack, SetupComesToAnEnd
<1>2. AuthInv => PhaseIs("retry") \/ PhaseIs("start") \/ PhaseIs("setup") \/ PhaseIs("running") \/ PhaseIs("reauth")
  BY DEF AuthInv, TypeOK, Phases, PhaseIs
<1>3. /\ phase \in {"start", "setup", "retry"} <=> PhaseIs("retry") \/ PhaseIs("start") \/ PhaseIs("setup")
      /\ phase \in {"running", "reauth"} <=> PhaseIs("running") \/ PhaseIs("reauth")
  BY DEF PhaseIs
<1>4. AuthInv /\ SetupInv /\ [Next]_vars /\ [Calm]_vars /\ PhaseIs("running") => PhaseIs("running")'
  BY CalmPhases DEF PhaseIs
<1>5. /\ AuthInv => (Back <=> SupIdle \/ Live)
      /\ Promising => ~Back
      /\ FindsOut => ~Back
  BY DEF AuthInv, TypeOK, UserStates, Users, IsBack, In, Stage, SupIdle, Live, Promising, FindsOut, Waiting
<1>6. AuthInv /\ [Next]_vars /\ [Calm]_vars /\ PhaseIs("running") /\ password =>
        /\ ~Sick => ~Sick'
        /\ Promising => Promising' \/ Live'
        /\ FindsOut => FindsOut' \/ ~Sick'
        /\ SupIdle => SupIdle' \/ Promising' \/ FindsOut'
        /\ Ask("sup", "loop") => ~SupIdle'
  BY SupInCalm
<1>7. EverybodyCanStep => (PhaseIs("running") /\ SupIdle => ENABLED <<Ask("sup", "loop")>>_vars)
  BY Zenon DEF EverybodyCanStep, PhaseIs, SupIdle
<1>8. (Promising => ~Sick) /\ (FindsOut => Sick)
  BY DEF Promising, FindsOut
<1>9. [upsets' = upsets]_vars <=> [Calm]_vars
  BY DEF Calm
<1>10. user["sup"].at = "live" \/ ~password \/ phase = "reauth" <=> Fine
  BY DEF Live, PhaseIs
<1> HIDE DEF Back
\* Were it away for good, the entry would be running for good ...
<1>11. H => []<>Fine \/ <>[]Away
  BY <1>1, <1>2, <1>3, <1>4, <1>9, PTL DEF FairSpec, Spec, CalmsDown, SetupEnds, Away
\* ... it would be idle again and again, and ask again ...
<1>12. H /\ <>[]Away => []<>(Promising \/ FindsOut)
  BY <1>1, <1>5, <1>6, <1>7, <1>9, PTL
     DEF FairSpec, Spec, Fairness, CalmsDown, GetsBack, Back, Away
\* ... a token that is refused would be gone ...
<1>13. H /\ <>[]Away => <>[]~Sick
  BY <1>1, <1>5, <1>6, <1>8, <1>9, <1>12, PTL
     DEF FairSpec, Spec, CalmsDown, GetsBack, Back, Away
\* ... and with the next one it would be live.
<1>14. H => ~<>[]Away
  BY <1>1, <1>5, <1>6, <1>8, <1>9, <1>12, <1>13, PTL
     DEF FairSpec, Spec, CalmsDown, GetsBack, Back, Away
<1>15. H => StaysReachable
  BY <1>10, <1>11, <1>14, PTL DEF StaysReachable
<1>16. FairSpec => []AuthInv /\ []SetupInv
  BY AuthCorrect, SetupIsUnderWay, PTL DEF FairSpec
<1> QED BY <1>15, <1>16
=============================================================================
