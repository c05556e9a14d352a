-------------------------- MODULE ConnectionProofs --------------------------
(***************************************************************************)
(* Machine-checked proofs about Connection, for all windows, delays and    *)
(* limits that ConnectionAssumption allows.                                *)
(***************************************************************************)
EXTENDS Connection, TLAPS

\* What each task is, beyond what TypeOK says of its parts.
Shapes ==
  /\ sup \in [at : {"auth", "connect", "live", "backoff", "stopped"}, timer : Nat]
  /\ boot \in [at : {"idle", "waiting"}, timer : 0..BootInterval,
               left : 0..BootAttempts, socket : 0..MaxConns]
  /\ dog \in [at : {"sleep", "asking", "stopped"}, timer : Nat, socket : 0..MaxConns]
  /\ dog.at = "stopped" <=> sup.at = "stopped"
  /\ dog.at = "sleep" => dog.timer <= Period
  /\ dog.at = "asking" => dog.timer <= Patience

\* A snapshot that the watchdog waits for has only just come.
Fresh == connected /\ dog.at = "asking" /\ snapshot => Silence = 0

\* What is left of the watchdog's sleep or patience is reserved for it.
Watched ==
  connected =>
    /\ closed => Silence <= Stale + Period + Patience
    /\ ~closed /\ dog.at = "sleep" => Silence + dog.timer <= Stale + Period
    /\ ~closed /\ dog.at = "asking" => Silence + dog.timer <= Stale + Period + Patience

\* A session that was young when last looked at, or one that has been
\* refreshed since and will not be found silent at the next look.
Rotated ==
  connected =>
    /\ closed => age <= Rotate + 2 * Period + Patience
    /\ ~closed /\ dog.at = "asking" => age + dog.timer <= Rotate + Period + Patience
    /\ ~closed /\ dog.at = "sleep" =>
         \/ age + dog.timer <= Rotate + Period
         \/ /\ Silence + dog.timer <= Period
            /\ age + dog.timer <= Rotate + 2 * Period + Patience

ConnInv == TypeOK /\ Shapes /\ OneSession /\ Fresh /\ Watched /\ Rotated

\* However many failures, the delay is a natural number.
LEMMA Delay ==
  ASSUME NEW f \in 0..6, NEW j \in 0..Less(3, Backoff(f) \div 4)
  PROVE  Backoff(f) \in Nat /\ Backoff(f) + j \in Nat
<1>1. Less(f, 5) \in Nat
  BY DEF Less
<1>2. 2 ^ Less(f, 5) \in Int
  BY <1>1
<1>3. Backoff(f) \in Nat
  BY <1>2, ConnectionAssumption DEF Backoff, Less, More
<1>4. Backoff(f) \div 4 \in Nat
  BY <1>3
<1> QED BY <1>3, <1>4 DEF Less

\* Every way out of a session leads to one state of the supervisor, with no
\* socket and no bootstrap task left.
LEMMA SessionOver ==
  ASSUME ConnInv, sup.at # "stopped", NEW f \in 0..6, NEW t \in {"none", "due", "good", "bad"},
         AfterSession(f, t), UNCHANGED <<conns, age, quiet, owed, dog>>,
         snapshot' \in BOOLEAN, reconnect' \in BOOLEAN, upsets' \in 0..MaxUpsets
  PROVE  ConnInv'
<1>1. sup' \in [at : {"backoff"}, timer : Nat]
  BY Delay DEF AfterSession
<1>2. failures' \in 0..5 /\ token' \in {"none", "due", "good", "bad"}
  BY DEF AfterSession, Less
<1>3. ws' = 0 /\ closed' = FALSE /\ connected' = FALSE /\ boot' = NoBoot
  BY DEF AfterSession
<1>4. NoBoot \in [at : {"idle", "waiting"}, timer : 0..BootInterval,
                  left : 0..BootAttempts, socket : 0..MaxConns] /\ NoBoot.at = "idle"
  BY ConnectionAssumption DEF NoBoot
<1>5. sup'.at = "backoff" /\ sup'.timer \in Nat
  BY <1>1
<1>6. TypeOK'
  BY <1>2, <1>3, <1>4, <1>5 DEF ConnInv, TypeOK
<1>7. Shapes'
  BY <1>1, <1>3, <1>4, <1>5 DEF ConnInv, Shapes
<1>8. OneSession' /\ Fresh' /\ Watched' /\ Rotated'
  BY <1>3, <1>4, <1>5 DEF OneSession, Fresh, Watched, Rotated
<1> QED BY <1>6, <1>7, <1>8 DEF ConnInv

LEMMA SleepIs ==
  /\ Sleeping \in [at : {"sleep", "asking", "stopped"}, timer : Nat, socket : 0..MaxConns]
  /\ Sleeping.at = "sleep" /\ Sleeping.timer = Period /\ Sleeping.socket = 0
BY ConnectionAssumption DEF Sleeping

LEMMA UpsetIs == ASSUME Upset, upsets \in 0..MaxUpsets PROVE upsets' \in 0..MaxUpsets
BY ConnectionAssumption DEF Upset

\* The supervisor's steps.
LEMMA SuperviseKeeps ==
  ASSUME ConnInv, Supervise \/ LoginFails \/ HandshakeFails \/ Received
  PROVE  ConnInv'
<1> USE DEF socketState
<1>1. CASE Authenticate
  BY <1>1 DEF ConnInv, TypeOK, Shapes, OneSession, Fresh, Silence, Watched, Rotated, Authenticate
<1>2. CASE LoginFails
  <2>1. PICK t \in {token, "none"} : AfterSession(failures + 1, t)
    BY <1>2 DEF LoginFails
  <2>2. failures + 1 \in 0..6 /\ t \in {"none", "due", "good", "bad"} /\ sup.at # "stopped"
    BY <1>2 DEF LoginFails, ConnInv, TypeOK
  <2>3. upsets' \in 0..MaxUpsets
    BY <1>2, UpsetIs DEF LoginFails, ConnInv, TypeOK
  <2> QED BY <1>2, <2>1, <2>2, <2>3, SessionOver DEF LoginFails, ConnInv, TypeOK
<1>3. CASE HandshakeFails
  <2>1. failures + 1 \in 0..6 /\ sup.at # "stopped"
    BY <1>3 DEF HandshakeFails, ConnInv, TypeOK
  <2>2. upsets' \in 0..MaxUpsets
    BY <1>3, UpsetIs DEF HandshakeFails, ConnInv, TypeOK
  <2> QED BY <1>3, <2>1, <2>2, SessionOver DEF HandshakeFails, ConnInv, TypeOK
<1>4. CASE HandshakeRejected
  <2>1. failures + 1 \in 0..6 /\ sup.at # "stopped"
    BY <1>4 DEF HandshakeRejected, ConnInv, TypeOK
  <2> QED BY <1>4, <2>1, SessionOver DEF HandshakeRejected, ConnInv, TypeOK
<1>5. CASE SessionEnds
  <2>1. failures \in 0..6 /\ failures + 1 \in 0..6 /\ sup.at # "stopped"
    BY <1>5 DEF SessionEnds, ConnInv, TypeOK
  <2> QED BY <1>5, <2>1, SessionOver DEF SessionEnds, ConnInv, TypeOK
<1>6. CASE Opened
  <2>1. conns' \in 1..MaxConns
    BY <1>6, ConnectionAssumption DEF Opened, ConnInv, TypeOK
  <2>2. /\ boot' \in [at : {"idle", "waiting"}, timer : 0..BootInterval,
                      left : 0..BootAttempts, socket : 0..MaxConns]
        /\ boot'.socket = conns' /\ boot'.at = "waiting"
    BY <1>6, <2>1, ConnectionAssumption DEF Opened
  <2>3. sup' \in [at : {"live"}, timer : Nat] /\ sup'.at = "live" /\ dog.at # "stopped"
    BY <1>6 DEF Opened, ConnInv, Shapes
  <2>4. TypeOK' /\ Shapes' /\ OneSession'
    <3>1. sup'.timer \in Nat /\ boot'.left \in 0..BootAttempts /\ boot'.timer \in 0..BootInterval
      BY <2>2, <2>3
    <3>2. /\ ws' = conns' /\ connected' = TRUE /\ closed' = FALSE /\ age' = 0 /\ quiet' = -1
          /\ owed' = TRUE /\ snapshot' = FALSE /\ UNCHANGED <<failures, token, reconnect, dog, upsets>>
      BY <1>6 DEF Opened
    <3>3. TypeOK'
      BY <2>1, <2>2, <2>3, <3>1, <3>2 DEF ConnInv, TypeOK
    <3>4. Shapes'
      BY <2>1, <2>2, <2>3, <3>2, <1>6 DEF Opened, ConnInv, TypeOK, Shapes
    <3>5. OneSession'
      BY <2>1, <2>2, <2>3, <3>2 DEF OneSession
    <3> QED BY <3>3, <3>4, <3>5
  <2>5. Fresh' /\ Watched' /\ Rotated'
    BY <1>6, <2>3, ConnectionAssumption DEF Opened, ConnInv, Shapes, Fresh, Watched, Rotated, Silence
  <2> QED BY <2>4, <2>5 DEF ConnInv
<1>7. CASE Received
  <2>1. CASE reconnect
    <3>1. failures \in 0..6 /\ sup.at # "stopped" /\ reconnect' = reconnect
      BY <1>7 DEF Received, ConnInv, TypeOK
    <3> QED BY <1>7, <2>1, <3>1, SessionOver DEF Received, ConnInv, TypeOK
  <2>2. CASE ~reconnect
    <3>1. /\ quiet' = 0 /\ failures' = 0 /\ owed' \in BOOLEAN /\ snapshot' \in BOOLEAN
          /\ UNCHANGED <<sup, ws, closed, connected, conns, age, token, boot, reconnect, dog, upsets>>
      BY <1>7, <2>2 DEF Received, ConnInv, TypeOK
    <3>2. TypeOK' /\ Shapes' /\ OneSession' /\ Fresh'
      BY <3>1 DEF ConnInv, TypeOK, Shapes, OneSession, Fresh, Silence
    <3>3. Silence \in Nat /\ Silence' = 0
      BY <3>1 DEF ConnInv, TypeOK, Silence
    <3>4. Watched' /\ Rotated'
      BY <3>1, <3>3, ConnectionAssumption DEF ConnInv, TypeOK, Shapes, Watched, Rotated
    <3> QED BY <3>2, <3>4 DEF ConnInv
  <2> QED BY <2>1, <2>2 DEF ConnInv, TypeOK
<1>8. CASE TryAgain
  BY <1>8 DEF ConnInv, TypeOK, Shapes, OneSession, Fresh, Silence, Watched, Rotated, TryAgain
<1> QED BY <1>1, <1>2, <1>3, <1>4, <1>5, <1>6, <1>7, <1>8 DEF Supervise

\* The socket may be closed at any time: the bounds hold until it is replaced.
LEMMA MayClose ==
  ASSUME ConnInv, closed' \in {closed, TRUE}, UNCHANGED <<connected, age, quiet, dog, snapshot>>
  PROVE  Fresh' /\ Watched' /\ Rotated'
<1>1. Silence' = Silence /\ Silence \in Nat /\ age \in Nat /\ dog.timer \in Nat
  BY DEF Silence, ConnInv, TypeOK, Shapes
<1>2. connected => dog.at \in {"sleep", "asking"}
  BY DEF ConnInv, TypeOK, Shapes, OneSession
<1>3. connected => Silence <= Stale + Period + Patience /\ age <= Rotate + 2 * Period + Patience
  BY <1>1, <1>2, ConnectionAssumption DEF ConnInv, TypeOK, Watched, Rotated
<1> QED BY <1>1, <1>3 DEF ConnInv, TypeOK, Fresh, Watched, Rotated

\* The bootstrap task and the watchdog.
LEMMA TasksKeep ==
  ASSUME ConnInv, Tasks PROVE ConnInv'
<1> USE DEF socketState
<1>0. Silence \in Nat /\ age \in Nat
  BY DEF Silence, ConnInv, TypeOK
<1>1. CASE BootstrapDone
  <2>1. NoBoot \in [at : {"idle", "waiting"}, timer : 0..BootInterval,
                    left : 0..BootAttempts, socket : 0..MaxConns] /\ NoBoot.at = "idle"
    BY ConnectionAssumption DEF NoBoot
  <2> QED BY <1>1, <2>1
        DEF ConnInv, TypeOK, Shapes, OneSession, Fresh, Silence, Watched, Rotated, BootstrapDone
<1>2. CASE Resubscribe
  <2>1. /\ boot' \in [at : {"idle", "waiting"}, timer : 0..BootInterval,
                      left : 0..BootAttempts, socket : 0..MaxConns]
        /\ boot'.at = "waiting" => boot'.socket = boot.socket
    <3>1. CASE boot.left = 1
      BY <1>2, <3>1, ConnectionAssumption DEF Resubscribe, NoBoot
    <3>2. CASE boot.left # 1
      <4>1. boot.left - 1 \in 0..BootAttempts /\ BootInterval \in 0..BootInterval
        BY <1>2, ConnectionAssumption DEF Resubscribe, ConnInv, Shapes
      <4> QED BY <1>2, <3>2, <4>1 DEF Resubscribe, ConnInv, Shapes
    <3> QED BY <3>1, <3>2
  <2>2. boot.at = "waiting"
    BY <1>2 DEF Resubscribe
  <2>3. TypeOK' /\ Shapes' /\ OneSession'
    BY <1>2, <2>1, <2>2 DEF Resubscribe, ConnInv, TypeOK, Shapes, OneSession
  <2>4. Fresh' /\ Watched' /\ Rotated'
    BY <1>2 DEF Resubscribe, ConnInv, Fresh, Silence, Watched, Rotated
  <2> QED BY <2>3, <2>4 DEF ConnInv
<1>3. CASE Watch
  <2>1. CASE connected /\ Silent /\ ~closed
    <3>1. dog' = [at |-> "asking", timer |-> Patience, socket |-> ws] /\ snapshot' = FALSE
          /\ owed' = TRUE /\ UNCHANGED <<reconnect, closed>>
      BY <1>3, <2>1 DEF Watch
    <3>2. /\ dog' \in [at : {"sleep", "asking", "stopped"}, timer : Nat, socket : 0..MaxConns]
          /\ dog'.at = "asking" /\ dog'.timer = Patience
      BY <3>1, ConnectionAssumption DEF ConnInv, TypeOK
    <3>3. dog.at = "sleep" /\ dog.timer = 0
      BY <1>3 DEF Watch
    <3>4. TypeOK' /\ Shapes' /\ OneSession' /\ Fresh'
      <4>1. UNCHANGED <<sup, ws, connected, conns, age, quiet, failures, token, boot, upsets>>
        BY <1>3 DEF Watch
      <4>2. dog'.socket \in 0..MaxConns /\ sup.at # "stopped"
        BY <2>1, <3>2 DEF ConnInv, OneSession
      <4>3. TypeOK'
        BY <3>1, <3>2, <4>1, <4>2 DEF ConnInv, TypeOK
      <4>4. Shapes'
        BY <3>1, <3>2, <4>1, <4>2 DEF ConnInv, Shapes
      <4> QED BY <3>1, <4>1, <4>3, <4>4 DEF ConnInv, OneSession, Fresh
    <3>5. Silence' = Silence /\ Silence <= Stale + Period
      BY <1>0, <1>3, <2>1, <3>3 DEF Watch, ConnInv, Watched, Silence
    <3>6. age <= Rotate + Period
      BY <1>0, <2>1, <3>3, ConnectionAssumption DEF ConnInv, Rotated, Silent, Silence
    <3>7. Watched' /\ Rotated'
      BY <1>0, <1>3, <2>1, <3>1, <3>2, <3>5, <3>6, ConnectionAssumption DEF Watch, Watched, Rotated
    <3> QED BY <3>4, <3>7 DEF ConnInv
  <2>2. CASE ~(connected /\ Silent /\ ~closed)
    <3>1. dog' = Sleeping /\ UNCHANGED <<snapshot, owed>>
          /\ UNCHANGED <<sup, ws, connected, conns, age, quiet, failures, token, boot, upsets>>
      BY <1>3, <2>2 DEF Watch
    <3>2. closed' \in {closed, TRUE} /\ reconnect' \in BOOLEAN /\ closed' \in BOOLEAN
          /\ (connected /\ ~closed /\ TooOld => closed')
      BY <1>3, <2>2 DEF Watch, ForceReconnect, ConnInv, TypeOK, OneSession
    <3>3. dog.at = "sleep" /\ dog.timer = 0
      BY <1>3 DEF Watch
    <3>4. TypeOK' /\ Shapes' /\ OneSession' /\ Fresh'
      BY <3>1, <3>2, <3>3, SleepIs, ConnectionAssumption
         DEF ConnInv, TypeOK, Shapes, OneSession, Fresh
    <3>5. Silence' = Silence
      BY <3>1 DEF Silence
    <3>6. connected => /\ Silence <= Stale + Period + Patience
                       /\ age <= Rotate + 2 * Period + Patience
      BY <1>0, <3>3, ConnectionAssumption DEF ConnInv, TypeOK, Watched, Rotated
    <3>7. connected /\ ~closed' => Silence < Stale /\ age < Rotate
      <4> SUFFICES ASSUME connected, ~closed' PROVE Silence < Stale /\ age < Rotate
        OBVIOUS
      <4>1. ~closed
        BY <3>2
      <4>2. ~Silent /\ ~TooOld
        BY <2>2, <3>2, <4>1
      <4> QED BY <1>0, <4>2, ConnectionAssumption DEF Silent, TooOld, Silence, ConnInv, TypeOK
    <3>8. Watched' /\ Rotated'
      BY <1>0, <3>1, <3>2, <3>5, <3>6, <3>7, SleepIs, ConnectionAssumption DEF Watched, Rotated
    <3> QED BY <3>4, <3>8 DEF ConnInv
  <2> QED BY <2>1, <2>2
<1>4. CASE Refreshed
  <2>1. dog' = Sleeping /\ dog.at = "asking" /\ snapshot
        /\ UNCHANGED <<sup, socketState, failures, token, reconnect, snapshot, boot, upsets>>
    BY <1>4 DEF Refreshed
  <2>2. TypeOK' /\ Shapes' /\ OneSession' /\ Fresh'
    BY <2>1, SleepIs, ConnectionAssumption DEF ConnInv, TypeOK, Shapes, OneSession, Fresh
  <2>3. Silence' = Silence /\ (connected => Silence = 0)
    BY <2>1 DEF Silence, ConnInv, Fresh
  <2>4. dog.timer \in Nat
    BY DEF ConnInv, Shapes
  <2>5. Watched' /\ Rotated'
    BY <1>0, <2>1, <2>3, <2>4, SleepIs, ConnectionAssumption DEF ConnInv, Watched, Rotated
  <2> QED BY <2>2, <2>5 DEF ConnInv
<1>5. CASE NotRefreshed
  <2>1. dog' = Sleeping /\ dog.at = "asking" /\ dog.timer = 0 /\ ~snapshot
        /\ reconnect' = TRUE /\ closed' = (closed \/ ws # 0)
        /\ UNCHANGED <<sup, ws, connected, conns, age, quiet, owed, failures, token,
                       snapshot, boot, upsets>>
    BY <1>5 DEF NotRefreshed, ForceReconnect
  <2>2. TypeOK' /\ Shapes' /\ OneSession' /\ Fresh'
    BY <2>1, SleepIs, ConnectionAssumption DEF ConnInv, TypeOK, Shapes, OneSession, Fresh
  <2>3. Silence' = Silence /\ (connected => closed')
    BY <2>1 DEF Silence, ConnInv, OneSession
  <2>4. Watched' /\ Rotated'
    BY <1>0, <2>1, <2>3, ConnectionAssumption DEF ConnInv, TypeOK, Watched, Rotated
  <2> QED BY <2>2, <2>4 DEF ConnInv
<1> QED BY <1>1, <1>2, <1>3, <1>4, <1>5 DEF Tasks

\* Time passes only while nobody is due: a watchdog that sleeps or waits
\* has some left.
LEMMA TickKeeps ==
  ASSUME ConnInv, Tick PROVE ConnInv'
<1>1. /\ sup' \in [at : {"auth", "connect", "live", "backoff", "stopped"}, timer : Nat]
      /\ sup'.at = sup.at
  BY DEF Tick, More, ConnInv, Shapes
<1>2. /\ boot' \in [at : {"idle", "waiting"}, timer : 0..BootInterval,
                    left : 0..BootAttempts, socket : 0..MaxConns]
      /\ boot'.at = boot.at /\ boot'.socket = boot.socket
  BY ConnectionAssumption DEF Tick, More, ConnInv, Shapes
<1>3. /\ dog' \in [at : {"sleep", "asking", "stopped"}, timer : Nat, socket : 0..MaxConns]
      /\ dog'.at = dog.at /\ dog'.socket = dog.socket
      /\ dog.timer > 0 => dog'.timer = dog.timer - 1
      /\ dog'.timer <= dog.timer
  BY DEF Tick, More, ConnInv, Shapes
<1>4. /\ dog.at = "sleep" => dog.timer > 0
      /\ dog.at = "asking" => dog.timer > 0 /\ ~snapshot
      /\ sup.at = "live" => ~closed
  BY DEF Tick, Due, ConnInv, Shapes
<1>5. /\ age' \in Nat /\ quiet' \in Nat \cup {-1} /\ Silence \in Nat /\ age \in Nat
      /\ connected => age' = age + 1 /\ Silence' = Silence + 1
      /\ UNCHANGED <<ws, closed, connected, conns, owed, failures, token, reconnect,
                     snapshot, upsets>>
  BY DEF Tick, Silence, ConnInv, TypeOK
<1>6. TypeOK' /\ Shapes' /\ OneSession'
  <2>1. TypeOK'
    BY <1>1, <1>2, <1>3, <1>5 DEF ConnInv, TypeOK
  <2>2. Shapes'
    BY <1>1, <1>2, <1>3, <1>5, ConnectionAssumption DEF ConnInv, Shapes
  <2>3. OneSession'
    BY <1>1, <1>2, <1>5 DEF ConnInv, OneSession
  <2> QED BY <2>1, <2>2, <2>3
<1>7. Fresh'
  BY <1>3, <1>4, <1>5 DEF Fresh
<1>8. Watched' /\ Rotated'
  <2> SUFFICES ASSUME connected PROVE Watched' /\ Rotated'
    BY <1>5 DEF Watched, Rotated
  <2>1. ~closed /\ ~closed'
    BY <1>4, <1>5 DEF ConnInv, OneSession
  <2>2. dog.timer \in Nat
    BY DEF ConnInv, Shapes
  <2> QED BY <1>3, <1>4, <1>5, <2>1, <2>2, ConnectionAssumption DEF ConnInv, Watched, Rotated
<1> QED BY <1>6, <1>7, <1>8 DEF ConnInv

\* The cloud, the button and the unload.
LEMMA WorldKeeps ==
  ASSUME ConnInv, Manual \/ PeerCloses \/ TokenAges \/ TokenDropped \/ Stop
  PROVE  ConnInv'
<1> USE DEF socketState
<1>1. CASE Manual
  <2>1. closed' \in {closed, TRUE} /\ closed' \in BOOLEAN /\ reconnect' = TRUE
    BY <1>1 DEF Manual, ForceReconnect, ConnInv, TypeOK
  <2>2. upsets' \in 0..MaxUpsets
    BY <1>1, UpsetIs DEF Manual, ConnInv, TypeOK
  <2>3. TypeOK' /\ Shapes' /\ OneSession'
    BY <1>1, <2>1, <2>2 DEF Manual, ConnInv, TypeOK, Shapes, OneSession
  <2> QED BY <1>1, <2>1, <2>3, MayClose DEF Manual, ConnInv
<1>2. CASE PeerCloses
  <2>1. upsets' \in 0..MaxUpsets
    BY <1>2, UpsetIs DEF PeerCloses, ConnInv, TypeOK
  <2>2. TypeOK' /\ Shapes' /\ OneSession'
    BY <1>2, <2>1 DEF PeerCloses, ConnInv, TypeOK, Shapes, OneSession
  <2> QED BY <1>2, <2>2, MayClose DEF PeerCloses, ConnInv
<1>3. CASE TokenAges \/ TokenDropped
  <2>1. upsets' \in 0..MaxUpsets
    BY <1>3, UpsetIs DEF TokenAges, TokenDropped, ConnInv, TypeOK
  <2>2. token' \in {"none", "due", "bad"} /\ UNCHANGED <<sup, socketState, failures, reconnect,
                                                         snapshot, boot, dog>>
    BY <1>3 DEF TokenAges, TokenDropped
  <2> QED BY <2>1, <2>2
        DEF ConnInv, TypeOK, Shapes, OneSession, Fresh, Silence, Watched, Rotated
<1>4. CASE Stop
  <2>1. NoBoot \in [at : {"idle", "waiting"}, timer : 0..BootInterval,
                    left : 0..BootAttempts, socket : 0..MaxConns] /\ NoBoot.at = "idle"
    BY ConnectionAssumption DEF NoBoot
  <2>2. /\ dog' \in [at : {"stopped"}, timer : Nat, socket : 0..MaxConns]
        /\ dog'.at = "stopped"
    BY <1>4, ConnectionAssumption DEF Stop, Sleeping
  <2> QED BY <1>4, <2>1, <2>2
        DEF Stop, ConnInv, TypeOK, Shapes, OneSession, Fresh, Watched, Rotated
<1> QED BY <1>1, <1>2, <1>3, <1>4

\* The inductive invariant: one session, and a watchdog whose next look comes
\* in time for both bounds.
THEOREM ConnectionCorrect == Spec => []ConnInv
<1>1. Init => ConnInv
  <2> SUFFICES ASSUME Init PROVE ConnInv
    OBVIOUS
  <2>1. NoBoot \in [at : {"idle", "waiting"}, timer : 0..BootInterval,
                    left : 0..BootAttempts, socket : 0..MaxConns] /\ NoBoot.at = "idle"
    BY ConnectionAssumption DEF NoBoot
  <2>2. sup \in [at : {"auth"}, timer : Nat] /\ sup.at = "auth" /\ sup.timer = 0
    BY DEF Init
  <2>3. boot = NoBoot /\ dog = Sleeping /\ connected = FALSE /\ ws = 0 /\ conns = 0
    BY DEF Init
  <2>4. TypeOK
    <3>1. boot.left \in 0..BootAttempts /\ boot.timer \in 0..BootInterval /\ boot.at = "idle"
      BY <2>1, <2>3
    <3>2. dog.at = "sleep" /\ dog.socket \in 0..MaxConns
      BY <2>3, SleepIs
    <3>3. 0 \in 0..MaxConns /\ 0 \in 0..MaxUpsets /\ 0 \in 0..5
      BY ConnectionAssumption
    <3> QED BY <2>2, <2>3, <3>1, <3>2, <3>3 DEF Init, TypeOK
  <2>5. Shapes
    BY <2>1, <2>2, <2>3, SleepIs, ConnectionAssumption DEF Shapes
  <2>6. OneSession /\ Fresh /\ Watched /\ Rotated
    BY <2>1, <2>2, <2>3 DEF OneSession, Fresh, Watched, Rotated
  <2> QED BY <2>4, <2>5, <2>6 DEF ConnInv
<1>2. ConnInv /\ [Next]_vars => ConnInv'
  <2> SUFFICES ASSUME ConnInv, [Next]_vars PROVE ConnInv'
    OBVIOUS
  <2>1. CASE UNCHANGED vars
    BY <2>1 DEF ConnInv, TypeOK, Shapes, OneSession, Fresh, Silence, Watched, Rotated,
                vars, socketState
  <2>2. CASE Next
    BY <2>2, SuperviseKeeps, TasksKeep, TickKeeps, WorldKeeps DEF Next
  <2> QED BY <2>1, <2>2
<1> QED BY <1>1, <1>2, PTL DEF Spec

\* The three tasks keep to their types for all windows and limits.
THEOREM ConnectionTypes == Spec => []TypeOK
BY ConnectionCorrect, PTL DEF ConnInv

\* async_stop, the supervisor and the bootstrap task agree on the one session.
THEOREM SessionIsOne == Spec => []OneSession
BY ConnectionCorrect, PTL DEF ConnInv

\* _watchdog_loop: a connection that reports nothing is asked and then
\* replaced, for any windows with a sleep shorter than the stale window.
THEOREM SilenceIsBounded == Spec => []SilenceBounded
<1>1. ConnInv => SilenceBounded
  <2> SUFFICES ASSUME ConnInv, connected PROVE Silence <= Stale + Period + Patience
    BY DEF SilenceBounded
  <2>1. Silence \in Nat /\ dog.timer \in Nat /\ dog.at \in {"sleep", "asking"}
    BY DEF ConnInv, TypeOK, Shapes, OneSession, Silence
  <2> QED BY <2>1, ConnectionAssumption DEF ConnInv, TypeOK, Watched
<1> QED BY <1>1, ConnectionCorrect, PTL

\* _watchdog_loop: no session is kept past its rotation, refreshed or not.
THEOREM AgeIsBounded == Spec => []AgeBounded
<1>1. ConnInv => AgeBounded
  <2> SUFFICES ASSUME ConnInv, connected PROVE age <= Rotate + 2 * Period + Patience
    BY DEF AgeBounded
  <2>1. age \in Nat /\ dog.timer \in Nat /\ dog.at \in {"sleep", "asking"}
    BY DEF ConnInv, TypeOK, Shapes, OneSession
  <2> QED BY <2>1, ConnectionAssumption DEF ConnInv, TypeOK, Rotated
<1> QED BY <1>1, ConnectionCorrect, PTL

\* The watchdog asked one socket, and the client has another by now: that one
\* was opened since, and is no older than the asking.
Young == dog.at = "asking" /\ ws # 0 /\ ws # dog.socket => age + dog.timer <= Patience

\* What AskedFirst, which the code does not keep, leaves: a socket that the
\* watchdog closes without having asked it is never one that it should have
\* found silent, but one that was opened within the time of the refresh.
UnaskedYoung == [][NotRefreshed /\ ws # 0 /\ ~closed /\ ws # dog.socket => age <= Patience]_vars

LEMMA YoungStep ==
  ASSUME ConnInv, ConnInv', Young, [Next]_vars
  PROVE  Young'
<1> USE DEF socketState
<1>0. /\ age \in Nat /\ age' \in Nat /\ dog.timer \in Nat /\ dog'.timer \in Nat
      /\ dog'.at = "asking" => dog'.timer <= Patience
      /\ dog \in [at : {"sleep", "asking", "stopped"}, timer : Nat, socket : 0..MaxConns]
  BY DEF ConnInv, TypeOK, Shapes
<1>1. ASSUME ws' = 0 PROVE Young'
  BY <1>1 DEF Young
<1>2. ASSUME dog'.at # "asking" \/ ws' = dog'.socket PROVE Young'
  BY <1>2 DEF Young
<1>3. ASSUME UNCHANGED <<ws, age, dog>> PROVE Young'
  BY <1>3 DEF Young
<1>4. CASE Opened
  <2>1. age' = 0 /\ dog' = dog
    BY <1>4 DEF Opened
  <2>2. dog'.at = "asking" => age' + dog'.timer <= Patience
    BY <1>0, <2>1
  <2> QED BY <2>2 DEF Young
<1>5. CASE Tick
  <2>1. dog.at = "asking" => dog.timer # 0
    BY <1>5 DEF Tick, Due
  <2>2. /\ dog'.at = dog.at /\ dog'.socket = dog.socket /\ ws' = ws
        /\ dog'.timer = More(0, dog.timer - 1)
    BY <1>0, <1>5 DEF Tick
  <2>3. age' = age \/ age' = age + 1
    BY <1>5 DEF Tick
  <2>4. ASSUME dog.at = "asking", age + dog.timer <= Patience PROVE age' + dog'.timer <= Patience
    <3>1. dog'.timer = dog.timer - 1
      BY <1>0, <2>1, <2>2, <2>4 DEF More
    <3> QED BY <1>0, <2>3, <2>4, <3>1, ConnectionAssumption
  <2> QED BY <2>2, <2>4 DEF Young
<1>6. CASE Watch
  <2>1. dog'.socket = ws' \/ dog'.at = "sleep"
    BY <1>6, SleepIs DEF Watch
  <2> QED BY <1>2, <2>1
<1>7. CASE Refreshed \/ NotRefreshed
  BY <1>2, <1>7, SleepIs DEF Refreshed, NotRefreshed
<1>8. CASE Stop
  BY <1>1, <1>8 DEF Stop
<1>9. CASE LoginFails \/ HandshakeFails \/ HandshakeRejected \/ SessionEnds
  BY <1>1, <1>9 DEF LoginFails, HandshakeFails, HandshakeRejected, SessionEnds, AfterSession
<1>10. CASE Received
  BY <1>1, <1>3, <1>10 DEF Received, AfterSession
<1>11. CASE \/ Authenticate \/ TryAgain \/ BootstrapDone \/ Resubscribe
            \/ Manual \/ PeerCloses \/ TokenAges \/ TokenDropped \/ UNCHANGED vars
  BY <1>3, <1>11 DEF Authenticate, TryAgain, BootstrapDone, Resubscribe, Manual, PeerCloses,
                     TokenAges, TokenDropped, vars
<1> QED BY <1>4, <1>5, <1>6, <1>7, <1>8, <1>9, <1>10, <1>11 DEF Next, Supervise, Tasks

\* UnaskedYoung for any windows: how far the finding about AskedFirst reaches.
THEOREM UnaskedIsYoung == Spec => UnaskedYoung
<1>1. Init => Young
  BY DEF Init, Young
<1>2. ConnInv /\ ConnInv' /\ Young /\ [Next]_vars => Young'
  BY YoungStep
<1>3. ConnInv /\ Young =>
        [NotRefreshed /\ ws # 0 /\ ~closed /\ ws # dog.socket => age <= Patience]_vars
  BY DEF ConnInv, TypeOK, Shapes, Young, NotRefreshed
<1> QED BY <1>1, <1>2, <1>3, ConnectionCorrect, PTL DEF Spec, UnaskedYoung
=============================================================================
