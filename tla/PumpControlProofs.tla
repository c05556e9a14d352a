-------------------------- MODULE PumpControlProofs --------------------------
(***************************************************************************)
(* Machine-checked proofs about PumpControl, for any callers, commands,    *)
(* speeds, reports and touches.                                            *)
(***************************************************************************)
EXTENDS PumpControl, FiniteSetTheorems, TLAPS

Points == CallPoints \cup WorkPoints

\* Points of an actor that asked for a confirmation, and of one that is in
\* the line of the lock.
Asked  == {"sent", "refresh"}
Lining == {"queued", "dropping", "sent", "refresh", "unwinding"}

\* The line ln, the sender who (0 for none) and the actors' points fit.
Fits(ln, who, at) ==
  /\ ln \in Seq(Actors) /\ at \in [Actors -> Points]
  /\ \A i, j \in 1..Len(ln) : ln[i] = ln[j] => i = j
  /\ \A i \in 1..Len(ln) : at[ln[i]] \in Lining /\ (at[ln[i]] = "dropping" => i = 1)
  /\ \A a \in Actors : at[a] \in Asked => who = a
  /\ who # 0 => /\ who \in Actors /\ ln # <<>> /\ ln[1] = who
                /\ at[who] \in Asked \cup {"unwinding"}

LEMMA NobodyIsZero == 0 \notin Actors /\ Cardinality(Callers) \in Nat
                      /\ Callers \cap Generations = {}
BY PumpAssumption, FS_CardinalityType DEF Actors, Generations

-----------------------------------------------------------------------------
(* How the line can move.                                                  *)

\* Whoever is not in the line may do anything but ask.
LEMMA ElsewhereMoves ==
  ASSUME NEW ln, NEW who, NEW at, Fits(ln, who, at),
         NEW a \in Actors, NEW p \in Points \ Asked, at[a] \notin Lining
  PROVE  Fits(ln, who, [at EXCEPT ![a] = p])
<1>1. \A i \in 1..Len(ln) : ln[i] \in Actors /\ ln[i] # a
  BY DEF Fits
<1>2. who # 0 => who # a
  BY DEF Fits, Asked, Lining
<1> QED BY <1>1, <1>2 DEF Fits

\* A cancelled actor stays in the line until it is run.
LEMMA Unwinds ==
  ASSUME NEW ln, NEW who, NEW at, Fits(ln, who, at), NEW a \in Actors
  PROVE  Fits(ln, who, [at EXCEPT ![a] = "unwinding"])
<1>1. \A i \in 1..Len(ln) : ln[i] \in Actors
  BY DEF Fits
<1>2. "unwinding" \in Points /\ "unwinding" \in Lining /\ "unwinding" \notin Asked
  BY DEF Points, WorkPoints, Lining, Asked
<1> QED BY <1>1, <1>2 DEF Fits

\* The holder of the lock waits for the worker that it cancelled.
LEMMA HeadDrops ==
  ASSUME NEW ln, NEW who, NEW at, Fits(ln, who, at),
         NEW a \in Actors, ln # <<>>, ln[1] = a, at[a] = "queued"
  PROVE  Fits(ln, who, [at EXCEPT ![a] = "dropping"])
<1>1. \A i \in 1..Len(ln) : ln[i] \in Actors /\ (ln[i] = a => i = 1)
  <2>1. 1 \in 1..Len(ln)
    BY DEF Fits
  <2> QED BY <2>1 DEF Fits
<1>2. who # a \/ who = 0
  BY DEF Fits, Asked
<1>3. "dropping" \in Points /\ "dropping" \in Lining /\ "dropping" \notin Asked
  BY DEF Points, CallPoints, Lining, Asked
<1> QED BY <1>1, <1>2, <1>3 DEF Fits

\* Someone new queues up.
LEMMA Joins ==
  ASSUME NEW ln, NEW who, NEW at, Fits(ln, who, at),
         NEW a \in Actors, \A i \in 1..Len(ln) : ln[i] # a
  PROVE  Fits(Append(ln, a), who, [at EXCEPT ![a] = "queued"])
<1> DEFINE n == Append(ln, a)
<1>1. ln \in Seq(Actors) /\ Len(ln) \in Nat
  BY DEF Fits
<1>2. /\ n \in Seq(Actors) /\ Len(n) = Len(ln) + 1 /\ n[Len(ln) + 1] = a
      /\ \A i \in 1..Len(ln) : n[i] = ln[i]
  BY <1>1
<1>3. \A i \in 1..Len(n) : i \in 1..Len(ln) \/ i = Len(ln) + 1
  BY <1>1, <1>2
<1>4. \A i \in 1..Len(ln) : ln[i] \in Actors
  BY <1>1
<1>5. who # 0 => who # a /\ n # <<>> /\ n[1] = ln[1]
  <2> SUFFICES ASSUME who # 0 PROVE who # a /\ n # <<>> /\ n[1] = ln[1]
    OBVIOUS
  <2>1. 1 \in 1..Len(ln) /\ ln[1] = who
    BY <1>1 DEF Fits
  <2> QED BY <1>1, <1>2, <2>1
<1>6. "queued" \in Points /\ "queued" \in Lining /\ "queued" \notin Asked
  BY DEF Points, CallPoints, Lining, Asked
<1> HIDE DEF n
<1>7. \A i, j \in 1..Len(n) : n[i] = n[j] => i = j
  BY <1>1, <1>2, <1>3 DEF Fits
<1>8. \A i \in 1..Len(n) : LET t == [at EXCEPT ![a] = "queued"]
                           IN  t[n[i]] \in Lining /\ (t[n[i]] = "dropping" => i = 1)
  BY <1>2, <1>3, <1>4, <1>6 DEF Fits
<1>9. Fits(n, who, [at EXCEPT ![a] = "queued"])
  BY <1>2, <1>5, <1>6, <1>7, <1>8 DEF Fits
<1> QED BY <1>9 DEF n

\* The holder of the lock asks, or asks again.
LEMMA Asks ==
  ASSUME NEW ln, NEW who, NEW at, Fits(ln, who, at),
         NEW a \in Actors, ln # <<>>, ln[1] = a, NEW p \in Asked
  PROVE  Fits(ln, a, [at EXCEPT ![a] = p])
<1>1. \A i \in 1..Len(ln) : ln[i] \in Actors
  BY DEF Fits
<1>2. \A b \in Actors \ {a} : at[b] \notin Asked
  BY NobodyIsZero DEF Fits
<1>3. p \in Points /\ p \in Lining /\ p # "dropping"
  BY DEF Points, CallPoints, Lining, Asked
<1> QED BY <1>1, <1>2, <1>3 DEF Fits

\* The holder of the lock releases it: the next one has it.
LEMMA HeadLeaves ==
  ASSUME NEW ln, NEW who, NEW at, Fits(ln, who, at),
         NEW a \in Actors, ln # <<>>, ln[1] = a, NEW p \in Points \ Asked
  PROVE  Fits(Tail(ln), 0, [at EXCEPT ![a] = p])
<1> DEFINE n == Tail(ln)
<1>1. ln \in Seq(Actors) /\ Len(ln) \in Nat /\ Len(ln) >= 1
  BY DEF Fits
<1>2. /\ n \in Seq(Actors) /\ Len(n) = Len(ln) - 1
      /\ \A i \in 1..Len(n) : n[i] = ln[i + 1]
  BY <1>1
<1>3. \A i \in 1..Len(n) : i + 1 \in 1..Len(ln) /\ i + 1 # 1
  BY <1>1, <1>2
<1>4. \A i \in 1..Len(n) : n[i] \in Actors /\ n[i] # a
  <2>1. 1 \in 1..Len(ln)
    BY <1>1
  <2> QED BY <1>1, <1>2, <1>3, <2>1 DEF Fits
<1>5. \A b \in Actors \ {a} : at[b] \notin Asked
  BY NobodyIsZero DEF Fits
<1> HIDE DEF n
<1>6. \A i, j \in 1..Len(n) : n[i] = n[j] => i = j
  <2> SUFFICES ASSUME NEW i \in 1..Len(n), NEW j \in 1..Len(n), n[i] = n[j] PROVE i = j
    OBVIOUS
  <2>1. i + 1 = j + 1
    BY <1>2, <1>3 DEF Fits
  <2> QED BY <1>1, <1>2, <2>1
<1>7. \A i \in 1..Len(n) : at[n[i]] \in Lining /\ at[n[i]] # "dropping"
  BY <1>2, <1>3 DEF Fits
<1>8. Fits(n, 0, [at EXCEPT ![a] = p])
  BY <1>2, <1>4, <1>5, <1>6, <1>7 DEF Fits
<1> QED BY <1>8 DEF n

\* Someone gives up, in the line or not.
LEMMA Leaves ==
  ASSUME NEW ln, NEW who, NEW at, Fits(ln, who, at),
         NEW a \in Actors, NEW p \in Points \ Asked, p \notin Lining
  PROVE  Fits(Without(ln, a), IF who = a THEN 0 ELSE who, [at EXCEPT ![a] = p])
<1> DEFINE n == Without(ln, a)
           w == IF who = a THEN 0 ELSE who
<1>1. ln \in Seq(Actors) /\ Len(ln) \in Nat /\ \A i \in 1..Len(ln) : ln[i] \in Actors
  BY DEF Fits
<1>2. CASE \A i \in 1..Len(ln) : ln[i] # a
  <2>1. n = ln
    BY <1>2 DEF Without
  <2>2. w = who
    BY <1>1, <1>2 DEF Fits
  <2>3. Fits(ln, who, [at EXCEPT ![a] = p])
    <3>1. who # 0 => who # a
      BY <1>1, <1>2 DEF Fits
    <3> QED BY <1>1, <1>2, <3>1 DEF Fits
  <2> QED BY <2>1, <2>2, <2>3
<1>3. CASE \E i \in 1..Len(ln) : ln[i] = a
  <2> DEFINE k == CHOOSE i \in 1..Len(ln) : ln[i] = a
  <2>1. k \in 1..Len(ln) /\ ln[k] = a
    BY <1>3
  <2> HIDE DEF k
  <2>2. n = [j \in 1..(Len(ln) - 1) |-> IF j < k THEN ln[j] ELSE ln[j + 1]]
    BY <1>3 DEF Without, k
  <2> DEFINE F(j) == IF j < k THEN ln[j] ELSE ln[j + 1]
             M(j) == IF j < k THEN j ELSE j + 1
  <2>3. \A j \in 1..(Len(ln) - 1) : M(j) \in 1..Len(ln) /\ M(j) # k /\ F(j) = ln[M(j)]
    BY <1>1, <2>1
  <2>4. \A i, j \in 1..(Len(ln) - 1) : M(i) = M(j) => i = j
    BY <1>1, <2>1
  <2>5. \A j \in 1..(Len(ln) - 1) : F(j) \in Actors
    BY <1>1, <2>3
  <2>6. n \in Seq(Actors) /\ Len(n) = Len(ln) - 1 /\ \A j \in 1..Len(n) : n[j] = ln[M(j)]
    <3>1. Len(ln) - 1 \in Nat
      BY <1>1, <2>1
    <3>2. n \in [1..(Len(ln) - 1) -> Actors]
      BY <2>2, <2>5
    <3>3. n \in Seq(Actors) /\ Len(n) = Len(ln) - 1
      BY <3>1, <3>2
    <3> HIDE DEF n
    <3> QED BY <2>2, <2>3, <3>3
  <2> HIDE DEF n, M, F
  <2>7. \A i, j \in 1..Len(n) : n[i] = n[j] => i = j
    BY <2>3, <2>4, <2>6 DEF Fits
  <2>8. \A j \in 1..Len(n) : n[j] # a /\ n[j] \in Actors
    BY <1>1, <2>1, <2>3, <2>6 DEF Fits
  <2>9. \A j \in 1..Len(n) : at[n[j]] \in Lining /\ (at[n[j]] = "dropping" => j = 1)
    <3> SUFFICES ASSUME NEW j \in 1..Len(n)
                 PROVE  at[n[j]] \in Lining /\ (at[n[j]] = "dropping" => j = 1)
      OBVIOUS
    <3>1. M(j) \in 1..Len(ln) /\ n[j] = ln[M(j)]
      BY <2>3, <2>6
    <3>2. M(j) = 1 => j = 1
      BY <2>1, <2>6, <1>1 DEF M
    <3> QED BY <3>1, <3>2 DEF Fits
  <2>10. who # 0 /\ who # a => n # <<>> /\ n[1] = who
    <3> SUFFICES ASSUME who # 0, who # a PROVE n # <<>> /\ n[1] = who
      OBVIOUS
    <3>1. ln[1] = who /\ k # 1 /\ 1 \in 1..Len(ln)
      BY <1>1, <2>1 DEF Fits
    <3>2. 1 \in 1..Len(n) /\ M(1) = 1
      BY <1>1, <2>1, <2>6, <3>1 DEF M
    <3> QED BY <2>6, <3>1, <3>2
  <2>11. /\ w # 0 => w = who /\ who # 0 /\ who # a
         /\ \A b \in Actors \ {a} : at[b] \in Asked => w = b
    BY DEF Fits
  <2> HIDE DEF w
  <2>12. Fits(n, w, [at EXCEPT ![a] = p])
    BY <2>6, <2>7, <2>8, <2>9, <2>10, <2>11 DEF Fits
  <2> QED BY <2>12 DEF n, w
<1> QED BY <1>2, <1>3

-----------------------------------------------------------------------------
(* The inductive invariant.                                                *)

At == [a \in Actors |-> IF a \in Callers THEN call[a].at ELSE worker[a].at]

CallFields == {"kind", "value", "at", "stage", "was", "waits"}

CallOK(r) ==
  DOMAIN r = CallFields /\ r.kind \in DOMAIN FieldOf /\ r.at \in CallPoints

CallsOK == DOMAIN call = Callers /\ \A c \in Callers : CallOK(call[c])

\* A worker that has not tried yet has not sent anything.
WorkerOK(w) ==
  /\ DOMAIN w = DOMAIN Unborn /\ w.at \in WorkPoints /\ w.result \in Results
  /\ w.sends \in {0, 1}
  /\ w.at \in {"none", "queued"} \/ (w.at = "watching" /\ ~w.tried) => w.sends = 0

WorkersOK ==
  /\ DOMAIN worker = Generations
  /\ \A g \in Generations : WorkerOK(worker[g]) /\ (g > gen => worker[g] = Unborn)

\* Each generation belongs to a startup that has succeeded.
Started == {c \in Callers : call[c].kind = "start" /\ call[c].at = "ok"}

GensOK == gen \in Nat /\ current \in {0, gen} /\ gen <= Cardinality(Started)

LinkOK ==
  /\ sock \in 1..MaxConns /\ DOMAIN rep = DOMAIN device
  /\ DOMAIN pending = DOMAIN NoPending /\ (pending.who = 0 => pending = NoPending)

PumpInv == CallsOK /\ WorkersOK /\ GensOK /\ LinkOK /\ Fits(line, pending.who, At)

LEMMA Generated ==
  ASSUME PumpInv
  PROVE  /\ gen \in 0..Cardinality(Callers) /\ current \in 0..gen
         /\ current # 0 => current \in Generations /\ current = gen
         /\ \A c \in Callers \ Started : call[c].kind = "start" => gen + 1 \in Generations
<1>1. Started \subseteq Callers /\ IsFiniteSet(Callers)
  BY PumpAssumption DEF Started
<1>2. IsFiniteSet(Started) /\ Cardinality(Started) \in Nat
      /\ Cardinality(Started) <= Cardinality(Callers) /\ Cardinality(Callers) \in Nat
  BY <1>1, FS_Subset, FS_CardinalityType
<1>3. ASSUME NEW c \in Callers \ Started PROVE Cardinality(Started) + 1 <= Cardinality(Callers)
  <2>1. Started # Callers
    BY <1>3
  <2>2. Cardinality(Started) < Cardinality(Callers)
    BY <1>1, <1>2, <2>1, FS_Subset
  <2> QED BY <1>2, <2>2
<1> QED BY <1>2, <1>3 DEF PumpInv, GensOK, Generations

LEMMA FitsNow ==
  ASSUME PumpInv
  PROVE  Fits(line, pending.who, At)
BY DEF PumpInv

\* What the invariant is for.
LEMMA Implied ==
  ASSUME PumpInv
  PROVE  TypeOK /\ OnePending /\ InLine /\ OneAlignment
<1>1. Fits(line, pending.who, At) /\ 0 \notin Actors /\ Callers \cap Generations = {}
  BY NobodyIsZero DEF PumpInv
<1>2. /\ \A c \in Callers : c \in Actors /\ At[c] = call[c].at /\ call[c].at \in CallPoints
      /\ \A g \in Generations : /\ g \in Actors /\ g \notin Callers
                                /\ At[g] = worker[g].at /\ worker[g].at \in WorkPoints
  BY <1>1 DEF PumpInv, CallsOK, CallOK, WorkersOK, WorkerOK, At, Actors
<1>3. \A a \in Actors : a \in Callers \/ a \in Generations
  BY DEF Actors
<1>4. TypeOK
  BY <1>1, Generated DEF TypeOK, PumpInv, CallsOK, CallOK, WorkersOK, WorkerOK, LinkOK, Fits
<1>5. \A a \in Actors : Waiting(a) <=> At[a] \in Asked
  BY <1>2, <1>3 DEF Waiting, Asked, WorkPoints
<1>6. line # <<>> => Head(line) = line[1]
  BY <1>1 DEF Fits
<1>7. OnePending
  <2>1. ASSUME NEW a \in Actors, Waiting(a) PROVE Holds(a) /\ pending.who = a
    BY <1>1, <1>5, <1>6, <2>1 DEF Fits, Holds
  <2>2. ASSUME pending # NoPending
        PROVE  Holds(pending.who) /\ (Waiting(pending.who) \/ worker[pending.who].at = "unwinding")
    <3>1. pending.who \in Actors /\ Holds(pending.who) /\ At[pending.who] \in Asked \cup {"unwinding"}
      BY <1>1, <1>6, <2>2 DEF PumpInv, LinkOK, Fits, Holds
    <3> QED BY <1>2, <1>3, <1>5, <3>1 DEF CallPoints
  <2> QED BY <2>1, <2>2 DEF OnePending
<1>8. InLine
  <2>1. \A i \in 1..Len(line) : line[i] \in Actors
    BY <1>1 DEF Fits
  <2>2. ASSUME NEW i \in 1..Len(line)
        PROVE  IF line[i] \in Callers
               THEN call[line[i]].at \in {"queued", "dropping", "sent", "refresh"}
               ELSE worker[line[i]].at \in {"queued", "sent", "unwinding"}
    <3>1. At[line[i]] \in Lining
      BY <1>1 DEF Fits
    <3> QED BY <1>2, <1>3, <2>1, <3>1 DEF Lining, CallPoints, WorkPoints
  <2> QED BY <1>1, <2>2 DEF InLine, Fits
<1>9. OneAlignment
  BY DEF PumpInv, WorkersOK, WorkerOK, OneAlignment
<1> QED BY <1>4, <1>7, <1>8, <1>9

-----------------------------------------------------------------------------
(* How the parts of the invariant move.                                    *)

\* One caller's record changes, and no worker's point.
LEMMA AtCaller ==
  ASSUME PumpInv, NEW c \in Callers, NEW r, call' = [call EXCEPT ![c] = r],
         \A g \in Generations : worker'[g].at = worker[g].at
  PROVE  At' = [At EXCEPT ![c] = r.at]
<1>1. c \in Actors /\ \A a \in Actors \ Callers : a \in Generations
  BY DEF Actors
<1>2. \A b \in Callers : call'[b] = IF b = c THEN r ELSE call[b]
  BY DEF PumpInv, CallsOK
<1>3. \A a \in Actors :
        (IF a \in Callers THEN call'[a].at ELSE worker'[a].at) = [At EXCEPT ![c] = r.at][a]
  BY <1>1, <1>2 DEF At
<1> QED BY <1>3 DEF At

\* One worker's record changes, and no caller's point.
LEMMA AtWorker ==
  ASSUME PumpInv, NEW g \in Generations, NEW w, worker' = [worker EXCEPT ![g] = w],
         \A c \in Callers : call'[c].at = call[c].at
  PROVE  At' = [At EXCEPT ![g] = w.at]
<1>1. g \in Actors /\ g \notin Callers /\ \A a \in Actors \ Callers : a \in Generations
  BY NobodyIsZero DEF Actors
<1>2. \A h \in Generations : worker'[h] = IF h = g THEN w ELSE worker[h]
  BY DEF PumpInv, WorkersOK
<1>3. \A a \in Actors :
        (IF a \in Callers THEN call'[a].at ELSE worker'[a].at) = [At EXCEPT ![g] = w.at][a]
  BY <1>1, <1>2 DEF At
<1> QED BY <1>3 DEF At

Put(f, x, v) == [f EXCEPT ![x] = v]

\* One of each.
LEMMA AtBoth ==
  ASSUME PumpInv, NEW c \in Callers, NEW r, call' = Put(call, c, r),
         NEW g \in Generations, NEW w, worker' = Put(worker, g, w)
  PROVE  At' = Put(Put(At, c, r.at), g, w.at)
<1>1. /\ c \in Actors /\ g \in Actors /\ g \notin Callers /\ c # g
      /\ \A a \in Actors \ Callers : a \in Generations
  BY NobodyIsZero DEF Actors
<1>2. /\ \A b \in Callers : call'[b] = IF b = c THEN r ELSE call[b]
      /\ \A h \in Generations : worker'[h] = IF h = g THEN w ELSE worker[h]
  BY DEF PumpInv, CallsOK, WorkersOK, Put
<1> DEFINE X == Put(At, c, r.at)
<1>3. /\ X = [a \in Actors |-> X[a]]
      /\ \A a \in Actors :
           X[a] = IF a = c THEN r.at ELSE IF a \in Callers THEN call[a].at ELSE worker[a].at
  BY <1>1 DEF At, Put
<1> HIDE DEF X
<1>4. \A a \in Actors :
        (IF a \in Callers THEN call'[a].at ELSE worker'[a].at) = IF a = g THEN w.at ELSE X[a]
  BY <1>1, <1>2, <1>3
<1>5. Put(X, g, w.at) = [a \in Actors |-> IF a = g THEN w.at ELSE X[a]]
  BY <1>3 DEF Put
<1>6. At' = Put(X, g, w.at)
  BY <1>4, <1>5 DEF At
<1> QED BY <1>6 DEF X

\* Points that stay as they are.
LEMMA AtSame ==
  ASSUME UNCHANGED call, \A g \in Generations : worker'[g].at = worker[g].at
  PROVE  At' = At
BY DEF At, Actors

\* A caller goes on; those that have succeeded stay so.
LEMMA CallGoesOn ==
  ASSUME PumpInv, NEW c \in Callers, call[c].at # "ok", NEW r, CallOK(r),
         call' = [call EXCEPT ![c] = r]
  PROVE  /\ CallsOK'
         /\ Cardinality(Started) \in Nat /\ Cardinality(Started') \in Nat
         /\ Cardinality(Started) <= Cardinality(Started')
         /\ r.kind = "start" /\ r.at = "ok" => Cardinality(Started') = Cardinality(Started) + 1
<1>1. DOMAIN call' = Callers /\ \A b \in Callers : call'[b] = IF b = c THEN r ELSE call[b]
  BY DEF PumpInv, CallsOK
<1>2. CallsOK'
  BY <1>1 DEF PumpInv, CallsOK
<1>3. /\ c \notin Started /\ Started \subseteq Callers /\ Started' \subseteq Callers
      /\ Started' = IF r.kind = "start" /\ r.at = "ok" THEN Started \cup {c} ELSE Started
  BY <1>1 DEF Started
<1>4. IsFiniteSet(Started) /\ Cardinality(Started) \in Nat
  BY <1>3, PumpAssumption, FS_Subset, FS_CardinalityType
<1>5. Cardinality(Started \cup {c}) = Cardinality(Started) + 1
  BY <1>3, <1>4, FS_AddElement
<1> QED BY <1>2, <1>3, <1>4, <1>5

\* No generation without its startup, while none is added.
LEMMA Counted ==
  ASSUME PumpInv, Cardinality(Started) \in Nat, Cardinality(Started') \in Nat,
         Cardinality(Started) <= Cardinality(Started'), gen' = gen, current' \in {0, current}
  PROVE  GensOK'
BY DEF PumpInv, GensOK

\* A worker goes on.
LEMMA WorkerGoesOn ==
  ASSUME PumpInv, NEW g \in Generations, g <= gen, NEW w, WorkerOK(w),
         worker' = [worker EXCEPT ![g] = w], gen' = gen
  PROVE  WorkersOK'
BY DEF PumpInv, GensOK, Generations, WorkersOK

\* A worker that exists is not of a generation to come.
LEMMA Born ==
  ASSUME PumpInv, NEW g \in Generations, worker[g].at # "none"
  PROVE  g <= gen
BY DEF PumpInv, GensOK, Generations, WorkersOK, Unborn

\* What the holder of the lock knows: it is the first, and nobody else asks.
LEMMA Holder ==
  ASSUME PumpInv, NEW a \in Actors, Holds(a)
  PROVE  /\ line # <<>> /\ line[1] = a
         /\ At[a] \notin Asked \cup {"unwinding"} => pending = NoPending
BY DEF PumpInv, LinkOK, Fits, Holds

-----------------------------------------------------------------------------
(* The callers.                                                            *)

LEMMA DropKeeps ==
  ASSUME PumpInv, NEW c \in Callers, current # 0, Drop(c),
         call[c].at = "idle" \/ (call[c].at = "queued" /\ Holds(c))
  PROVE  PumpInv'
<1> DEFINE r == [call[c] EXCEPT !.at = "dropping", !.waits = current]
           w == [worker[current] EXCEPT !.at = "unwinding"]
<1>1. /\ current \in Generations /\ current = gen /\ CallOK(call[c])
      /\ WorkerOK(worker[current]) /\ c \in Actors /\ current \in Actors
      /\ At[c] = call[c].at
  BY Generated DEF PumpInv, CallsOK, WorkersOK, Actors, At
<1>2. call' = [call EXCEPT ![c] = r] /\ worker' = [worker EXCEPT ![current] = w]
  BY <1>1 DEF Drop, PumpInv, CallsOK, WorkersOK
<1>3. CallOK(r) /\ r.at = "dropping" /\ r.kind = call[c].kind
  BY <1>1 DEF CallOK, CallFields, CallPoints
<1>4. WorkerOK(w) /\ w.at = "unwinding"
  BY <1>1 DEF WorkerOK, Unborn, WorkPoints
<1> HIDE DEF r, w
<1> DEFINE X == [At EXCEPT ![c] = r.at]
<1>5. Fits(line, pending.who, X)
  <2>1. CASE call[c].at = "idle"
    <3>1. "dropping" \in Points \ Asked /\ At[c] \notin Lining
      BY <1>1, <2>1 DEF Points, CallPoints, Asked, Lining
    <3> QED BY <1>1, <1>3, <3>1, FitsNow, ElsewhereMoves
  <2>2. CASE call[c].at = "queued" /\ Holds(c)
    <3>1. line # <<>> /\ line[1] = c /\ At[c] = "queued"
      BY <1>1, <2>2, Holder
    <3> QED BY <1>1, <1>3, <3>1, FitsNow, HeadDrops
  <2> QED BY <2>1, <2>2
<1> HIDE DEF X
<1>6. Fits(line, pending.who, [X EXCEPT ![current] = w.at])
  BY <1>1, <1>4, <1>5, Unwinds
<1>7. At' = [X EXCEPT ![current] = w.at]
  <2>1. call' = Put(call, c, r) /\ worker' = Put(worker, current, w)
    BY <1>2 DEF Put
  <2>2. At' = Put(Put(At, c, r.at), current, w.at)
    BY <1>1, <2>1, AtBoth
  <2> QED BY <2>2 DEF X, Put
<1>8. UNCHANGED <<line, pending, gen, rep, device, sock>> /\ current' = 0
  BY DEF Drop, link, cloud
<1>9. Fits(line, pending.who, At)'
  BY <1>6, <1>7, <1>8
<1>10. /\ CallsOK' /\ Cardinality(Started) \in Nat /\ Cardinality(Started') \in Nat
       /\ Cardinality(Started) <= Cardinality(Started')
  BY <1>2, <1>3, CallGoesOn
<1>11. GensOK'
  BY <1>8, <1>10, Counted
<1>12. WorkersOK'
  <2>1. current <= gen
    BY <1>1, Generated
  <2> QED BY <1>1, <1>2, <1>4, <1>8, <2>1, WorkerGoesOn
<1> QED BY <1>8, <1>9, <1>10, <1>11, <1>12 DEF PumpInv, LinkOK

LEMMA QueueKeeps ==
  ASSUME PumpInv, NEW c \in Callers, Queue(c),
         call[c].at = "idle" \/ (call[c].at = "dropping" /\ ~Holds(c))
  PROVE  PumpInv'
<1> DEFINE r == [call[c] EXCEPT !.at = "queued"]
<1>1. CallOK(call[c]) /\ c \in Actors /\ At[c] = call[c].at
  BY DEF PumpInv, CallsOK, Actors, At
<1>2. call' = [call EXCEPT ![c] = r] /\ line' = Append(line, c)
      /\ UNCHANGED <<pending, current, gen, worker, rep, device, sock>>
  BY DEF Queue, work, link, cloud
<1>3. CallOK(r) /\ r.at = "queued"
  BY <1>1 DEF CallOK, CallFields, CallPoints
<1> HIDE DEF r
<1>4. \A i \in 1..Len(line) : line[i] # c
  <2> SUFFICES ASSUME NEW i \in 1..Len(line), line[i] = c PROVE FALSE
    OBVIOUS
  <2>1. At[c] \in Lining /\ (At[c] = "dropping" => i = 1) /\ line # <<>>
    BY DEF PumpInv, Fits
  <2> QED BY <1>1, <2>1 DEF Lining, Holds
<1>5. Fits(Append(line, c), pending.who, [At EXCEPT ![c] = "queued"])
  BY <1>1, <1>4, FitsNow, Joins
<1>6. At' = [At EXCEPT ![c] = r.at]
  BY <1>2, AtCaller
<1>7. /\ CallsOK' /\ Cardinality(Started) \in Nat /\ Cardinality(Started') \in Nat
      /\ Cardinality(Started) <= Cardinality(Started')
  BY <1>2, <1>3, CallGoesOn
<1>8. Fits(line, pending.who, At)'
  BY <1>2, <1>3, <1>5, <1>6
<1>9. GensOK'
  BY <1>2, <1>7, Counted
<1>10. WorkersOK' /\ LinkOK'
  BY <1>2 DEF PumpInv, WorkersOK, LinkOK
<1> QED BY <1>7, <1>8, <1>9, <1>10 DEF PumpInv

\* A caller sends a write and waits for it.
Sends(c) ==
  /\ pending'.who = c /\ DOMAIN pending' = DOMAIN NoPending
  /\ call' = [call EXCEPT ![c] = call'[c]] /\ CallOK(call'[c])
  /\ call'[c].at \in Asked /\ call'[c].kind = call[c].kind
  /\ UNCHANGED <<line, work>>

\* A caller's command ends; only a startup that succeeds has a worker.
Ends(c) ==
  \E ok, aligns \in BOOLEAN :
    (aligns => ok /\ call[c].kind = "start") /\ End(c, ok, aligns)

LinkKept ==
  UNCHANGED sock /\ (DOMAIN rep = DOMAIN device => DOMAIN rep' = DOMAIN device')

LEMMA SendKeeps ==
  ASSUME PumpInv, NEW c \in Callers, Holds(c), call[c].at # "ok", Sends(c), LinkKept
  PROVE  PumpInv'
<1>1. c \in Actors /\ line # <<>> /\ line[1] = c
  BY Holder DEF Actors
<1>2. At' = [At EXCEPT ![c] = call'[c].at]
  BY AtCaller DEF Sends, work
<1>3. Fits(line, c, At')
  BY <1>1, <1>2, FitsNow, Asks DEF Sends
<1>4. Fits(line, pending.who, At)'
  BY <1>3 DEF Sends
<1>5. /\ CallsOK' /\ Cardinality(Started) \in Nat /\ Cardinality(Started') \in Nat
      /\ Cardinality(Started) <= Cardinality(Started')
  BY CallGoesOn DEF Sends
<1>6. LinkOK'
  BY <1>1, NobodyIsZero DEF PumpInv, LinkOK, LinkKept, Sends
<1>7. WorkersOK'
  BY DEF PumpInv, WorkersOK, Sends, work
<1>8. GensOK'
  BY <1>5, Counted DEF Sends, work
<1> QED BY <1>4, <1>5, <1>6, <1>7, <1>8 DEF PumpInv

LEMMA Followed ==
  ASSUME PumpInv, NEW c \in Callers, NEW ok \in BOOLEAN
  PROVE  /\ CallOK(Following(c, ok)) /\ Following(c, ok).at \in {"idle", "ok", "failed"}
         /\ ok /\ call[c].kind = "start" =>
              Following(c, ok).kind = "start" /\ Following(c, ok).at = "ok"
<1>1. CallOK(call[c])
  BY DEF PumpInv, CallsOK
<1>2. "itsSpeed" \in DOMAIN FieldOf /\ "undo" \in DOMAIN FieldOf
  BY DEF FieldOf
<1> QED BY <1>1, <1>2 DEF Following, CallOK, CallFields, CallPoints

LEMMA EndKeeps ==
  ASSUME PumpInv, NEW c \in Callers, Holds(c), call[c].at # "ok", Ends(c), LinkKept
  PROVE  PumpInv'
<1>1. PICK ok \in BOOLEAN, aligns \in BOOLEAN :
        (aligns => ok /\ call[c].kind = "start") /\ End(c, ok, aligns)
  BY DEF Ends
<1> DEFINE r == Following(c, ok)
<1>2. CallOK(r) /\ r.at \in {"idle", "ok", "failed"}
      /\ (aligns => r.kind = "start" /\ r.at = "ok")
  BY <1>1, Followed
<1>3. c \in Actors /\ line # <<>> /\ line[1] = c
  BY Holder DEF Actors
<1>4. call' = [call EXCEPT ![c] = r] /\ line' = Tail(line) /\ pending' = NoPending
  BY <1>1 DEF End, NothingSent
<1> HIDE DEF r
<1>5. r.at \in Points \ Asked /\ r.at \notin Lining
  BY <1>2 DEF Points, CallPoints, Asked, Lining
<1> DEFINE X == [At EXCEPT ![c] = r.at]
<1>6. Fits(line', 0, X)
  BY <1>3, <1>4, <1>5, FitsNow, HeadLeaves
<1>7. /\ CallsOK' /\ Cardinality(Started) \in Nat /\ Cardinality(Started') \in Nat
      /\ Cardinality(Started) <= Cardinality(Started')
      /\ aligns => Cardinality(Started') = Cardinality(Started) + 1
  BY <1>2, <1>4, CallGoesOn
<1>8. LinkOK' /\ pending'.who = 0
  BY <1>4 DEF PumpInv, LinkOK, LinkKept, NoPending
<1>9. CASE aligns
  <2> DEFINE w == [Unborn EXCEPT !.at = "watching", !.target = call[c].value]
  <2>1. gen' = gen + 1 /\ current' = gen + 1 /\ worker' = [worker EXCEPT ![gen + 1] = w]
    BY <1>1, <1>9 DEF End, Schedule
  <2>2. WorkerOK(w) /\ w.at = "watching"
    BY DEF WorkerOK, Unborn, WorkPoints, Results
  <2>3. gen + 1 \in Generations /\ gen + 1 \in Actors
    <3>1. c \notin Started
      BY DEF Started
    <3> QED BY <1>1, <1>9, <3>1, Generated DEF Actors
  <2> HIDE DEF w
  <2>4. WorkersOK'
    BY <2>1, <2>2, <2>3 DEF PumpInv, GensOK, WorkersOK, Generations
  <2>5. At' = [X EXCEPT ![gen + 1] = w.at]
    <3>1. call' = Put(call, c, r) /\ worker' = Put(worker, gen + 1, w)
      BY <1>4, <2>1 DEF Put
    <3>2. At' = Put(Put(At, c, r.at), gen + 1, w.at)
      BY <2>3, <3>1, AtBoth
    <3> QED BY <3>2 DEF Put
  <2>6. X[gen + 1] \notin Lining
    <3>1. worker[gen + 1] = Unborn /\ gen + 1 \notin Callers
      BY <2>3, NobodyIsZero DEF PumpInv, GensOK, WorkersOK
    <3>2. At[gen + 1] = "none" /\ gen + 1 # c
      BY <2>3, <3>1 DEF At, Unborn
    <3>3. X[gen + 1] = At[gen + 1]
      BY <1>3, <2>3, <3>2 DEF At
    <3> QED BY <3>2, <3>3 DEF Lining
  <2>7. "watching" \in Points \ Asked
    BY DEF Points, WorkPoints, Asked
  <2> HIDE DEF X
  <2>8. Fits(line', 0, At')
    BY <1>6, <2>2, <2>3, <2>5, <2>6, <2>7, ElsewhereMoves
  <2>9. GensOK'
    BY <1>7, <1>9, <2>1 DEF PumpInv, GensOK
  <2> QED BY <1>7, <1>8, <2>4, <2>8, <2>9 DEF PumpInv
<1>10. CASE ~aligns
  <2> DEFINE w == [worker[current] EXCEPT !.outdated = TRUE]
  <2>1. /\ UNCHANGED <<current, gen>>
        /\ \/ worker' = worker
           \/ current # 0 /\ worker' = [worker EXCEPT ![current] = w]
    BY <1>1, <1>10 DEF End, Overtake
  <2>2. WorkersOK' /\ \A g \in Generations : worker'[g].at = worker[g].at
    <3>1. CASE worker' = worker
      BY <2>1, <3>1 DEF PumpInv, WorkersOK
    <3>2. CASE current # 0 /\ worker' = [worker EXCEPT ![current] = w]
      <4>1. current \in Generations /\ current = gen /\ WorkerOK(worker[current])
        BY <3>2, Generated DEF PumpInv, WorkersOK
      <4>2. WorkerOK(w) /\ w.at = worker[current].at
        BY <4>1 DEF WorkerOK, Unborn
      <4> HIDE DEF w
      <4>3. WorkersOK'
        <5>1. current <= gen
          BY <4>1, Generated
        <5> QED BY <2>1, <3>2, <4>1, <4>2, <5>1, WorkerGoesOn
      <4> QED BY <3>2, <4>2, <4>3 DEF PumpInv, WorkersOK
    <3> QED BY <2>1, <3>1, <3>2
  <2>3. At' = [At EXCEPT ![c] = r.at]
    BY <1>4, <2>2, AtCaller
  <2>4. GensOK'
    BY <1>7, <2>1 DEF PumpInv, GensOK
  <2> QED BY <1>6, <1>7, <1>8, <2>2, <2>3, <2>4 DEF PumpInv
<1> QED BY <1>9, <1>10

\* Each write of a command is sent or ends the command.
LEMMA GoesOn ==
  ASSUME PumpInv, NEW c \in Callers, NEW was, NEW r,
         First(c, was, r) \/ Confirmation(c, r)
  PROVE  Sends(c) \/ Ends(c)
<1>1. CallOK(call[c]) /\ DOMAIN call = Callers
  BY DEF PumpInv, CallsOK
<1>2. ASSUME NEW stage, NEW v, NEW w, Try(c, stage, v, w, r) PROVE Sends(c) \/ Ends(c)
  <2>1. CASE End(c, FALSE, FALSE)
    BY <2>1 DEF Ends
  <2>2. CASE /\ Send(c, w)
             /\ call' = [call EXCEPT ![c] = [@ EXCEPT !.at = "sent", !.stage = stage, !.was = v]]
             /\ UNCHANGED <<line, work>>
    <3> DEFINE n == [call[c] EXCEPT !.at = "sent", !.stage = stage, !.was = v]
    <3>1. call' = [call EXCEPT ![c] = n] /\ call'[c] = n
      BY <1>1, <2>2
    <3>2. CallOK(n) /\ n.at \in Asked /\ n.kind = call[c].kind
      BY <1>1 DEF CallOK, CallFields, CallPoints, Asked
    <3>3. pending'.who = c /\ DOMAIN pending' = DOMAIN NoPending
      BY <2>2 DEF Send, NoPending
    <3> HIDE DEF n
    <3> QED BY <2>2, <3>1, <3>2, <3>3 DEF Sends
  <2> QED BY <1>2, <2>1, <2>2 DEF Try
<1>3. ASSUME NEW v, Second(c, v, r) PROVE Sends(c) \/ Ends(c)
  <2> DEFINE al == call[c].kind = "start" /\ v = 0
  <2>1. CASE End(c, TRUE, al)
    <3>1. al \in BOOLEAN
      OBVIOUS
    <3> QED BY <2>1, <3>1 DEF Ends
  <2>2. CASE Try(c, 2, v, SecondWrite(c, v, r), r)
    BY <1>2, <2>2
  <2> QED BY <1>3, <2>1, <2>2 DEF Second
<1>4. ASSUME NEW v, AfterFirst(c, v, r) PROVE Sends(c) \/ Ends(c)
  <2>1. CASE Second(c, v, r)
    BY <1>3, <2>1
  <2>2. CASE End(c, TRUE, call[c].kind = "start")
    BY <2>2 DEF Ends
  <2> QED BY <1>4, <2>1, <2>2 DEF AfterFirst
<1>5. CASE First(c, was, r)
  BY <1>2, <1>4, <1>5 DEF First
<1>6. CASE Confirmation(c, r)
  <2> DEFINE al == call[c].kind = "start" /\ call[c].was = 0
  <2>1. CASE End(c, TRUE, al)
    <3>1. al \in BOOLEAN
      OBVIOUS
    <3> QED BY <2>1, <3>1 DEF Ends
  <2>2. CASE AfterFirst(c, call[c].was, r)
    BY <1>4, <2>2
  <2> QED BY <1>6, <2>1, <2>2 DEF Confirmation
<1> QED BY <1>5, <1>6

LEMMA CallerKeeps ==
  ASSUME PumpInv, NEW c \in Callers, CallerStep(c)
  PROVE  PumpInv'
<1> USE DEF work, link, cloud
<1>1. CASE Call(c)
  BY <1>1, DropKeeps, QueueKeeps DEF Call
<1>2. ASSUME Proceed(c), Holds(c), call[c].at # "ok" PROVE PumpInv'
  <2>1. LinkKept
    BY <1>2 DEF Proceed, LinkKept
  <2>2. Sends(c) \/ Ends(c)
    BY <1>2, GoesOn DEF Proceed
  <2> QED BY <1>2, <2>1, <2>2, SendKeeps, EndKeeps
<1>3. CASE Dropped(c)
  BY <1>2, <1>3, QueueKeeps DEF Dropped
<1>4. CASE Enter(c)
  <2>1. CASE DropInside(c)
    BY <1>4, <2>1, DropKeeps DEF Enter, DropInside
  <2>2. CASE ~DropInside(c)
    BY <1>2, <1>4, <2>2 DEF Enter
  <2> QED BY <2>1, <2>2
<1>5. ASSUME call[c].at \in Asked PROVE Holds(c) /\ call[c].at # "ok"
  <2>1. c \in Actors /\ At[c] = call[c].at
    BY DEF At, Actors
  <2>2. Fits(line, pending.who, At) /\ 0 \notin Actors
    BY FitsNow, NobodyIsZero
  <2> QED BY <1>5, <2>1, <2>2 DEF Fits, Holds, Asked
<1>6. CASE Confirmed(c)
  <2>1. LinkKept /\ call[c].at \in Asked
    BY <1>6 DEF Confirmed, LinkKept, Asked
  <2>2. Sends(c) \/ Ends(c)
    BY <1>6, GoesOn DEF Confirmed
  <2> QED BY <1>5, <2>1, <2>2, SendKeeps, EndKeeps
<1>7. ASSUME End(c, FALSE, FALSE), LinkKept, call[c].at \in Asked PROVE PumpInv'
  <2>1. Ends(c)
    BY <1>7 DEF Ends
  <2> QED BY <1>5, <1>7, <2>1, EndKeeps
<1>8. CASE SendFails(c)
  BY <1>7, <1>8 DEF SendFails, LinkKept, Asked
<1>9. CASE TimesOut(c)
  <2>1. CASE End(c, FALSE, FALSE) /\ UNCHANGED <<rep, link, device, mail, unasked>>
    BY <1>7, <1>9, <2>1 DEF TimesOut, LinkKept, Asked
  <2>2. CASE /\ call' = [call EXCEPT ![c].at = "refresh"]
             /\ pending' = [pending EXCEPT !.future = "late"]
             /\ UNCHANGED <<line, work, rep, link, cloud>>
    <3> DEFINE r == [call[c] EXCEPT !.at = "refresh"]
    <3>1. CallOK(call[c]) /\ DOMAIN call = Callers
      BY DEF PumpInv, CallsOK
    <3>2. call' = [call EXCEPT ![c] = r] /\ call'[c] = r
      BY <2>2, <3>1
    <3>3. CallOK(r) /\ r.at \in Asked /\ r.kind = call[c].kind
      BY <3>1 DEF CallOK, CallFields, CallPoints, Asked
    <3> HIDE DEF r
    <3>4. pending.who = c
      <4>1. c \in Actors /\ At[c] = "sent"
        BY <1>9 DEF At, Actors, TimesOut
      <4> QED BY <4>1, FitsNow DEF Fits, Asked
    <3>5. pending'.who = c /\ DOMAIN pending' = DOMAIN NoPending
      BY <2>2, <3>4 DEF PumpInv, LinkOK, NoPending
    <3>6. Sends(c) /\ LinkKept /\ call[c].at \in Asked
      BY <1>9, <2>2, <3>2, <3>3, <3>5 DEF Sends, LinkKept, TimesOut, Asked
    <3> QED BY <1>5, <3>6, SendKeeps
  <2> QED BY <1>9, <2>1, <2>2 DEF TimesOut
<1>10. CASE Refresh(c)
  <2>1. LinkKept /\ call[c].at \in Asked
    BY <1>10 DEF Refresh, LinkKept, Asked
  <2>2. CASE Confirmation(c, rep)
    BY <1>5, <2>1, <2>2, GoesOn, SendKeeps, EndKeeps
  <2>3. CASE End(c, FALSE, FALSE)
    BY <1>7, <2>1, <2>3
  <2> QED BY <1>10, <2>2, <2>3 DEF Refresh
<1> QED BY <1>1, <1>3, <1>4, <1>6, <1>8, <1>9, <1>10 DEF CallerStep

LEMMA CancelKeeps ==
  ASSUME PumpInv, NEW c \in Callers, CancelCall(c)
  PROVE  PumpInv'
<1> DEFINE r == [call[c] EXCEPT !.at = "failed"]
<1>1. CallOK(call[c]) /\ c \in Actors /\ call[c].at # "ok"
  BY DEF PumpInv, CallsOK, Actors, CancelCall
<1>2. call' = [call EXCEPT ![c] = r] /\ line' = Without(line, c)
      /\ pending' = (IF pending.who = c THEN NoPending ELSE pending)
      /\ UNCHANGED <<current, gen, worker, rep, device, sock>>
  BY DEF CancelCall, StopsWaiting, work, link, cloud
<1>3. CallOK(r) /\ r.at = "failed"
  BY <1>1 DEF CallOK, CallFields, CallPoints
<1> HIDE DEF r
<1>4. "failed" \in Points \ Asked /\ "failed" \notin Lining
  BY DEF Points, CallPoints, Asked, Lining
<1>5. Fits(line', IF pending.who = c THEN 0 ELSE pending.who, [At EXCEPT ![c] = "failed"])
  BY <1>1, <1>2, <1>4, FitsNow, Leaves
<1>6. At' = [At EXCEPT ![c] = r.at]
  BY <1>2, AtCaller
<1>7. pending'.who = IF pending.who = c THEN 0 ELSE pending.who
  BY <1>2 DEF NoPending
<1>8. Fits(line, pending.who, At)'
  BY <1>3, <1>5, <1>6, <1>7
<1>9. /\ CallsOK' /\ Cardinality(Started) \in Nat /\ Cardinality(Started') \in Nat
      /\ Cardinality(Started) <= Cardinality(Started')
  BY <1>1, <1>2, <1>3, CallGoesOn
<1>10. GensOK'
  BY <1>2, <1>9, Counted
<1>11. WorkersOK' /\ LinkOK'
  BY <1>2 DEF PumpInv, WorkersOK, LinkOK
<1> QED BY <1>8, <1>9, <1>10, <1>11 DEF PumpInv

-----------------------------------------------------------------------------
(* The workers.                                                            *)

\* A worker goes on and the line fits.
LEMMA WorkerKeeps ==
  ASSUME PumpInv, NEW g \in Generations, worker[g].at # "none",
         NEW w, WorkerOK(w), worker' = [worker EXCEPT ![g] = w],
         gen' = gen, current' \in {0, current}, UNCHANGED <<call, rep, device, sock>>,
         DOMAIN pending' = DOMAIN NoPending, pending'.who = 0 => pending' = NoPending,
         Fits(line', pending'.who, [At EXCEPT ![g] = w.at])
  PROVE  PumpInv'
<1>1. At' = [At EXCEPT ![g] = w.at]
  BY AtWorker
<1>2. WorkersOK'
  BY Born, WorkerGoesOn
<1>3. CallsOK' /\ GensOK' /\ LinkOK'
  BY DEF PumpInv, CallsOK, GensOK, Started, LinkOK
<1> QED BY <1>1, <1>2, <1>3 DEF PumpInv

\* It watches on, or ends while it watches.
LEMMA WatcherMoves ==
  ASSUME PumpInv, NEW g \in Generations, worker[g].at = "watching",
         NEW w, WorkerOK(w), worker' = [worker EXCEPT ![g] = w],
         w.at \in {"watching", "done"}, gen' = gen, current' \in {0, current},
         UNCHANGED <<call, line, pending, rep, device, sock>>
  PROVE  PumpInv'
<1>1. g \in Actors /\ At[g] = "watching"
  BY NobodyIsZero DEF Actors, At
<1>2. w.at \in Points \ Asked /\ "watching" \notin Lining
  BY DEF Points, WorkPoints, Asked, Lining
<1>3. Fits(line, pending.who, [At EXCEPT ![g] = w.at])
  BY <1>1, <1>2, FitsNow, ElsewhereMoves
<1>4. DOMAIN pending = DOMAIN NoPending /\ (pending.who = 0 => pending = NoPending)
  BY DEF PumpInv, LinkOK
<1> QED BY <1>3, <1>4, WorkerKeeps

\* It leaves the lock and watches on, or ends.
LEMMA HolderQuits ==
  ASSUME PumpInv, NEW g \in Generations, worker[g].at # "none", Holds(g),
         NEW w, WorkerOK(w), worker' = [worker EXCEPT ![g] = w],
         w.at \in {"watching", "done"}, gen' = gen, current' \in {0, current},
         line' = Tail(line), pending' = NoPending, UNCHANGED <<call, rep, device, sock>>
  PROVE  PumpInv'
<1>1. g \in Actors /\ line # <<>> /\ line[1] = g
  BY Holder DEF Actors
<1>2. w.at \in Points \ Asked
  BY DEF Points, WorkPoints, Asked
<1>3. Fits(line', 0, [At EXCEPT ![g] = w.at])
  BY <1>1, <1>2, FitsNow, HeadLeaves
<1>4. pending'.who = 0
  BY DEF NoPending
<1> QED BY <1>3, <1>4, WorkerKeeps

DoneWith(g, result) == [worker[g] EXCEPT !.at = "done", !.result = result]

LEMMA Finished ==
  ASSUME PumpInv, NEW g \in Generations, NEW result \in Results, Finishes(g, result)
  PROVE  /\ worker' = [worker EXCEPT ![g] = DoneWith(g, result)]
         /\ WorkerOK(DoneWith(g, result)) /\ DoneWith(g, result).at = "done"
         /\ gen' = gen /\ current' \in {0, current}
<1>1. WorkerOK(worker[g]) /\ DOMAIN worker = Generations
  BY DEF PumpInv, WorkersOK
<1>2. WorkerOK(DoneWith(g, result)) /\ DoneWith(g, result).at = "done"
  BY <1>1 DEF WorkerOK, DoneWith, Unborn, WorkPoints
<1>3. worker' = [worker EXCEPT ![g] = DoneWith(g, result)]
  BY <1>1 DEF Finishes, DoneWith
<1> QED BY <1>2, <1>3 DEF Finishes

LEMMA WakeKeeps ==
  ASSUME PumpInv, NEW g \in Generations, Wake(g)
  PROVE  PumpInv'
<1> DEFINE v == worker[g]
<1>1. WorkerOK(v) /\ v.at = "watching" /\ g \in Actors /\ At[g] = "watching"
      /\ UNCHANGED <<call, pending, rep, device, sock>>
  BY NobodyIsZero DEF PumpInv, WorkersOK, Wake, Actors, At, link, cloud
<1>2. ASSUME NEW result \in Results, Finishes(g, result), UNCHANGED line PROVE PumpInv'
  BY <1>1, <1>2, Finished, WatcherMoves
<1>3. CASE Becomes(g, [v EXCEPT !.primed = TRUE]) /\ UNCHANGED line
  <2> DEFINE w == [v EXCEPT !.primed = TRUE]
  <2>1. WorkerOK(w) /\ w.at = "watching"
    BY <1>1 DEF WorkerOK, Unborn
  <2>9. worker' = [worker EXCEPT ![g] = w] /\ gen' = gen /\ current' = current
    BY <1>3 DEF Becomes
  <2> HIDE DEF w
  <2> QED BY <1>1, <1>3, <2>1, <2>9, WatcherMoves
<1>4. CASE ~v.tried /\ Becomes(g, [v EXCEPT !.at = "queued"]) /\ line' = Append(line, g)
  <2> DEFINE w == [v EXCEPT !.at = "queued"]
  <2>1. WorkerOK(w) /\ w.at = "queued"
    BY <1>1, <1>4 DEF WorkerOK, Unborn, WorkPoints
  <2>9. worker' = [worker EXCEPT ![g] = w] /\ gen' = gen /\ current' = current
    BY <1>4 DEF Becomes
  <2> HIDE DEF w
  <2>2. \A i \in 1..Len(line) : line[i] # g
    BY <1>1, FitsNow DEF Fits, Lining
  <2>3. Fits(line', pending.who, [At EXCEPT ![g] = w.at])
    BY <1>1, <1>4, <2>1, <2>2, FitsNow, Joins
  <2>4. DOMAIN pending = DOMAIN NoPending /\ (pending.who = 0 => pending = NoPending)
    BY DEF PumpInv, LinkOK
  <2> QED BY <1>1, <1>4, <2>1, <2>9, <2>3, <2>4, WorkerKeeps
<1> QED BY <1>2, <1>3, <1>4 DEF Wake, Results

LEMMA LockedKeeps ==
  ASSUME PumpInv, NEW g \in Generations, Locked(g)
  PROVE  PumpInv'
<1> DEFINE v == worker[g]
<1>1. /\ WorkerOK(v) /\ v.at = "queued" /\ v.sends = 0 /\ g \in Actors /\ At[g] = "queued"
      /\ Holds(g) /\ UNCHANGED <<call, rep, device, sock>>
  BY NobodyIsZero DEF PumpInv, WorkersOK, WorkerOK, Locked, Actors, At, link
<1>2. pending = NoPending /\ line # <<>> /\ line[1] = g
  BY <1>1, Holder DEF Asked
<1>3. ASSUME NEW result \in Results, Finishes(g, result), line' = Tail(line), UNCHANGED pending
      PROVE  PumpInv'
  BY <1>1, <1>2, <1>3, Finished, HolderQuits
<1>4. CASE /\ Becomes(g, [v EXCEPT !.at = "watching"])
           /\ line' = Tail(line) /\ UNCHANGED pending
  <2> DEFINE w == [v EXCEPT !.at = "watching"]
  <2>1. WorkerOK(w) /\ w.at = "watching"
    BY <1>1 DEF WorkerOK, Unborn, WorkPoints
  <2>9. worker' = [worker EXCEPT ![g] = w] /\ gen' = gen /\ current' = current
    BY <1>4 DEF Becomes
  <2> HIDE DEF w
  <2> QED BY <1>1, <1>2, <1>4, <2>1, <2>9, HolderQuits
<1>5. CASE /\ Becomes(g, [v EXCEPT !.at = "watching", !.tried = TRUE, !.socket = sock])
           /\ line' = Tail(line) /\ UNCHANGED pending
  <2> DEFINE w == [v EXCEPT !.at = "watching", !.tried = TRUE, !.socket = sock]
  <2>1. WorkerOK(w) /\ w.at = "watching"
    BY <1>1 DEF WorkerOK, Unborn, WorkPoints
  <2>9. worker' = [worker EXCEPT ![g] = w] /\ gen' = gen /\ current' = current
    BY <1>5 DEF Becomes
  <2> HIDE DEF w
  <2> QED BY <1>1, <1>2, <1>5, <2>1, <2>9, HolderQuits
<1>6. CASE /\ Becomes(g, [v EXCEPT !.at = "sent", !.socket = sock, !.sends = @ + 1])
           /\ Send(g, <<"man", v.target>>) /\ UNCHANGED line
  <2> DEFINE w == [v EXCEPT !.at = "sent", !.socket = sock, !.sends = @ + 1]
  <2>1. WorkerOK(w) /\ w.at = "sent"
    BY <1>1 DEF WorkerOK, Unborn, WorkPoints
  <2>9. worker' = [worker EXCEPT ![g] = w] /\ gen' = gen /\ current' = current
    BY <1>6 DEF Becomes
  <2> HIDE DEF w
  <2>2. pending'.who = g /\ DOMAIN pending' = DOMAIN NoPending
    BY <1>6 DEF Send, NoPending
  <2>3. "sent" \in Asked
    BY DEF Asked
  <2>4. Fits(line, g, [At EXCEPT ![g] = w.at])
    BY <1>1, <1>2, <2>1, <2>3, FitsNow, Asks
  <2>5. g # 0 /\ v.at # "none"
    BY <1>1, NobodyIsZero
  <2> QED BY <1>1, <1>6, <2>1, <2>9, <2>2, <2>4, <2>5, WorkerKeeps
<1>7. "failed" \in Results /\ "cancelled" \in Results
  BY DEF Results
<1> QED BY <1>3, <1>4, <1>5, <1>6, <1>7 DEF Locked, Align

LEMMA WorkerStepKeeps ==
  ASSUME PumpInv, NEW g \in Generations, WorkerStep(g) \/ Expires(g)
  PROVE  PumpInv'
<1> DEFINE v == worker[g]
<1>1. WorkerOK(v) /\ g \in Actors /\ At[g] = v.at
  BY NobodyIsZero DEF PumpInv, WorkersOK, Actors, At
<1>2. ASSUME v.at = "sent" PROVE Holds(g)
  BY <1>1, <1>2, FitsNow, NobodyIsZero DEF Fits, Holds, Asked
<1>3. "failed" \in Results /\ "cancelled" \in Results /\ "timed_out" \in Results
  BY DEF Results
<1>4. CASE Aligned(g)
  <2>1. /\ v.at = "sent" /\ line' = Tail(line) /\ pending' = NoPending
        /\ UNCHANGED <<call, rep, device, sock>>
    BY <1>4 DEF Aligned, link, cloud
  <2>2. CASE Finishes(g, "cancelled")
    BY <1>2, <1>3, <2>1, <2>2, Finished, HolderQuits
  <2>3. CASE Becomes(g, Observes(v))
    <3>1. WorkerOK(Observes(v)) /\ Observes(v).at = "watching"
      BY <1>1 DEF WorkerOK, Unborn, WorkPoints, Observes
    <3> QED BY <1>2, <2>1, <2>3, <3>1, HolderQuits DEF Becomes
  <2> QED BY <1>4, <2>2, <2>3 DEF Aligned
<1>5. CASE AlignFails(g)
  <2>1. /\ v.at = "sent" /\ line' = Tail(line) /\ pending' = NoPending
        /\ UNCHANGED <<call, rep, device, sock>> /\ Finishes(g, "failed")
    BY <1>5 DEF AlignFails, link, cloud
  <2> QED BY <1>2, <1>3, <2>1, Finished, HolderQuits
<1>6. CASE Expires(g)
  <2>1. /\ v.at = "watching" /\ Finishes(g, "timed_out")
        /\ UNCHANGED <<call, line, pending, rep, device, sock>>
    BY <1>6 DEF Expires, link, cloud
  <2> QED BY <1>3, <2>1, Finished, WatcherMoves
<1>7. CASE Unwind(g)
  <2> DEFINE w == DoneWith(g, "cancelled")
  <2>1. /\ v.at = "unwinding" /\ line' = Without(line, g)
        /\ pending' = (IF pending.who = g THEN NoPending ELSE pending)
        /\ UNCHANGED <<call, current, gen, rep, device, sock>>
    BY <1>7 DEF Unwind, StopsWaiting, link, cloud
  <2>2. worker' = [worker EXCEPT ![g] = w]
    BY <1>7 DEF Unwind, DoneWith, PumpInv, WorkersOK
  <2>3. WorkerOK(w) /\ w.at = "done"
    BY <1>1, <1>3 DEF WorkerOK, DoneWith, Unborn, WorkPoints
  <2> HIDE DEF w
  <2>4. "done" \in Points \ Asked /\ "done" \notin Lining
    BY DEF Points, WorkPoints, Asked, Lining
  <2>5. Fits(line', IF pending.who = g THEN 0 ELSE pending.who, [At EXCEPT ![g] = w.at])
    BY <1>1, <2>1, <2>3, <2>4, FitsNow, Leaves
  <2>6. /\ pending'.who = IF pending.who = g THEN 0 ELSE pending.who
        /\ DOMAIN pending' = DOMAIN NoPending /\ (pending'.who = 0 => pending' = NoPending)
    BY <2>1 DEF NoPending, PumpInv, LinkOK
  <2> QED BY <2>1, <2>2, <2>3, <2>5, <2>6, WorkerKeeps
<1> QED BY <1>4, <1>5, <1>6, <1>7, WakeKeeps, LockedKeeps DEF WorkerStep

-----------------------------------------------------------------------------
(* The receive loop, the socket and everything outside.                    *)

\* The pending command is failed, confirmed or left alone.
LEMMA PendingStays ==
  ASSUME PumpInv, NEW future,
         \/ UNCHANGED pending
         \/ pending.future = "open" /\ pending' = [pending EXCEPT !.future = future]
         \/ Vouch
  PROVE  /\ pending'.who = pending.who /\ DOMAIN pending' = DOMAIN NoPending
         /\ pending'.who = 0 => pending' = NoPending
BY DEF PumpInv, LinkOK, NoPending, Vouch

\* Nobody's point changes.
LEMMA NobodyMoves ==
  ASSUME PumpInv, UNCHANGED <<call, line, gen, current>>, WorkersOK',
         \A g \in Generations : worker'[g].at = worker[g].at,
         pending'.who = pending.who, LinkOK'
  PROVE  PumpInv'
<1>1. At' = At
  BY AtSame
<1>2. CallsOK' /\ GensOK'
  BY DEF PumpInv, CallsOK, GensOK, Started
<1>3. Fits(line, pending.who, At)'
  BY <1>1, FitsNow
<1> QED BY <1>2, <1>3 DEF PumpInv

LEMMA EnvironmentKeeps ==
  ASSUME PumpInv,
         \/ \E part \in Parts : Reported(part)
         \/ Report \/ Read \/ Merge
         \/ \E v \in echoes : Desired(v)
         \/ \E m \in wire : Execute(m)
         \/ \E t \in Touches : Touch(t)
         \/ Motor \/ Disconnect \/ Reconnect \/ Stop
  PROVE  PumpInv'
<1> USE DEF work, link, cloud
<1>1. /\ sock \in 1..MaxConns /\ DOMAIN rep = DOMAIN device
      /\ DOMAIN pending = DOMAIN NoPending /\ (pending.who = 0 => pending = NoPending)
  BY DEF PumpInv, LinkOK
<1>2. UNCHANGED worker => WorkersOK' \/ gen' # gen
  BY DEF PumpInv, WorkersOK
<1>3. CASE (\E part \in Parts : Reported(part)) \/ Report \/ Read \/ Merge
  <2>1. /\ pending'.who = pending.who /\ DOMAIN pending' = DOMAIN NoPending
        /\ pending'.who = 0 => pending' = NoPending
    BY <1>3, PendingStays DEF Reported, Report, Read, Merge
  <2>2. DOMAIN rep' = DOMAIN rep /\ UNCHANGED <<call, line, gen, current, worker, device, sock>>
    BY <1>3 DEF Reported, Report, Read, Merge, Merged
  <2> QED BY <1>1, <1>2, <2>1, <2>2, NobodyMoves DEF LinkOK
<1>4. ASSUME NEW v \in echoes, Desired(v) PROVE PumpInv'
  <2> DEFINE w == [worker[current] EXCEPT !.override = TRUE]
  <2>1. UNCHANGED <<call, line, gen, current, pending, rep, device, sock>>
    BY <1>4 DEF Desired
  <2>2. WorkersOK' /\ \A g \in Generations : worker'[g].at = worker[g].at
    <3>1. CASE worker' = worker
      BY <1>2, <2>1, <3>1
    <3>2. CASE current # 0 /\ worker' = [worker EXCEPT ![current].override = TRUE]
      <4>1. current \in Generations /\ current <= gen /\ WorkerOK(worker[current])
            /\ DOMAIN worker = Generations
        BY <3>2, Generated DEF PumpInv, WorkersOK
      <4>2. WorkerOK(w) /\ w.at = worker[current].at
        BY <4>1 DEF WorkerOK, Unborn
      <4>3. worker' = [worker EXCEPT ![current] = w]
        BY <3>2, <4>1
      <4> HIDE DEF w
      <4>4. WorkersOK'
        BY <2>1, <4>1, <4>2, <4>3, WorkerGoesOn
      <4> QED BY <4>1, <4>2, <4>3, <4>4
    <3> QED BY <1>4, <3>1, <3>2 DEF Desired
  <2> QED BY <1>1, <2>1, <2>2, NobodyMoves DEF LinkOK
<1>6. CASE \/ \E m \in wire : Execute(m)
           \/ \E t \in Touches : Touch(t)
           \/ Motor
  <2>1. /\ DOMAIN device' = DOMAIN device
        /\ UNCHANGED <<call, line, gen, current, worker, rep, sock>>
    BY <1>6 DEF Execute, Touch, Motor
  <2>2. /\ pending'.who = pending.who /\ DOMAIN pending' = DOMAIN NoPending
        /\ pending'.who = 0 => pending' = NoPending
    <3>1. Vouch
      BY <1>6 DEF Execute, Touch, Motor
    <3> QED BY <3>1, PendingStays
  <2> QED BY <1>1, <1>2, <2>1, <2>2, NobodyMoves DEF LinkOK
<1>7. CASE Disconnect
  <2>1. UNCHANGED <<call, line, gen, current, worker, rep, device, sock>>
    BY <1>7 DEF Disconnect, Sever
  <2>2. /\ pending'.who = pending.who /\ DOMAIN pending' = DOMAIN NoPending
        /\ pending'.who = 0 => pending' = NoPending
    BY <1>7, PendingStays DEF Disconnect, FailPending
  <2> QED BY <1>1, <1>2, <2>1, <2>2, NobodyMoves DEF LinkOK
<1>8. CASE Reconnect
  <2>1. UNCHANGED <<call, line, gen, current, worker, pending, rep, device>>
        /\ sock' \in 1..MaxConns
    BY <1>1, <1>8, PumpAssumption DEF Reconnect
  <2> QED BY <1>1, <1>2, <2>1, NobodyMoves DEF LinkOK
<1>9. CASE Stop
  <2>1. UNCHANGED <<call, line, gen, rep, device, sock>> /\ current' = 0
    BY <1>9 DEF Stop, Sever
  <2>2. /\ pending'.who = pending.who /\ DOMAIN pending' = DOMAIN NoPending
        /\ pending'.who = 0 => pending' = NoPending
    BY <1>9, PendingStays DEF Stop, FailPending
  <2>3. CASE current = 0
    <3>1. UNCHANGED <<worker, current>>
      BY <1>9, <2>1, <2>3 DEF Stop
    <3> QED BY <1>1, <1>2, <2>1, <2>2, <3>1, NobodyMoves DEF LinkOK
  <2>4. CASE current # 0
    <3> DEFINE w == [worker[current] EXCEPT !.at = "unwinding"]
    <3>1. /\ current \in Generations /\ current <= gen /\ WorkerOK(worker[current])
          /\ DOMAIN worker = Generations /\ current \in Actors
      BY <2>4, Generated DEF PumpInv, WorkersOK, Actors
    <3>2. worker' = [worker EXCEPT ![current] = w]
      BY <1>9, <2>4, <3>1 DEF Stop
    <3>3. WorkerOK(w) /\ w.at = "unwinding"
      BY <3>1 DEF WorkerOK, Unborn, WorkPoints
    <3> HIDE DEF w
    <3>4. WorkersOK'
      BY <2>1, <3>1, <3>2, <3>3, WorkerGoesOn
    <3>5. At' = [At EXCEPT ![current] = w.at]
      BY <2>1, <3>1, <3>2, AtWorker
    <3>6. Fits(line, pending.who, At)'
      BY <2>1, <2>2, <3>1, <3>3, <3>5, FitsNow, Unwinds
    <3>7. CallsOK' /\ GensOK' /\ LinkOK'
      BY <1>1, <2>1, <2>2 DEF PumpInv, CallsOK, GensOK, Started, LinkOK
    <3> QED BY <3>4, <3>6, <3>7 DEF PumpInv
  <2> QED BY <2>3, <2>4
<1> QED BY <1>3, <1>4, <1>6, <1>7, <1>8, <1>9

-----------------------------------------------------------------------------
(* The theorems.                                                           *)

\* The control lock, its line, the pending command and the workers fit
\* together whatever is cancelled, fails, is late or is stopped.
THEOREM PumpCorrect == Spec => []PumpInv
<1>1. Init => PumpInv
  <2> SUFFICES ASSUME Init PROVE PumpInv
    OBVIOUS
  <2>1. PICK cmds \in [Callers -> Commands] :
          call = [c \in Callers |-> [kind |-> cmds[c].kind, value |-> cmds[c].value,
                                     at |-> "idle", stage |-> 1, was |-> 0, waits |-> 0]]
    BY DEF Init
  <2>2. CallsOK /\ \A c \in Callers : call[c].at = "idle"
    BY <2>1, PumpAssumption DEF CallsOK, CallOK, CallFields, CallPoints
  <2>3. WorkersOK /\ \A g \in Generations : worker[g].at = "none"
    BY DEF Init, WorkersOK, WorkerOK, Unborn, WorkPoints, Results
  <2>4. LinkOK /\ line = <<>> /\ pending.who = 0
    BY PumpAssumption DEF Init, LinkOK, NoPending
  <2>5. GensOK
    <3>1. Started = {}
      BY <2>2 DEF Started
    <3> QED BY <3>1, FS_EmptySet DEF Init, GensOK
  <2>6. \A a \in Actors : At[a] \in {"idle", "none"}
    BY <2>2, <2>3 DEF At, Actors
  <2>7. Fits(line, pending.who, At)
    <3>1. At \in [Actors -> Points]
      BY <2>6 DEF At, Points, CallPoints, WorkPoints
    <3>2. line \in Seq(Actors) /\ Len(line) = 0
      BY <2>4
    <3> QED BY <2>4, <2>6, <3>1, <3>2 DEF Fits, Asked
  <2> QED BY <2>2, <2>3, <2>4, <2>5, <2>7 DEF PumpInv
<1>2. PumpInv /\ [Next]_vars => PumpInv'
  <2> SUFFICES ASSUME PumpInv, [Next]_vars PROVE PumpInv'
    OBVIOUS
  <2>1. CASE UNCHANGED vars
    <3>1. UNCHANGED <<call, line, gen, current, worker, pending, rep, device, sock>>
      BY <2>1 DEF vars, work, link, cloud
    <3> QED BY <3>1, NobodyMoves DEF PumpInv, WorkersOK, LinkOK
  <2>2. CASE Next
    BY <2>2, CallerKeeps, CancelKeeps, WorkerStepKeeps, EnvironmentKeeps DEF Next
  <2> QED BY <2>1, <2>2
<1> QED BY <1>1, <1>2, PTL DEF Spec

\* Types; each generation is one successful startup's.
THEOREM PumpTypes == Spec => []TypeOK
<1>1. PumpInv => TypeOK
  BY Implied
<1> QED BY <1>1, PumpCorrect, PTL

\* _async_send_control runs under the lock, and leaves nothing behind.
THEOREM PendingIsHolders == Spec => []OnePending
<1>1. PumpInv => OnePending
  BY Implied
<1> QED BY <1>1, PumpCorrect, PTL

\* _async_post_prime_sync corrects once, and never retries.
THEOREM AlignedOnce == Spec => []OneAlignment
<1>1. PumpInv => OneAlignment
  BY Implied
<1> QED BY <1>1, PumpCorrect, PTL

\* What only a worker itself does: send, observe on a socket, come to a result,
\* and go from point to point, but for its birth and for being cancelled.
Same(u, w) ==
  /\ w.sends = u.sends /\ w.result = u.result
  /\ w.socket = u.socket /\ w.tried = u.tried
  /\ u.at = "none" \/ w.at \in {u.at, "unwinding"}

Idle(g) == Same(worker[g], worker'[g])

LEMMA SameButFor ==
  ASSUME NEW u, DOMAIN u = DOMAIN Unborn, NEW v
  PROVE  /\ Same(u, [u EXCEPT !.at = "unwinding"]) /\ Same(u, [u EXCEPT !.override = v])
         /\ Same(u, [u EXCEPT !.outdated = v]) /\ Same(u, [u EXCEPT !.primed = v])
  BY DEF Same, Unborn

LEMMA OneChanges ==
  ASSUME PumpInv, NEW g \in Generations, NEW h, NEW w,
         worker' = [worker EXCEPT ![h] = w], h = g => Same(worker[g], w)
  PROVE  Idle(g)
<1>1. DOMAIN worker = Generations
  BY DEF PumpInv, WorkersOK
<1>2. CASE h = g
  BY <1>1, <1>2 DEF Idle, Same
<1>3. CASE h # g
  BY <1>1, <1>3 DEF Idle, Same
<1> QED BY <1>2, <1>3

LEMMA OthersAreIdle ==
  ASSUME PumpInv, Next, NEW g \in Generations, ~Idle(g)
  PROVE  \/ WorkerStep(g) \/ Expires(g)
<1> USE DEF work, link, cloud
<1>1. DOMAIN worker = Generations /\ DOMAIN worker[g] = DOMAIN Unborn
      /\ (g > gen => worker[g] = Unborn)
  BY DEF PumpInv, WorkersOK, WorkerOK
<1>2. ASSUME NEW h, worker' = [worker EXCEPT ![h].at = "unwinding"] PROVE Idle(g)
  <2>1. worker' = [worker EXCEPT ![h] = [worker[h] EXCEPT !.at = "unwinding"]]
    BY <1>2
  <2> QED BY <1>1, <2>1, OneChanges, SameButFor
<1>3. ASSUME NEW h, worker' = [worker EXCEPT ![h].override = TRUE] PROVE Idle(g)
  <2>1. worker' = [worker EXCEPT ![h] = [worker[h] EXCEPT !.override = TRUE]]
    BY <1>3
  <2> QED BY <1>1, <2>1, OneChanges, SameButFor
<1>4. ASSUME NEW h, worker' = [worker EXCEPT ![h].outdated = TRUE] PROVE Idle(g)
  <2>1. worker' = [worker EXCEPT ![h] = [worker[h] EXCEPT !.outdated = TRUE]]
    BY <1>4
  <2> QED BY <1>1, <2>1, OneChanges, SameButFor
<1>5. ASSUME NEW c \in Callers, Drop(c) PROVE Idle(g)
  BY <1>2, <1>5 DEF Drop
<1>6. ASSUME NEW c \in Callers, Ends(c) PROVE Idle(g)
  <2>1. PICK ok \in BOOLEAN, aligns \in BOOLEAN : End(c, ok, aligns)
    BY <1>6 DEF Ends
  <2>2. CASE aligns
    <3> DEFINE w == [Unborn EXCEPT !.at = "watching", !.target = call[c].value]
    <3>1. worker' = [worker EXCEPT ![gen + 1] = w]
      BY <2>1, <2>2 DEF End, Schedule
    <3>2. Same(Unborn, w)
      BY DEF Same, Unborn
    <3>3. gen + 1 = g => worker[g] = Unborn
      BY <1>1 DEF PumpInv, GensOK
    <3> HIDE DEF w
    <3> QED BY <3>1, <3>2, <3>3, OneChanges
  <2>3. CASE ~aligns
    <3>1. worker' = worker \/ worker' = [worker EXCEPT ![current].outdated = TRUE]
      BY <2>1, <2>3 DEF End, Overtake
    <3> QED BY <1>4, <3>1 DEF Idle, Same
  <2> QED BY <2>2, <2>3
<1>7. ASSUME NEW c \in Callers, Sends(c) PROVE Idle(g)
  BY <1>7 DEF Sends, Idle, Same
<1>8. ASSUME NEW c \in Callers, Proceed(c) PROVE Idle(g)
  BY <1>6, <1>7, <1>8, GoesOn DEF Proceed
<1>9. ASSUME NEW c \in Callers, End(c, FALSE, FALSE) PROVE Idle(g)
  BY <1>6, <1>9 DEF Ends
<1>10. ASSUME NEW c \in Callers, NEW r, Confirmation(c, r) PROVE Idle(g)
  BY <1>6, <1>7, <1>10, GoesOn
<1>11. ASSUME NEW c \in Callers, CallerStep(c) \/ CancelCall(c) PROVE Idle(g)
  BY <1>5, <1>8, <1>9, <1>10, <1>11
  DEF CallerStep, Call, Queue, Dropped, Enter, Confirmed, SendFails, TimesOut, Refresh,
      CancelCall, Idle, Same
<1>12. ASSUME NEW h \in Generations, h # g, WorkerStep(h) \/ Expires(h) PROVE Idle(g)
  BY <1>1, <1>12
  DEF WorkerStep, Expires, Wake, Locked, Align, Aligned, AlignFails, Unwind, Finishes,
      Becomes, Idle, Same
<1>13. ASSUME \/ \E part \in Parts : Reported(part)
              \/ Report \/ Read \/ Merge
              \/ \E v \in echoes : Desired(v)
              \/ \E m \in wire : Execute(m)
              \/ \E t \in Touches : Touch(t)
              \/ Motor \/ Disconnect \/ Reconnect \/ Stop
       PROVE  Idle(g)
  <2>1. \/ worker' = worker
        \/ worker' = [worker EXCEPT ![current].override = TRUE]
        \/ worker' = [worker EXCEPT ![current].at = "unwinding"]
    BY <1>13 DEF Reported, Report, Read, Merge, Desired, Execute, Touch, Motor, Disconnect,
          Reconnect, Stop
  <2> QED BY <1>2, <1>3, <2>1 DEF Idle, Same
<1> QED BY <1>11, <1>12, <1>13 DEF Next

\* The correction is that of the newest startup, and leaves only for a pump
\* that runs past its priming, in Auto, with the waterfall off.
LEMMA OwnersAlign ==
  ASSUME PumpInv, Next, NEW g \in Generations, Aligns(g)
  PROVE  /\ g = current /\ g = gen /\ ~worker[g].override
         /\ rep.pool = 1 /\ rep.water = 0 /\ rep.auto = 1
         /\ rep.cmd > 0 /\ ~Priming(rep)
<1>1. WorkerOK(worker[g]) /\ DOMAIN worker = Generations
  BY DEF PumpInv, WorkersOK
<1>2. ~Idle(g)
  BY <1>1 DEF Idle, Same, Aligns, WorkerOK
<1>3. ASSUME NEW w, Becomes(g, w), w.sends = worker[g].sends PROVE FALSE
  BY <1>1, <1>3 DEF Becomes, Aligns, WorkerOK
<1>4. ASSUME NEW result \in Results, Finishes(g, result) PROVE FALSE
  <2>1. worker' = [worker EXCEPT ![g] = DoneWith(g, result)]
    BY <1>4, Finished
  <2>2. DoneWith(g, result).sends = worker[g].sends
    BY <1>1 DEF DoneWith, WorkerOK, Unborn
  <2> QED BY <1>1, <2>1, <2>2 DEF Aligns, WorkerOK
<1>5. Locked(g)
  <2>1. ~Wake(g)
    <3>1. /\ [worker[g] EXCEPT !.primed = TRUE].sends = worker[g].sends
          /\ [worker[g] EXCEPT !.at = "queued"].sends = worker[g].sends
      BY <1>1 DEF WorkerOK, Unborn
    <3> QED BY <1>3, <1>4, <3>1 DEF Wake, Results
  <2>2. ~Aligned(g)
    <3>1. Observes(worker[g]).sends = worker[g].sends
      BY <1>1 DEF Observes, WorkerOK, Unborn
    <3> QED BY <1>3, <1>4, <3>1 DEF Aligned, Results
  <2>3. ~AlignFails(g) /\ ~Expires(g)
    BY <1>4 DEF AlignFails, Expires, Results
  <2>4. ~Unwind(g)
    <3> SUFFICES ASSUME Unwind(g) PROVE FALSE
      OBVIOUS
    <3>1. worker' = [worker EXCEPT ![g] = DoneWith(g, "cancelled")]
      BY <1>1 DEF Unwind, DoneWith
    <3>2. DoneWith(g, "cancelled").sends = worker[g].sends
      BY <1>1 DEF DoneWith, WorkerOK, Unborn
    <3> QED BY <1>1, <3>1, <3>2 DEF Aligns, WorkerOK
  <2> QED BY <1>2, <2>1, <2>2, <2>3, <2>4, OthersAreIdle DEF WorkerStep
<1>6. StillOwned(g) /\ StillReady(g) /\ Sendable(rep)
  <2>1. [worker[g] EXCEPT !.at = "watching"].sends = worker[g].sends
    BY <1>1 DEF WorkerOK, Unborn
  <2>2. StillOwned(g) /\ StillReady(g) /\ Align(g)
    BY <1>3, <1>4, <1>5, <2>1 DEF Locked, Results
  <2>3. [worker[g] EXCEPT !.at = "watching", !.tried = TRUE, !.socket = sock].sends
          = worker[g].sends
    BY <1>1 DEF WorkerOK, Unborn
  <2> QED BY <1>3, <1>4, <2>2, <2>3 DEF Align, Results
<1>7. g = gen
  BY <1>6 DEF StillOwned, PumpInv, GensOK, Generations
<1> QED BY <1>6, <1>7 DEF StillOwned, StillReady, Ready, Sendable

\* SafeAlignment for any callers, commands and reports.
THEOREM AlignedSafely == Spec => SafeAlignment
<1>1. PumpInv /\ [Next]_vars =>
        [\A g \in Generations : Aligns(g) =>
           /\ g = gen /\ ~worker[g].override
           /\ rep.pool = 1 /\ rep.water = 0 /\ rep.auto = 1
           /\ rep.cmd > 0 /\ ~Priming(rep)]_vars
  BY OwnersAlign
<1> QED BY <1>1, PumpCorrect, PTL DEF Spec, SafeAlignment

\* A worker that has written, or found the speeds to agree, takes up nothing new.
Settled(w) ==
  /\ w.at \in {"sent", "watching", "unwinding", "done"}
  /\ w.at = "watching" => w.tried

\* Who lost its connection is settled, and the open connection is a later one.
SeveredInv ==
  \A g \in Generations :
    /\ worker[g].socket \in 0..sock
    /\ g \in severed => Settled(worker[g]) /\ (up => worker[g].socket < sock)

\* What a worker does itself to the socket it remembers.
LEMMA WorkerSettles ==
  ASSUME PumpInv, NEW g \in Generations, WorkerStep(g) \/ Expires(g)
  PROVE  \/ worker[g].at = "queued" /\ worker'[g].socket \in {worker[g].socket, sock}
         \/ worker[g].at = "watching" /\ ~worker[g].tried
              /\ worker'[g].socket = worker[g].socket
         \/ Settled(worker'[g]) /\ worker'[g].socket = worker[g].socket
<1>1. WorkerOK(worker[g]) /\ DOMAIN worker = Generations
  BY DEF PumpInv, WorkersOK
<1>2. ASSUME NEW result, Finishes(g, result)
      PROVE  Settled(worker'[g]) /\ worker'[g].socket = worker[g].socket
  <2>1. worker'[g].at = "done" /\ worker'[g].socket = worker[g].socket
    BY <1>1, <1>2 DEF Finishes, WorkerOK, Unborn
  <2> QED BY <2>1 DEF Settled
<1>3. CASE Wake(g)
  <2>1. CASE worker[g].tried
    BY <1>2, <1>3, <2>1 DEF Wake
  <2>2. CASE ~worker[g].tried
    <3>1. worker'[g].socket = worker[g].socket
      <4>1. ASSUME NEW w, Becomes(g, w), w.socket = worker[g].socket
            PROVE  worker'[g].socket = worker[g].socket
        BY <1>1, <4>1 DEF Becomes
      <4>2. /\ [worker[g] EXCEPT !.primed = TRUE].socket = worker[g].socket
            /\ [worker[g] EXCEPT !.at = "queued"].socket = worker[g].socket
        BY <1>1 DEF WorkerOK, Unborn
      <4> QED BY <1>2, <1>3, <2>2, <4>1, <4>2 DEF Wake
    <3> QED BY <1>3, <2>2, <3>1 DEF Wake
  <2> QED BY <2>1, <2>2
<1>4. CASE Locked(g)
  <2>1. ASSUME NEW w, Becomes(g, w), w.socket \in {worker[g].socket, sock}
        PROVE  worker'[g].socket \in {worker[g].socket, sock}
    BY <1>1, <2>1 DEF Becomes
  <2>2. /\ [worker[g] EXCEPT !.at = "watching"].socket = worker[g].socket
        /\ [worker[g] EXCEPT !.at = "watching", !.tried = TRUE, !.socket = sock].socket = sock
        /\ [worker[g] EXCEPT !.at = "sent", !.socket = sock, !.sends = @ + 1].socket = sock
    BY <1>1 DEF WorkerOK, Unborn
  <2>3. worker'[g].socket \in {worker[g].socket, sock}
    BY <1>2, <1>4, <2>1, <2>2 DEF Locked, Align
  <2> QED BY <1>4, <2>3 DEF Locked
<1>5. CASE Aligned(g)
  <2>1. CASE Becomes(g, Observes(worker[g]))
    <3>1. /\ worker'[g].at = "watching" /\ worker'[g].tried
          /\ worker'[g].socket = worker[g].socket
      BY <1>1, <2>1 DEF Becomes, Observes, WorkerOK, Unborn
    <3> QED BY <3>1 DEF Settled
  <2> QED BY <1>2, <1>5, <2>1 DEF Aligned
<1>6. CASE AlignFails(g) \/ Expires(g)
  BY <1>2, <1>6 DEF AlignFails, Expires
<1>7. CASE Unwind(g)
  <2>1. worker'[g].at = "done" /\ worker'[g].socket = worker[g].socket
    BY <1>1, <1>7 DEF Unwind, WorkerOK, Unborn
  <2> QED BY <2>1 DEF Settled
<1> QED BY <1>3, <1>4, <1>5, <1>6, <1>7 DEF WorkerStep

\* A connection is lost with everyone who observes on it, and never comes back.
LEMMA SeveredStep ==
  ASSUME PumpInv, SeveredInv, [Next]_vars
  PROVE  SeveredInv'
<1> USE DEF work, link, cloud
<1> SUFFICES ASSUME NEW g \in Generations
             PROVE  /\ worker'[g].socket \in 0..sock'
                    /\ g \in severed' =>
                         Settled(worker'[g]) /\ (up' => worker'[g].socket < sock')
  BY DEF SeveredInv
<1> DEFINE v == worker[g]
           w == worker'[g]
<1>1. /\ v.socket \in 0..sock /\ sock \in Nat
      /\ g \in severed => Settled(v) /\ (up => v.socket < sock)
  BY DEF SeveredInv, PumpInv, LinkOK
<1>2. \/ Same(v, w)
      \/ WorkerStep(g) \/ Expires(g)
  BY OthersAreIdle DEF vars, Idle, Same
<1>3. Settled(v) /\ Same(v, w) => Settled(w)
  BY DEF Settled, Same
<1>4. CASE /\ UNCHANGED link
           /\ Same(v, w)
  <2>1. w.socket = v.socket
    BY <1>4 DEF Same
  <2> QED BY <1>1, <1>3, <1>4, <2>1
<1>5. CASE WorkerStep(g) \/ Expires(g)
  <2>1. UNCHANGED link
    BY <1>5 DEF WorkerStep, Wake, Locked, Aligned, AlignFails, Unwind, Expires
  <2> QED BY <1>1, <1>5, <2>1, WorkerSettles DEF Settled
<1>6. CASE (Disconnect \/ Stop) /\ Same(v, w)
  <2>1. ~up' /\ sock' = sock /\ (g \in severed' => g \in severed \/ Observing(g))
    BY <1>6 DEF Disconnect, Stop, Sever
  <2>2. Observing(g) => Settled(v)
    BY DEF Observing, Settled
  <2>3. w.socket = v.socket
    BY <1>6 DEF Same
  <2> QED BY <1>1, <1>3, <1>6, <2>1, <2>2, <2>3
<1>7. CASE Reconnect
  <2>1. sock' = sock + 1 /\ severed' = severed /\ w = v
    BY <1>7 DEF Reconnect
  <2>2. v.socket \in 0..(sock + 1) /\ v.socket < sock + 1
    BY <1>1
  <2>3. g \in severed' => Settled(w)
    BY <1>1, <2>1
  <2>4. w.socket \in 0..sock' /\ w.socket < sock'
    BY <2>1, <2>2
  <2> QED BY <2>3, <2>4
<1>8. Disconnect \/ Stop \/ Reconnect \/ UNCHANGED link
  <2>1. ASSUME NEW c \in Callers, CallerStep(c) \/ CancelCall(c) PROVE UNCHANGED link
    BY <2>1
    DEF CallerStep, CancelCall, Call, Drop, Queue, Dropped, Enter, Proceed, Confirmed,
        SendFails, TimesOut, Refresh
  <2>2. ASSUME NEW h \in Generations, WorkerStep(h) \/ Expires(h) PROVE UNCHANGED link
    BY <2>2 DEF WorkerStep, Wake, Locked, Aligned, AlignFails, Unwind, Expires
  <2>3. ASSUME \/ \E part \in Parts : Reported(part)
               \/ Report \/ Read \/ Merge
               \/ \E s \in echoes : Desired(s)
               \/ \E m \in wire : Execute(m)
               \/ \E t \in Touches : Touch(t)
               \/ Motor \/ UNCHANGED vars
        PROVE  UNCHANGED link
    BY <2>3 DEF Reported, Report, Read, Merge, Desired, Execute, Touch, Motor, vars
  <2> QED BY <2>1, <2>2, <2>3 DEF Next
<1> QED BY <1>2, <1>4, <1>5, <1>6, <1>7, <1>8

\* motor_speed_confirmed is reported only by the newest startup's worker, which
\* no other manual speed has overridden, and whose connection was not lost since
\* its write.
THEOREM CompletedUncut == Spec => OldTargetDropped
<1>1. Init => SeveredInv
  BY DEF Init, SeveredInv, Unborn
<1>2. PumpInv /\ SeveredInv /\ [Next]_vars => SeveredInv'
  BY SeveredStep
<1>3. PumpInv /\ SeveredInv /\ [Next]_vars =>
        [\A g \in Generations :
           worker'[g].result = "complete" /\ worker[g].result # "complete" =>
             g = gen /\ ~worker[g].override /\ g \notin severed]_vars
  <2> SUFFICES ASSUME PumpInv, SeveredInv, Next, NEW g \in Generations,
                      worker'[g].result = "complete", worker[g].result # "complete"
               PROVE  g = gen /\ ~worker[g].override /\ g \notin severed
    OBVIOUS
  <2>1. WorkerOK(worker[g]) /\ DOMAIN worker = Generations
    BY DEF PumpInv, WorkersOK
  <2>2. ~Idle(g)
    BY DEF Idle, Same
  <2>3. ASSUME NEW result \in Results \ {"complete"}, Finishes(g, result) PROVE FALSE
    <3>1. worker' = [worker EXCEPT ![g] = DoneWith(g, result)]
      BY <2>3, Finished
    <3>2. DoneWith(g, result).result = result
      BY <2>1 DEF DoneWith, WorkerOK, Unborn
    <3> QED BY <2>1, <3>1, <3>2
  <2>4. Wake(g)
    <3>1. ~Locked(g)
      BY <2>1, <2>3 DEF Locked, Align, Becomes, Results, WorkerOK, Unborn
    <3>2. ~Aligned(g) /\ ~AlignFails(g) /\ ~Expires(g) /\ ~Unwind(g)
      BY <2>1, <2>3
      DEF Aligned, AlignFails, Expires, Unwind, Becomes, Observes, Results, WorkerOK, Unborn
    <3> QED BY <2>2, <3>1, <3>2, OthersAreIdle DEF WorkerStep
  <2>5. StillOwned(g) /\ up /\ sock = worker[g].socket
    BY <2>1, <2>3, <2>4 DEF Wake, Becomes, SameConnection, Results, WorkerOK, Unborn
  <2>6. g = gen
    BY <2>5 DEF StillOwned, PumpInv, GensOK, Generations
  <2>7. sock \in Nat /\ (g \in severed => worker[g].socket < sock)
    BY <2>5 DEF SeveredInv, PumpInv, LinkOK
  <2> QED BY <2>5, <2>6, <2>7 DEF StillOwned
<1> QED BY <1>1, <1>2, <1>3, PumpCorrect, PTL DEF Spec, OldTargetDropped

-----------------------------------------------------------------------------
(* The workers implement the abstract correction.                          *)

\* The pending worker is alive, workers are born in order, and only one that
\* has ended has confirmed anything.
AlignInv ==
  /\ current # 0 => worker[current].at \in Live
  /\ \A g \in Generations : /\ worker[g].at = "none" <=> g > gen
                            /\ worker[g].result = "complete" => worker[g].at = "done"

Align1 == AlignInv' /\ [Promise!AlignNext]_Correction

LEMMA Bounds ==
  ASSUME PumpInv
  PROVE  /\ DOMAIN worker = Generations /\ gen \in Nat /\ current \in Nat
         /\ \A g \in Generations : WorkerOK(worker[g]) /\ g \in Nat /\ g >= 1
         /\ current # 0 => current = gen /\ current \in Generations
  BY Generated DEF PumpInv, WorkersOK, GensOK, Generations

LEMMA CorrectionMoves ==
  ASSUME PumpInv, NEW g \in Generations, NEW w, worker' = [worker EXCEPT ![g] = w]
  PROVE  /\ Correction' = [Correction EXCEPT ![g] = CorrectionOf(w)]
         /\ \A h \in Generations : worker'[h] = IF h = g THEN w ELSE worker[h]
  BY Bounds DEF Correction

\* What a worker stands for.
LEMMA Meaning ==
  ASSUME NEW w, WorkerOK(w)
  PROVE  /\ w.at = "none" <=> CorrectionOf(w) = "none"
         /\ w.at \in Live => CorrectionOf(w) = IF w.sends = 0 THEN "armed" ELSE "written"
         /\ w.at \in {"unwinding", "done"} /\ w.result # "complete" => CorrectionOf(w) = "over"
         /\ w.at = "done" /\ w.result = "complete" => CorrectionOf(w) = "confirmed"
<1>1. w.at = "none" => CorrectionOf(w) = "none"
  BY DEF CorrectionOf, Live
<1>2. w.at \in Live => CorrectionOf(w) = IF w.sends = 0 THEN "armed" ELSE "written"
  BY DEF CorrectionOf, Live, WorkerOK
<1>3. w.at = "done" /\ w.result = "complete" => CorrectionOf(w) = "confirmed"
  BY DEF CorrectionOf, Live
<1>4. w.at \in {"unwinding", "done"} /\ w.result # "complete" => CorrectionOf(w) = "over"
  BY DEF CorrectionOf, Live
<1>6. w.at = "unwinding" => CorrectionOf(w) = "over"
  BY DEF CorrectionOf, Live
<1>5. w.at \in {"none", "unwinding", "done"} \cup Live
  BY DEF WorkerOK, WorkPoints, Live
<1> QED BY <1>1, <1>2, <1>3, <1>4, <1>5, <1>6

\* Only the newest startup has the pending worker.
LEMMA OwnerIsNewest ==
  ASSUME PumpInv, AlignInv, NEW g \in Generations, g = gen
  PROVE  Promise!Newest(g)
<1>1. ASSUME NEW h \in Generations, Correction[h] # "none" PROVE h <= g
  <2>1. worker[h].at # "none"
    BY <1>1, Meaning, Bounds DEF Correction
  <2> QED BY <2>1, Bounds DEF AlignInv
<1> QED BY <1>1 DEF Promise!Newest

\* A worker changes without a change of what it stands for.
LEMMA StandsFor ==
  ASSUME PumpInv, AlignInv, NEW g \in Generations, NEW w,
         worker' = [worker EXCEPT ![g] = w], UNCHANGED <<current, gen>>,
         CorrectionOf(w) = CorrectionOf(worker[g]), w.result = worker[g].result,
         w.at = worker[g].at \/ (w.at \in Live /\ worker[g].at \in Live)
  PROVE  Align1
<1>1. Correction' = Correction
  BY CorrectionMoves DEF Correction
<1>2. AlignInv'
  BY CorrectionMoves, Bounds DEF AlignInv, Live
<1> QED BY <1>1, <1>2 DEF Align1

\* A live worker ends, or is cancelled.
LEMMA WorkerEnds ==
  ASSUME PumpInv, AlignInv, NEW g \in Generations, worker[g].at \in Live, NEW w,
         worker' = [worker EXCEPT ![g] = w], gen' = gen,
         current' = (IF current = g THEN 0 ELSE current),
         w.at \in {"unwinding", "done"},
         w.result = "complete" => w.at = "done" /\ g = gen
  PROVE  Align1
<1>1. Correction[g] \in Promise!Open
  BY Bounds DEF Correction, CorrectionOf, Live, Promise!Open, WorkerOK
<1>2. AlignInv'
  BY CorrectionMoves, Bounds DEF AlignInv, Live
<1>3. CASE w.result = "complete"
  <2>1. Promise!Becoming(g, "confirmed")
    BY <1>3, CorrectionMoves DEF CorrectionOf, Live, Promise!Becoming
  <2> QED BY <1>1, <1>2, <1>3, <2>1, OwnerIsNewest DEF Align1, Promise!AlignNext, Promise!Confirm
<1>4. CASE w.result # "complete"
  <2>1. Promise!Becoming(g, "over")
    BY <1>4, CorrectionMoves DEF CorrectionOf, Live, Promise!Becoming
  <2> QED BY <1>1, <1>2, <2>1 DEF Align1, Promise!AlignNext, Promise!GiveUp
<1> QED BY <1>3, <1>4

\* The pending worker is cancelled.
LEMMA OwnerCancelled ==
  ASSUME PumpInv, AlignInv, current # 0, current' = 0, gen' = gen,
         worker' = [worker EXCEPT ![current].at = "unwinding"]
  PROVE  Align1
<1> DEFINE w == [worker[current] EXCEPT !.at = "unwinding"]
<1>1. worker' = [worker EXCEPT ![current] = w]
  OBVIOUS
<1>2. current \in Generations /\ worker[current].at \in Live
  BY Bounds DEF AlignInv
<1>3. w.at = "unwinding" /\ w.result # "complete"
  BY <1>2, Bounds DEF AlignInv, Live, WorkerOK, Unborn
<1> HIDE DEF w
<1> QED BY <1>1, <1>2, <1>3, WorkerEnds

\* Nothing happens to any worker.
LEMMA NoWorker ==
  ASSUME PumpInv, AlignInv, UNCHANGED work
  PROVE  Align1
  BY Bounds DEF AlignInv, Align1, Correction, work

\* A caller's command ends.
LEMMA CallerEnds ==
  ASSUME PumpInv, TypeOK', AlignInv, NEW c \in Callers, Ends(c)
  PROVE  Align1
<1>1. PICK ok \in BOOLEAN, aligns \in BOOLEAN : End(c, ok, aligns)
  BY DEF Ends
<1>2. CASE aligns
  <2> DEFINE w == [Unborn EXCEPT !.at = "watching", !.target = call[c].value]
             g == gen + 1
  <2>1. gen' = g /\ current' = g /\ worker' = [worker EXCEPT ![g] = w]
    BY <1>1, <1>2 DEF End, Schedule
  <2>2. w.at = "watching" /\ w.sends = 0 /\ w.result = "none" /\ CorrectionOf(w) = "armed"
    BY DEF Unborn, CorrectionOf, Live
  <2>3. g \in Generations /\ g # 0
    <3>1. g \in Nat /\ g # 0
      BY Bounds
    <3>2. g <= Cardinality(Callers)
      BY <2>1, NobodyIsZero DEF TypeOK
    <3> QED BY <3>1, <3>2, NobodyIsZero DEF Generations
  <2> HIDE DEF w
  <2>4. AlignInv'
    BY <2>1, <2>2, <2>3, CorrectionMoves, Bounds DEF AlignInv, Live
  <2>5. Promise!Becoming(g, "armed")
    <3>1. Correction' = [Correction EXCEPT ![g] = CorrectionOf(w)]
      BY <2>1, <2>3, CorrectionMoves
    <3> QED BY <2>2, <3>1 DEF Promise!Becoming
  <2>6. \A h \in Generations : Correction[h] # "none" <=> h < g
    <3>1. \A h \in Generations : Correction[h] # "none" <=> worker[h].at # "none"
      BY Meaning, Bounds DEF Correction
    <3> QED BY <3>1, Bounds DEF AlignInv
  <2> QED BY <2>3, <2>4, <2>5, <2>6 DEF Align1, Promise!AlignNext, Promise!Arm
<1>3. CASE ~aligns
  <2> DEFINE w == [worker[current] EXCEPT !.outdated = TRUE]
  <2>1. /\ UNCHANGED <<current, gen>>
        /\ worker' = worker \/ (current # 0 /\ worker' = [worker EXCEPT ![current] = w])
    BY <1>1, <1>3 DEF End, Overtake
  <2>2. CASE worker' = worker
    BY <2>1, <2>2, NoWorker DEF work
  <2>3. CASE current # 0 /\ worker' = [worker EXCEPT ![current] = w]
    <3>1. current \in Generations
      BY <2>3, Bounds
    <3>2. w.at = worker[current].at /\ w.result = worker[current].result
          /\ w.sends = worker[current].sends
      BY <3>1, Bounds DEF WorkerOK, Unborn
    <3>3. CorrectionOf(w) = CorrectionOf(worker[current])
      BY <3>2 DEF CorrectionOf
    <3> HIDE DEF w
    <3> QED BY <2>1, <2>3, <3>1, <3>2, <3>3, StandsFor
  <2> QED BY <2>1, <2>2, <2>3
<1> QED BY <1>2, <1>3

\* A worker's own step.
LEMMA WorkerMoves ==
  ASSUME PumpInv, AlignInv, NEW g \in Generations, WorkerStep(g) \/ Expires(g)
  PROVE  Align1
<1> DEFINE v == worker[g]
<1>1. WorkerOK(v) /\ DOMAIN worker = Generations
  BY Bounds
<1>2. ASSUME NEW result \in Results, Finishes(g, result), v.at \in Live,
             result = "complete" => g = gen
      PROVE  Align1
  <2>1. worker' = [worker EXCEPT ![g] = DoneWith(g, result)] /\ gen' = gen
    BY <1>2, Finished
  <2>2. DoneWith(g, result).at = "done" /\ DoneWith(g, result).result = result
    BY <1>1 DEF DoneWith, WorkerOK, Unborn
  <2>3. current' = IF current = g THEN 0 ELSE current
    BY <1>2 DEF Finishes
  <2> QED BY <1>2, <2>1, <2>2, <2>3, WorkerEnds
<1>3. ASSUME NEW w, Becomes(g, w), v.at \in Live, w.at \in Live,
             w.sends = v.sends, w.result = v.result
      PROVE  Align1
  <2>1. CorrectionOf(w) = CorrectionOf(v)
    BY <1>3 DEF CorrectionOf, Live
  <2> QED BY <1>3, <2>1, StandsFor DEF Becomes
<1>4. \A r \in {"cancelled", "skipped", "failed", "timed_out"} : r \in Results /\ r # "complete"
  BY DEF Results
<1>5. StillOwned(g) => g = gen
  BY Bounds DEF StillOwned
<1>6. CASE Wake(g)
  <2>1. v.at \in Live /\ "complete" \in Results
    BY <1>6 DEF Wake, Live, Results
  <2>2. CASE Becomes(g, [v EXCEPT !.primed = TRUE])
    <3> DEFINE w == [v EXCEPT !.primed = TRUE]
    <3>1. w.at = v.at /\ w.sends = v.sends /\ w.result = v.result
      BY <1>1 DEF WorkerOK, Unborn
    <3> HIDE DEF w
    <3> QED BY <1>3, <2>1, <2>2, <3>1 DEF w
  <2>3. CASE Becomes(g, [v EXCEPT !.at = "queued"])
    <3> DEFINE w == [v EXCEPT !.at = "queued"]
    <3>1. w.at = "queued" /\ w.sends = v.sends /\ w.result = v.result
      BY <1>1 DEF WorkerOK, Unborn
    <3> HIDE DEF w
    <3> QED BY <1>3, <2>1, <2>3, <3>1 DEF w, Live
  <2> QED BY <1>2, <1>4, <1>5, <1>6, <2>1, <2>2, <2>3 DEF Wake
<1>7. CASE Locked(g)
  <2>1. v.at = "queued" /\ v.at \in Live /\ v.sends = 0 /\ v.result # "complete"
    BY <1>1, <1>7 DEF Locked, Live, WorkerOK, AlignInv
  <2>2. CASE Becomes(g, [v EXCEPT !.at = "watching"])
    <3> DEFINE w == [v EXCEPT !.at = "watching"]
    <3>1. w.at = "watching" /\ w.sends = v.sends /\ w.result = v.result
      BY <1>1 DEF WorkerOK, Unborn
    <3> HIDE DEF w
    <3> QED BY <1>3, <2>1, <2>2, <3>1 DEF w, Live
  <2>3. CASE Becomes(g, [v EXCEPT !.at = "watching", !.tried = TRUE, !.socket = sock])
    <3> DEFINE w == [v EXCEPT !.at = "watching", !.tried = TRUE, !.socket = sock]
    <3>1. w.at = "watching" /\ w.sends = v.sends /\ w.result = v.result
      BY <1>1 DEF WorkerOK, Unborn
    <3> HIDE DEF w
    <3> QED BY <1>3, <2>1, <2>3, <3>1 DEF w, Live
  <2>4. CASE Becomes(g, [v EXCEPT !.at = "sent", !.socket = sock, !.sends = @ + 1]) /\ StillOwned(g)
    <3> DEFINE w == [v EXCEPT !.at = "sent", !.socket = sock, !.sends = @ + 1]
    <3>1. w.at = "sent" /\ w.sends = 1 /\ w.result = v.result
      BY <1>1, <2>1 DEF WorkerOK, Unborn
    <3>2. worker' = [worker EXCEPT ![g] = w] /\ UNCHANGED <<current, gen>>
      BY <2>4 DEF Becomes
    <3> HIDE DEF w
    <3>3. CorrectionOf(w) = "written" /\ Correction[g] = "armed"
      BY <2>1, <3>1 DEF Correction, CorrectionOf, Live
    <3>4. AlignInv'
      BY <2>1, <3>1, <3>2, CorrectionMoves, Bounds DEF AlignInv, Live
    <3>5. Promise!Becoming(g, "written")
      <4>1. Correction' = [Correction EXCEPT ![g] = CorrectionOf(w)]
        BY <3>2, CorrectionMoves
      <4> QED BY <3>3, <4>1 DEF Promise!Becoming
    <3>6. Promise!Newest(g)
      BY <1>5, <2>4, OwnerIsNewest
    <3> QED BY <3>3, <3>4, <3>5, <3>6 DEF Align1, Promise!AlignNext, Promise!Write
  <2> QED BY <1>2, <1>4, <1>7, <2>1, <2>2, <2>3, <2>4 DEF Locked, Align
<1>8. CASE Aligned(g)
  <2>1. v.at \in Live
    BY <1>8 DEF Aligned, Live
  <2>2. Observes(v).at = "watching" /\ Observes(v).sends = v.sends /\ Observes(v).result = v.result
    BY <1>1 DEF Observes, WorkerOK, Unborn
  <2> QED BY <1>2, <1>3, <1>4, <1>8, <2>1, <2>2 DEF Aligned, Live
<1>9. CASE AlignFails(g) \/ Expires(g)
  <2>1. v.at \in Live
    BY <1>9 DEF AlignFails, Expires, Live
  <2> QED BY <1>2, <1>4, <1>9, <2>1 DEF AlignFails, Expires
<1>10. CASE Unwind(g)
  <2> DEFINE w == DoneWith(g, "cancelled")
  <2>1. worker' = [worker EXCEPT ![g] = w] /\ UNCHANGED <<current, gen>>
    BY <1>1, <1>10 DEF Unwind, DoneWith
  <2>2. v.at = "unwinding" /\ w.at = "done" /\ w.result = "cancelled"
    BY <1>1, <1>10 DEF Unwind, DoneWith, WorkerOK, Unborn
  <2> HIDE DEF w
  <2>3. Correction' = Correction
    BY <2>1, <2>2, CorrectionMoves DEF Correction, CorrectionOf, Live
  <2>4. AlignInv'
    BY <2>1, <2>2, CorrectionMoves, Bounds DEF AlignInv, Live
  <2> QED BY <2>3, <2>4 DEF Align1
<1> QED BY <1>6, <1>7, <1>8, <1>9, <1>10 DEF WorkerStep

LEMMA AlignStep ==
  ASSUME PumpInv, TypeOK', AlignInv, [Next]_vars
  PROVE  Align1
<1> USE DEF work, link, cloud
<1>1. ASSUME NEW c \in Callers, CallerStep(c) \/ CancelCall(c) PROVE Align1
  <2>1. ASSUME NEW was, NEW r, First(c, was, r) \/ Confirmation(c, r) PROVE Align1
    BY <2>1, GoesOn, CallerEnds, NoWorker DEF Sends
  <2>2. ASSUME End(c, FALSE, FALSE) PROVE Align1
    BY <2>2, CallerEnds DEF Ends
  <2>3. ASSUME Drop(c), current # 0 PROVE Align1
    BY <2>3, OwnerCancelled DEF Drop
  <2> QED BY <1>1, <2>1, <2>2, <2>3, NoWorker
          DEF CallerStep, Call, Queue, Dropped, Enter, DropInside, Proceed, Confirmed, SendFails,
              TimesOut, Refresh, CancelCall
<1>2. ASSUME NEW g \in Generations, WorkerStep(g) \/ Expires(g) PROVE Align1
  BY <1>2, WorkerMoves
<1>3. ASSUME NEW v \in echoes, Desired(v) PROVE Align1
  <2> DEFINE w == [worker[current] EXCEPT !.override = TRUE]
  <2>1. /\ UNCHANGED <<current, gen>>
        /\ worker' = worker \/ (current # 0 /\ worker' = [worker EXCEPT ![current] = w])
    BY <1>3 DEF Desired
  <2>2. CASE worker' = worker
    BY <2>1, <2>2, NoWorker
  <2>3. CASE current # 0 /\ worker' = [worker EXCEPT ![current] = w]
    <3>1. current \in Generations
      BY <2>3, Bounds
    <3>2. w.at = worker[current].at /\ w.result = worker[current].result
          /\ w.sends = worker[current].sends
      BY <3>1, Bounds DEF WorkerOK, Unborn
    <3>3. CorrectionOf(w) = CorrectionOf(worker[current])
      BY <3>2 DEF CorrectionOf
    <3> HIDE DEF w
    <3> QED BY <2>1, <2>3, <3>1, <3>2, <3>3, StandsFor
  <2> QED BY <2>1, <2>2, <2>3
<1>4. CASE Stop
  <2>1. CASE current # 0
    BY <1>4, <2>1, OwnerCancelled DEF Stop
  <2>2. CASE current = 0
    BY <1>4, <2>2, NoWorker DEF Stop
  <2> QED BY <2>1, <2>2
<1>5. ASSUME \/ \E part \in Parts : Reported(part)
             \/ Report \/ Read \/ Merge
             \/ \E m \in wire : Execute(m)
             \/ \E t \in Touches : Touch(t)
             \/ Motor \/ Disconnect \/ Reconnect \/ UNCHANGED vars
      PROVE  Align1
  BY <1>5, NoWorker DEF Reported, Report, Read, Merge, Execute, Touch, Motor, Disconnect,
          Reconnect, vars
<1> QED BY <1>1, <1>2, <1>3, <1>4, <1>5 DEF Next

LEMMA AlignInitially == Init => AlignInv /\ Promise!AlignInit
<1> SUFFICES ASSUME Init PROVE AlignInv /\ Promise!AlignInit
  OBVIOUS
<1>1. \A g \in Generations : worker[g] = Unborn /\ g > 0
  BY NobodyIsZero DEF Init, Generations
<1>2. CorrectionOf(Unborn) = "none"
  BY DEF CorrectionOf, Unborn, Live
<1> QED BY <1>1, <1>2 DEF Init, AlignInv, Promise!AlignInit, Correction, Unborn

\* Whatever waits, overtakes, cancels or disconnects: each startup arms one
\* correction, the newest one alone may write or confirm it, once.
THEOREM AlignmentKept == Spec => AlignPromise
<1>1. Init => AlignInv /\ Promise!AlignInit
  BY AlignInitially
<1>2. PumpInv /\ TypeOK' /\ AlignInv /\ [Next]_vars => AlignInv' /\ [Promise!AlignNext]_Correction
  BY AlignStep DEF Align1
<1> QED BY <1>1, <1>2, PumpCorrect, PumpTypes, PTL DEF Spec, AlignPromise, Promise!AlignSpec

-----------------------------------------------------------------------------
(* Who waits for a worker.                                                 *)

WaitInv ==
  \A c \in Callers : call[c].at = "dropping" =>
    /\ call[c].waits \in Generations
    /\ worker[call[c].waits].at \in {"unwinding", "done"}

\* A worker that has been cancelled or has ended is never taken up again.
LEMMA EndedStaysEnded ==
  ASSUME PumpInv, WorkersOK', Align1, NEW g \in Generations,
         worker[g].at \in {"unwinding", "done"}
  PROVE  worker'[g].at \in {"unwinding", "done"}
<1> DEFINE v == worker[g]
           w == worker'[g]
<1>1. WorkerOK(v) /\ WorkerOK(w)
  BY DEF PumpInv, WorkersOK
<1>2. Correction[g] = CorrectionOf(v) /\ Correction'[g] = CorrectionOf(w)
  BY DEF Correction
<1>3. Correction[g] \in {"over", "confirmed"}
  BY <1>1, <1>2, Meaning DEF CorrectionOf, Live
<1>4. Correction'[g] = Correction[g]
  <2>1. DOMAIN Correction = Generations
    BY DEF Correction
  <2>2. ASSUME NEW h \in Generations, NEW c, Promise!Becoming(h, c), h # g
        PROVE  Correction'[g] = Correction[g]
    BY <2>1, <2>2 DEF Promise!Becoming
  <2>3. ASSUME NEW h \in Generations,
               Promise!Arm(h) \/ Promise!Write(h) \/ Promise!Confirm(h) \/ Promise!GiveUp(h)
        PROVE  h # g /\ \E c : Promise!Becoming(h, c)
    <3>1. ~(h < h)
      BY Bounds
    <3> QED BY <1>3, <2>3, <3>1
            DEF Promise!Arm, Promise!Write, Promise!Confirm, Promise!GiveUp, Promise!Open
  <2>4. CASE Correction' = Correction
    BY <2>4
  <2>5. CASE Promise!AlignNext
    BY <2>2, <2>3, <2>5 DEF Promise!AlignNext
  <2> QED BY <2>4, <2>5 DEF Align1
<1>5. w.at \in {"none", "unwinding", "done"} \cup Live
  BY <1>1 DEF WorkerOK, WorkPoints, Live
<1> QED BY <1>1, <1>2, <1>3, <1>4, <1>5, Meaning

\* Whoever begins to wait has just cancelled the worker it waits for.
LEMMA WaitStep ==
  ASSUME PumpInv, WorkersOK', Align1, WaitInv, [Next]_vars
  PROVE  WaitInv'
<1> USE DEF work, link, cloud
<1> SUFFICES ASSUME NEW c \in Callers, call'[c].at = "dropping"
             PROVE  /\ call'[c].waits \in Generations
                    /\ worker'[call'[c].waits].at \in {"unwinding", "done"}
  BY DEF WaitInv
<1>1. CallOK(call[c]) /\ DOMAIN call = Callers
  BY DEF PumpInv, CallsOK
<1>2. ASSUME call'[c] = call[c]
      PROVE  /\ call'[c].waits \in Generations
             /\ worker'[call'[c].waits].at \in {"unwinding", "done"}
  BY <1>2, EndedStaysEnded DEF WaitInv
<1>3. ASSUME Drop(c), current # 0
      PROVE  /\ call'[c].waits \in Generations
             /\ worker'[call'[c].waits].at \in {"unwinding", "done"}
  <2>1. current \in Generations /\ DOMAIN worker = Generations /\ WorkerOK(worker[current])
    BY <1>3, Bounds
  <2>2. call'[c].waits = current
    BY <1>1, <1>3 DEF Drop, CallOK, CallFields
  <2>3. worker'[current].at = "unwinding"
    BY <1>3, <2>1 DEF Drop, WorkerOK, Unborn
  <2> QED BY <2>1, <2>2, <2>3
<1>4. ASSUME NEW d \in Callers, NEW r, call' = [call EXCEPT ![d] = r], r.at # "dropping"
      PROVE  call'[c] = call[c]
  BY <1>1, <1>4
<1>5. ASSUME NEW d \in Callers, Ends(d) PROVE call'[c] = call[c]
  <2>1. PICK ok \in BOOLEAN : call' = [call EXCEPT ![d] = Following(d, ok)]
    BY <1>5 DEF Ends, End
  <2>2. Following(d, ok).at # "dropping"
    BY Followed
  <2> QED BY <1>4, <2>1, <2>2
<1>6. ASSUME NEW d \in Callers, Sends(d) PROVE call'[c] = call[c]
  BY <1>4, <1>6 DEF Sends, Asked
<1>7. ASSUME NEW d \in Callers, Drop(d), d # c PROVE call'[c] = call[c]
  BY <1>1, <1>7 DEF Drop
<1>8. ASSUME NEW d \in Callers, CallerStep(d) \/ CancelCall(d)
      PROVE  call'[c] = call[c] \/ (d = c /\ Drop(c) /\ current # 0)
  <2>1. ASSUME NEW was, NEW r, First(d, was, r) \/ Confirmation(d, r)
        PROVE  call'[c] = call[c]
    BY <2>1, GoesOn, <1>5, <1>6
  <2>2. ASSUME End(d, FALSE, FALSE) PROVE call'[c] = call[c]
    BY <2>2, <1>5 DEF Ends
  <2>3. ASSUME NEW v, v # "dropping", call' = [call EXCEPT ![d].at = v]
        PROVE  call'[c] = call[c]
    <3> DEFINE r == [call[d] EXCEPT !.at = v]
    <3>1. call' = [call EXCEPT ![d] = r]
      BY <2>3
    <3>2. CallOK(call[d])
      BY DEF PumpInv, CallsOK
    <3>3. r.at = v
      BY <3>2 DEF CallOK, CallFields
    <3> HIDE DEF r
    <3> QED BY <1>4, <2>3, <3>1, <3>3
  <2>4. ASSUME Queue(d) PROVE call'[c] = call[c]
    BY <2>3, <2>4 DEF Queue
  <2>5. CASE Call(d) \/ Enter(d)
    BY <1>7, <2>1, <2>4, <2>5 DEF Call, Enter, DropInside, Proceed
  <2>6. CASE Dropped(d)
    BY <2>1, <2>4, <2>6 DEF Dropped, Proceed
  <2>7. CASE Confirmed(d) \/ SendFails(d) \/ Refresh(d)
    BY <2>1, <2>2, <2>7 DEF Confirmed, SendFails, Refresh
  <2>8. CASE TimesOut(d) \/ CancelCall(d)
    BY <2>2, <2>3, <2>8 DEF TimesOut, CancelCall
  <2> QED BY <1>8, <2>5, <2>6, <2>7, <2>8 DEF CallerStep
<1>9. ASSUME ~\E d \in Callers : CallerStep(d) \/ CancelCall(d) PROVE call' = call
  BY <1>9 DEF Next, WorkerStep, Expires, Wake, Locked, Aligned, AlignFails, Unwind,
              Reported, Report, Read, Merge, Desired, Execute, Touch, Motor, Disconnect, Reconnect,
              Stop, vars
<1> QED BY <1>2, <1>3, <1>8, <1>9

\* Nobody strands the lock, and nobody waits for a worker that goes on.
THEOREM LineStaysAlive == Spec => []LineAlive
<1>1. Init => AlignInv /\ WaitInv
  BY AlignInitially DEF Init, WaitInv
<1>2. PumpInv /\ TypeOK' /\ AlignInv /\ [Next]_vars => AlignInv'
  BY AlignStep DEF Align1
<1>3. PumpInv /\ PumpInv' /\ TypeOK' /\ AlignInv /\ WaitInv /\ [Next]_vars => WaitInv'
  <2>1. PumpInv' => WorkersOK'
    BY DEF PumpInv
  <2> QED BY <2>1, AlignStep, WaitStep
<1>4. PumpInv /\ WaitInv => LineAlive
  BY Implied DEF LineAlive, WaitInv
<1> QED BY <1>1, <1>2, <1>3, <1>4, PumpCorrect, PumpTypes, PTL DEF Spec

-----------------------------------------------------------------------------
(* What confirms a command.                                                *)

Contents(ms) == {ms[i] : i \in 1..Len(ms)}

\* What is reported, held by the controller or under way.
Told == {rep, device, snapshot} \cup Contents(news)

\* While a caller's command is not vouched for, no message has its value and
\* nothing has confirmed it.
Unseen ==
  pending.who \in Callers =>
    /\ pending.field \in Settings
    /\ \/ pending.vouched
       \/ /\ pending.future # "done"
          /\ \A m \in Told : ~Shows(m, <<pending.field, pending.value>>)

SeenInv ==
  Settings \subseteq DOMAIN rep /\ news \in Seq(Contents(news)) /\ Unseen

LEMMA MessageComes ==
  ASSUME NEW ms, ms \in Seq(Contents(ms)), NEW m
  PROVE  /\ Append(ms, m) \in Seq(Contents(Append(ms, m)))
         /\ Contents(Append(ms, m)) = Contents(ms) \cup {m}
<1> DEFINE new == Append(ms, m)
<1>1. /\ Len(ms) \in Nat /\ new \in Seq(Contents(ms) \cup {m}) /\ Len(new) = Len(ms) + 1
      /\ \A i \in 1..Len(ms) : new[i] = ms[i]
      /\ new[Len(ms) + 1] = m
  OBVIOUS
<1> HIDE DEF new
<1>2. Contents(new) = Contents(ms) \cup {m}
  <2>1. ASSUME NEW x \in Contents(ms) \cup {m} PROVE x \in Contents(new)
    <3>1. CASE x \in Contents(ms)
      <4>1. PICK i \in 1..Len(ms) : x = ms[i]
        BY <3>1 DEF Contents
      <4> QED BY <1>1, <4>1 DEF Contents
    <3>2. CASE x = m
      BY <1>1, <3>2 DEF Contents
    <3> QED BY <2>1, <3>1, <3>2
  <2>2. ASSUME NEW x \in Contents(new) PROVE x \in Contents(ms) \cup {m}
    <3>1. PICK i \in 1..Len(new) : x = new[i]
      BY <2>2 DEF Contents
    <3> QED BY <1>1, <3>1 DEF Contents
  <2> QED BY <2>1, <2>2
<1> QED BY <1>1, <1>2 DEF new

LEMMA MessageGoes ==
  ASSUME NEW ms, ms \in Seq(Contents(ms)), ms # <<>>
  PROVE  /\ Tail(ms) \in Seq(Contents(Tail(ms)))
         /\ Contents(Tail(ms)) \subseteq Contents(ms) /\ Head(ms) \in Contents(ms)
<1> DEFINE new == Tail(ms)
<1>1. /\ Len(ms) \in Nat /\ new \in Seq(Contents(ms)) /\ Len(new) = Len(ms) - 1
      /\ \A i \in 1..Len(new) : new[i] = ms[i + 1]
      /\ Head(ms) \in Contents(ms)
  OBVIOUS
<1> HIDE DEF new
<1>2. Contents(new) \subseteq Contents(ms)
  <2>1. ASSUME NEW x \in Contents(new) PROVE x \in Contents(ms)
    <3>1. PICK i \in 1..Len(new) : x = new[i]
      BY <2>1 DEF Contents
    <3>2. i + 1 \in 1..Len(ms) /\ x = ms[i + 1]
      BY <1>1, <3>1
    <3> QED BY <3>2 DEF Contents
  <2> QED BY <2>1
<1>3. new \in Seq(Contents(new))
  <2>1. \A i \in 1..Len(new) : new[i] \in Contents(new)
    BY DEF Contents
  <2>2. new = [i \in 1..Len(new) |-> new[i]] /\ Len(new) \in Nat
    BY <1>1
  <2>3. [i \in 1..Len(new) |-> new[i]] \in Seq(Contents(new))
    BY <2>1, <2>2
  <2> QED BY <2>2, <2>3
<1> QED BY <1>1, <1>2, <1>3 DEF new

LEMMA WriteFields ==
  ASSUME PumpInv, NEW c \in Callers, NEW was, NEW r
  PROVE  FirstWrite(c)[1] \in Settings /\ SecondWrite(c, was, r)[1] \in Settings
<1>1. call[c].kind \in DOMAIN FieldOf
  BY DEF PumpInv, CallsOK, CallOK
<1>2. FieldOf[call[c].kind] \in Settings
  BY <1>1 DEF Settings
<1>3. "man" = FieldOf["speed"] /\ "pool" = FieldOf["power"]
      /\ "speed" \in DOMAIN FieldOf /\ "power" \in DOMAIN FieldOf
  BY DEF FieldOf
<1>4. "man" \in Settings /\ "pool" \in Settings
  BY <1>3 DEF Settings
<1> QED BY <1>2, <1>4 DEF FirstWrite, SecondWrite

Quiet == UNCHANGED <<rep, device, snapshot, news>>

\* A setter leaves without a command, or with one for a value that is not yet
\* reported.
LEMMA WritesNew ==
  ASSUME PumpInv, NEW c \in Callers, NEW was, Quiet,
         First(c, was, rep) \/ Confirmation(c, rep) \/ End(c, FALSE, FALSE)
  PROVE  Unseen'
<1>1. ASSUME NEW ok, NEW aligns, End(c, ok, aligns) PROVE Unseen'
  BY <1>1, NobodyIsZero DEF End, NothingSent, NoPending, Unseen, Actors
<1>2. ASSUME NEW stage, NEW v, NEW w, Try(c, stage, v, w, rep), ~Skipped(w, rep),
             w[1] \in Settings
      PROVE  Unseen'
  <2>1. CASE End(c, FALSE, FALSE)
    BY <1>1, <2>1
  <2>2. CASE ~Refused(w, rep) /\ Send(c, w)
    <3>1. ~Shows(rep, w)
      BY <1>2, <2>2 DEF Skipped, Shows
    <3>2. /\ pending'.who = c /\ pending'.field = w[1] /\ pending'.value = w[2]
          /\ pending'.future = "open"
          /\ pending'.vouched <=> \E m \in UnderWay \cup {device} : Shows(m, w)
      BY <2>2 DEF Send
    <3>3. Told' = UnderWay \cup {rep, device}
      BY DEF Quiet, Told, UnderWay, Contents
    <3>4. \A m : Shows(m, w) <=> Shows(m, <<w[1], w[2]>>)
      BY DEF Shows
    <3>5. ASSUME ~pending'.vouched, NEW m \in Told' PROVE ~Shows(m, w)
      BY <3>1, <3>2, <3>3, <3>5
    <3> QED BY <1>2, <3>2, <3>4, <3>5 DEF Unseen
  <2> QED BY <1>2, <2>1, <2>2 DEF Try
<1>3. ASSUME NEW v, AfterFirst(c, v, rep) PROVE Unseen'
  BY <1>1, <1>2, <1>3, WriteFields DEF AfterFirst, Second
<1>4. CASE First(c, was, rep)
  BY <1>2, <1>3, <1>4, WriteFields DEF First
<1>5. CASE Confirmation(c, rep)
  BY <1>1, <1>3, <1>5 DEF Confirmation
<1> QED BY <1>1, <1>4, <1>5

\* Nothing new is told, and nothing is confirmed.
LEMMA NothingTold ==
  ASSUME PumpInv, Unseen, Told' \subseteq Told,
         \/ pending' = pending \/ pending' = NoPending \/ FailPending
         \/ pending' = [pending EXCEPT !.future = "late"]
  PROVE  Unseen'
<1>1. /\ DOMAIN pending = DOMAIN NoPending /\ 0 \notin Callers /\ NoPending.who = 0
  BY NobodyIsZero DEF PumpInv, LinkOK, Actors, NoPending
<1>2. CASE pending' = pending
  BY <1>2 DEF Unseen
<1>3. CASE pending' = NoPending
  BY <1>1, <1>3 DEF Unseen
<1>4. ASSUME NEW future, future # "done", pending' = [pending EXCEPT !.future = future]
      PROVE  Unseen'
  <2>1. /\ pending'.who = pending.who /\ pending'.field = pending.field
        /\ pending'.value = pending.value /\ pending'.vouched = pending.vouched
        /\ pending'.future = future
    BY <1>1, <1>4 DEF NoPending
  <2> QED BY <1>4, <2>1 DEF Unseen
<1> QED BY <1>2, <1>3, <1>4 DEF FailPending

\* What reports and snapshots tell was held by the controller, or told before.
LEMMA MessagesTell ==
  ASSUME PumpInv, SeenInv,
         \/ \E part \in Parts : Reported(part)
         \/ Report \/ Read \/ Merge
  PROVE  SeenInv'
<1> USE DEF work, link, cloud, mail
<1> DEFINE w == <<pending.field, pending.value>>
<1>1. /\ DOMAIN rep = DOMAIN device /\ DOMAIN pending = DOMAIN NoPending
      /\ rep \in Told /\ device \in Told /\ snapshot \in Told /\ Contents(news) \subseteq Told
  BY DEF PumpInv, LinkOK, Told
<1>2. ASSUME \A m \in Told' : Shows(m, w) => \E n \in Told : Shows(n, w), pending' = pending
      PROVE  Unseen'
  BY <1>2 DEF SeenInv, Unseen
<1>3. ASSUME NEW m \in Told, Shows(Merged(rep, m), w) PROVE \E n \in Told : Shows(n, w)
  BY <1>1, <1>3 DEF Merged, Shows
<1>4. CASE \E part \in Parts : Reported(part)
  <2>1. PICK part \in Parts : Reported(part)
    BY <1>4
  <2> DEFINE m == [f \in part |-> device[f]]
  <2>2. news' = Append(news, m) /\ UNCHANGED <<rep, device, snapshot, pending>>
    BY <2>1 DEF Reported
  <2>3. news' \in Seq(Contents(news')) /\ Contents(news') = Contents(news) \cup {m}
    BY <2>2, MessageComes DEF SeenInv
  <2>4. Told' = Told \cup {m}
    BY <2>2, <2>3 DEF Told
  <2>5. CASE pending.who \in Callers
    <3>1. pending.field \in DOMAIN device
      BY <1>1, <2>5 DEF SeenInv, Unseen
    <3>2. Shows(m, w) => Shows(device, w)
      BY <3>1 DEF Shows
    <3> HIDE DEF m
    <3>3. \A n \in Told' : Shows(n, w) => \E o \in Told : Shows(o, w)
      BY <1>1, <2>4, <3>2
    <3> QED BY <1>2, <2>2, <2>3, <3>3 DEF SeenInv
  <2>6. CASE pending.who \notin Callers
    BY <2>2, <2>3, <2>6 DEF SeenInv, Unseen
  <2> QED BY <2>5, <2>6
<1>5. CASE Report
  <2>1. /\ rep' = Merged(rep, Head(news)) /\ news' = Tail(news) /\ news # <<>>
        /\ UNCHANGED <<device, snapshot>>
    BY <1>5 DEF Report
  <2>2. /\ news' \in Seq(Contents(news')) /\ Contents(news') \subseteq Contents(news)
        /\ Head(news) \in Told
    BY <1>1, <2>1, MessageGoes DEF SeenInv
  <2>3. DOMAIN rep' = DOMAIN rep
    BY <2>1 DEF Merged
  <2>4. Told' \subseteq Told \cup {rep'}
    BY <2>1, <2>2 DEF Told
  <2>5. \A m \in Told' : Shows(m, w) => \E n \in Told : Shows(n, w)
    BY <1>3, <2>1, <2>2, <2>4
  <2>6. Unseen'
    <3>1. CASE pending' = pending
      BY <1>2, <2>5, <3>1
    <3>2. CASE /\ rep'[pending.field] = pending.value
               /\ pending' = [pending EXCEPT !.future = "done"]
      <4>1. /\ pending'.who = pending.who /\ pending'.field = pending.field
            /\ pending'.vouched = pending.vouched
        BY <1>1, <3>2 DEF NoPending
      <4>2. ASSUME pending.who \in Callers PROVE pending.field \in Settings /\ pending.vouched
        <5>1. pending.field \in Settings /\ pending.field \in DOMAIN rep'
          BY <2>3, <4>2 DEF SeenInv, Unseen
        <5>2. Shows(rep', w)
          BY <3>2, <5>1 DEF Shows
        <5>3. \E n \in Told : Shows(n, w)
          BY <1>3, <2>1, <2>2, <5>2
        <5> QED BY <4>2, <5>1, <5>3 DEF SeenInv, Unseen
      <4> QED BY <4>1, <4>2 DEF Unseen
    <3> QED BY <1>5, <3>1, <3>2 DEF Report
  <2> QED BY <2>2, <2>3, <2>6 DEF SeenInv
<1>6. CASE Read
  <2>1. snapshot' = device /\ UNCHANGED <<rep, device, news, pending>>
    BY <1>6 DEF Read
  <2>2. Told' \subseteq Told
    BY <2>1 DEF Told
  <2> QED BY <1>2, <2>1, <2>2 DEF SeenInv
<1>7. CASE Merge
  <2>1. snapshot' = <<>> /\ rep' = Merged(rep, snapshot) /\ UNCHANGED <<device, news, pending>>
    BY <1>7 DEF Merge
  <2>2. DOMAIN rep' = DOMAIN rep
    BY <2>1 DEF Merged
  <2>3. Told' \subseteq Told \cup {rep', <<>>}
    BY <2>1 DEF Told
  <2>4. ~Shows(<<>>, w)
    BY DEF Shows
  <2>5. \A m \in Told' : Shows(m, w) => \E n \in Told : Shows(n, w)
    BY <1>1, <1>3, <2>1, <2>3, <2>4
  <2> QED BY <1>2, <2>1, <2>2, <2>5 DEF SeenInv
<1> QED BY <1>4, <1>5, <1>6, <1>7

\* The controller's state changes: Vouch looks whether it has the value now.
LEMMA DeviceTells ==
  ASSUME PumpInv, SeenInv, Vouch, UNCHANGED <<rep, snapshot, news>>
  PROVE  SeenInv'
<1> DEFINE w == <<pending.field, pending.value>>
<1>1. /\ DOMAIN pending = DOMAIN NoPending /\ 0 \notin Callers /\ NoPending.who = 0
      /\ Told' \subseteq Told \cup {device'}
  BY NobodyIsZero DEF PumpInv, LinkOK, Actors, NoPending, Told
<1>2. CASE pending = NoPending
  BY <1>1, <1>2 DEF Vouch, SeenInv, Unseen
<1>3. CASE pending # NoPending /\ Shows(device', w)
  <2>1. /\ pending'.who = pending.who /\ pending'.field = pending.field
        /\ pending'.vouched
    BY <1>1, <1>3 DEF Vouch, NoPending
  <2> QED BY <2>1 DEF SeenInv, Unseen
<1>4. CASE pending # NoPending /\ ~Shows(device', w)
  <2>1. pending' = pending
    BY <1>4 DEF Vouch
  <2> QED BY <1>1, <1>4, <2>1 DEF SeenInv, Unseen
<1> QED BY <1>2, <1>3, <1>4

LEMMA SeenStep ==
  ASSUME PumpInv, SeenInv, [Next]_vars
  PROVE  SeenInv'
<1> USE DEF work, link, cloud, mail
<1>1. ASSUME Unseen', Quiet PROVE SeenInv'
  BY <1>1 DEF SeenInv, Quiet
<1>2. ASSUME Quiet,
             \/ pending' = pending \/ pending' = NoPending \/ FailPending
             \/ pending' = [pending EXCEPT !.future = "late"]
      PROVE  SeenInv'
  <2>1. Told' = Told
    BY <1>2 DEF Quiet, Told
  <2> QED BY <1>1, <1>2, <2>1, NothingTold DEF SeenInv
<1>3. ASSUME NEW c \in Callers, NEW was, Quiet,
             First(c, was, rep) \/ Confirmation(c, rep) \/ End(c, FALSE, FALSE)
      PROVE  SeenInv'
  BY <1>1, <1>3, WritesNew
<1>4. ASSUME NEW c \in Callers, CallerStep(c) PROVE SeenInv'
  <2>1. CASE Call(c) \/ Dropped(c) \/ Enter(c)
    BY <1>2, <1>3, <2>1 DEF Call, Drop, Queue, Dropped, Enter, Proceed, Quiet
  <2>2. CASE Confirmed(c) \/ SendFails(c) \/ Refresh(c)
    BY <1>3, <2>2 DEF Confirmed, SendFails, Refresh, Quiet
  <2>3. CASE TimesOut(c)
    BY <1>2, <1>3, <2>3 DEF TimesOut, Quiet
  <2> QED BY <1>4, <2>1, <2>2, <2>3 DEF CallerStep
<1>5. ASSUME NEW c \in Callers, CancelCall(c) PROVE SeenInv'
  BY <1>2, <1>5 DEF CancelCall, Quiet
<1>6. ASSUME NEW g \in Generations, WorkerStep(g) \/ Expires(g) PROVE SeenInv'
  <2>1. ASSUME NEW w, Send(g, w), Quiet PROVE SeenInv'
    <3>1. pending'.who = g /\ g \notin Callers
      BY <2>1, NobodyIsZero DEF Send
    <3> QED BY <1>1, <2>1, <3>1 DEF Unseen
  <2>2. CASE Locked(g)
    BY <1>2, <2>1, <2>2 DEF Locked, Align, Quiet
  <2> QED BY <1>2, <1>6, <2>2
          DEF WorkerStep, Expires, Wake, Aligned, AlignFails, Unwind, Quiet
<1>7. ASSUME \/ \E m \in wire : Execute(m)
             \/ \E t \in Touches : Touch(t)
             \/ Motor
      PROVE  SeenInv'
  <2>1. Vouch /\ UNCHANGED <<rep, snapshot, news>>
    BY <1>7 DEF Execute, Touch, Motor
  <2> QED BY <2>1, DeviceTells
<1>8. CASE Disconnect \/ Stop
  <2>1. FailPending /\ news' = <<>> /\ UNCHANGED <<rep, device, snapshot>>
    BY <1>8 DEF Disconnect, Stop, Sever
  <2>2. Contents(news') = {} /\ news' \in Seq(Contents(news'))
    BY <2>1 DEF Contents
  <2>3. Told' \subseteq Told
    BY <2>1, <2>2 DEF Told
  <2> QED BY <2>1, <2>2, <2>3, NothingTold DEF SeenInv
<1>9. ASSUME (\E v \in echoes : Desired(v)) \/ Reconnect \/ UNCHANGED vars PROVE SeenInv'
  BY <1>2, <1>9 DEF Desired, Reconnect, vars, Quiet
<1> QED BY <1>4, <1>5, <1>6, <1>7, <1>8, <1>9, MessagesTell DEF Next

\* A caller's command is confirmed, by a report or by the late look-up of the
\* preset, only with a value that the controller has held since the command was
\* sent, or that was under way then.
THEOREM ConfirmedByTheDevice == Spec => []ConfirmedByDevice
<1>1. Init => SeenInv
  BY PumpAssumption, NobodyIsZero DEF Init, SeenInv, Unseen, Contents, NoPending, Actors
<1>2. PumpInv /\ SeenInv /\ [Next]_vars => SeenInv'
  BY SeenStep
<1>3. SeenInv => ConfirmedByDevice
  BY DEF SeenInv, Unseen, Told, ConfirmedByDevice
<1> QED BY <1>1, <1>2, <1>3, PumpCorrect, PTL DEF Spec

-----------------------------------------------------------------------------
(* Progress: how the line moves on.                                        *)

OneEach(ln) == ln \in Seq(Actors) /\ \A i, j \in 1..Len(ln) : ln[i] = ln[j] => i = j

Among(ln, a) == \E n \in 1..Len(ln) : ln[n] = a

\* What becomes of the line ln when b comes or leaves.
ComesOrGoes(ln, new, b) ==
  \/ new = Append(ln, b) /\ ~Among(ln, b)
  \/ ln # <<>> /\ ln[1] = b /\ new = Tail(ln)
  \/ new = Without(ln, b)

\* The others keep their places but for those behind b, who move up by one.
LEMMA PlacesAfter ==
  ASSUME NEW ln, NEW new, NEW b \in Actors, OneEach(ln), ComesOrGoes(ln, new, b)
  PROVE  /\ new \in Seq(Actors)
         /\ \A a \in Actors \ {b} : Among(new, a) => Among(ln, a)
         /\ \A a \in Actors \ {b}, n \in 1..Len(ln) : ln[n] = a =>
              \E m \in 1..Len(new) : m <= n /\ new[m] = a
         /\ ln # <<>> /\ ln[1] # b => new # <<>> /\ new[1] = ln[1]
         /\ ln # <<>> /\ ln[1] = b /\ ~Among(new, b) =>
              \A n \in 2..Len(ln) : n - 1 \in 1..Len(new) /\ new[n - 1] = ln[n]
         /\ ~Among(ln, b) \/ (Among(new, b) => new = ln)
<1>0. ln \in Seq(Actors) /\ Len(ln) \in Nat /\ \A i \in 1..Len(ln) : ln[i] \in Actors
  BY DEF OneEach
<1> DEFINE Goal == /\ new \in Seq(Actors)
                   /\ \A a \in Actors \ {b} : Among(new, a) => Among(ln, a)
                   /\ \A a \in Actors \ {b}, n \in 1..Len(ln) : ln[n] = a =>
                        \E m \in 1..Len(new) : m <= n /\ new[m] = a
                   /\ ln # <<>> /\ ln[1] # b => new # <<>> /\ new[1] = ln[1]
                   /\ ln # <<>> /\ ln[1] = b /\ ~Among(new, b) =>
                        \A n \in 2..Len(ln) : n - 1 \in 1..Len(new) /\ new[n - 1] = ln[n]
                   /\ ~Among(ln, b) \/ (Among(new, b) => new = ln)
<1>1. ASSUME new = Append(ln, b), ~Among(ln, b) PROVE Goal
  <2>1. /\ new \in Seq(Actors) /\ Len(new) = Len(ln) + 1 /\ new[Len(ln) + 1] = b
        /\ \A i \in 1..Len(ln) : new[i] = ln[i]
    BY <1>0, <1>1
  <2>2. ln # <<>> => 1 \in 1..Len(ln) /\ new # <<>>
    BY <1>0, <2>1
  <2>3. Among(new, b)
    BY <1>0, <2>1 DEF Among
  <2>4. ~(ln # <<>> /\ ln[1] = b)
    BY <1>1, <2>2 DEF Among
  <2>5. ASSUME NEW a \in Actors \ {b}, Among(new, a) PROVE Among(ln, a)
    BY <1>0, <2>1, <2>5 DEF Among
  <2>6. ASSUME NEW n \in 1..Len(ln) PROVE n \in 1..Len(new) /\ n <= n /\ new[n] = ln[n]
    BY <1>0, <2>1
  <2> QED BY <1>1, <2>1, <2>2, <2>3, <2>4, <2>5, <2>6
<1>2. ASSUME new = ln, ~Among(ln, b) PROVE Goal
  <2>1. ln # <<>> => 1 \in 1..Len(ln)
    BY <1>0
  <2>2. \A n \in 1..Len(ln) : n <= n
    BY <1>0
  <2> QED BY <1>0, <1>2, <2>1, <2>2 DEF Among
<1>3. ASSUME NEW k \in 1..Len(ln), ln[k] = b, new \in Seq(Actors), Len(new) = Len(ln) - 1,
             \A j \in 1..Len(new) : new[j] = IF j < k THEN ln[j] ELSE ln[j + 1]
      PROVE  Goal
  <2>1. ASSUME NEW a \in Actors \ {b}, Among(new, a) PROVE Among(ln, a)
    <3>1. PICK j \in 1..Len(new) : new[j] = a
      BY <2>1 DEF Among
    <3>2. j \in 1..Len(ln) /\ j + 1 \in 1..Len(ln)
      BY <1>0, <1>3, <3>1
    <3> QED BY <1>3, <3>1, <3>2 DEF Among
  <2>2. ~Among(new, b)
    <3> SUFFICES ASSUME NEW j \in 1..Len(new), new[j] = b PROVE FALSE
      BY DEF Among
    <3>1. j \in 1..Len(ln) /\ j + 1 \in 1..Len(ln) /\ k \in Nat /\ j \in Nat
      BY <1>0, <1>3
    <3> QED BY <1>3, <3>1 DEF OneEach
  <2>3. ASSUME NEW a \in Actors \ {b}, NEW n \in 1..Len(ln), ln[n] = a
        PROVE  \E m \in 1..Len(new) : m <= n /\ new[m] = a
    <3>1. n # k /\ n \in Nat /\ k \in Nat
      BY <1>3, <2>3
    <3>2. CASE n < k
      <4>1. n \in 1..Len(new) /\ n <= n /\ new[n] = a
        BY <1>0, <1>3, <2>3, <3>1, <3>2
      <4> QED BY <4>1
    <3>3. CASE n > k
      <4>1. n - 1 \in 1..Len(new) /\ n - 1 <= n /\ ~(n - 1 < k) /\ (n - 1) + 1 = n
        BY <1>0, <1>3, <3>1, <3>3
      <4>2. new[n - 1] = a
        BY <1>3, <2>3, <4>1
      <4> QED BY <4>1, <4>2
    <3> QED BY <3>1, <3>2, <3>3
  <2>4. ln # <<>> /\ ln[1] # b => new # <<>> /\ new[1] = ln[1]
    <3> SUFFICES ASSUME ln[1] # b PROVE new # <<>> /\ new[1] = ln[1]
      OBVIOUS
    <3>1. 1 < k /\ 1 \in 1..Len(new)
      BY <1>0, <1>3
    <3> QED BY <1>3, <3>1
  <2>5. ln # <<>> /\ ln[1] = b =>
          \A n \in 2..Len(ln) : n - 1 \in 1..Len(new) /\ new[n - 1] = ln[n]
    <3> SUFFICES ASSUME ln[1] = b, NEW n \in 2..Len(ln)
                 PROVE  n - 1 \in 1..Len(new) /\ new[n - 1] = ln[n]
      OBVIOUS
    <3>1. k = 1
      BY <1>0, <1>3 DEF OneEach
    <3>2. n - 1 \in 1..Len(new) /\ ~(n - 1 < k) /\ (n - 1) + 1 = n
      BY <1>0, <1>3, <3>1
    <3> QED BY <1>3, <3>2
  <2> QED BY <1>3, <2>1, <2>2, <2>3, <2>4, <2>5
<1> HIDE DEF Goal
<1>4. ASSUME ln # <<>>, ln[1] = b, new = Tail(ln) PROVE Goal
  <2>1. /\ 1 \in 1..Len(ln) /\ new \in Seq(Actors) /\ Len(new) = Len(ln) - 1
        /\ \A j \in 1..Len(new) : new[j] = ln[j + 1]
    BY <1>0, <1>4
  <2>2. \A j \in 1..Len(new) : new[j] = IF j < 1 THEN ln[j] ELSE ln[j + 1]
    BY <2>1
  <2> QED BY <1>3, <1>4, <2>1, <2>2
<1>5. ASSUME new = Without(ln, b) PROVE Goal
  <2>1. CASE ~Among(ln, b)
    BY <1>2, <1>5, <2>1 DEF Without, Among
  <2>2. CASE Among(ln, b)
    <3> DEFINE k == CHOOSE i \in 1..Len(ln) : ln[i] = b
    <3>1. k \in 1..Len(ln) /\ ln[k] = b
      BY <2>2 DEF Among
    <3>2. new = [j \in 1..(Len(ln) - 1) |-> IF j < k THEN ln[j] ELSE ln[j + 1]]
      BY <1>5, <2>2 DEF Without, Among
    <3> HIDE DEF k
    <3>3. \A j \in 1..(Len(ln) - 1) : (IF j < k THEN ln[j] ELSE ln[j + 1]) \in Actors
      BY <1>0, <3>1
    <3>4. new \in Seq(Actors) /\ Len(new) = Len(ln) - 1
      <4>1. Len(ln) - 1 \in Nat
        BY <1>0, <3>1
      <4>2. new \in [1..(Len(ln) - 1) -> Actors]
        BY <3>2, <3>3
      <4> QED BY <4>1, <4>2
    <3>5. \A j \in 1..Len(new) : new[j] = IF j < k THEN ln[j] ELSE ln[j + 1]
      BY <3>2, <3>4
    <3> QED BY <1>3, <3>1, <3>4, <3>5
  <2> QED BY <2>1, <2>2
<1>6. Goal
  BY <1>1, <1>4, <1>5 DEF ComesOrGoes
<1> QED BY <1>6 DEF Goal

LEMMA LineNow ==
  ASSUME PumpInv
  PROVE  /\ OneEach(line) /\ Len(line) \in Nat
         /\ \A a \in Actors :
              /\ Holds(a) <=> line # <<>> /\ line[1] = a
              /\ Holds(a) => Among(line, a)
              /\ Among(line, a) => At[a] \in Lining
              /\ Among(line, a) /\ At[a] = "dropping" => Holds(a)
              /\ At[a] \in Asked => Holds(a)
         /\ \A c \in Callers : c \in Actors /\ At[c] = call[c].at
         /\ \A g \in Generations : g \in Actors /\ g \notin Callers /\ At[g] = worker[g].at
<1>1. Fits(line, pending.who, At) /\ 0 \notin Actors
  BY FitsNow, NobodyIsZero
<1>2. line # <<>> => Head(line) = line[1] /\ 1 \in 1..Len(line)
  BY <1>1 DEF Fits
<1>3. /\ \A c \in Callers : c \in Actors /\ At[c] = call[c].at
      /\ \A g \in Generations : g \in Actors /\ g \notin Callers /\ At[g] = worker[g].at
  BY NobodyIsZero DEF At, Actors
<1>4. OneEach(line) /\ Len(line) \in Nat
  BY <1>1 DEF Fits, OneEach
<1>5. ASSUME NEW a \in Actors
      PROVE  /\ Holds(a) <=> line # <<>> /\ line[1] = a
             /\ Holds(a) => Among(line, a)
             /\ Among(line, a) => At[a] \in Lining
             /\ Among(line, a) /\ At[a] = "dropping" => Holds(a)
             /\ At[a] \in Asked => Holds(a)
  <2>1. Holds(a) <=> line # <<>> /\ line[1] = a
    BY <1>2 DEF Holds
  <2>2. Holds(a) => Among(line, a)
    BY <1>2, <2>1 DEF Among
  <2>3. ASSUME NEW n \in 1..Len(line), line[n] = a
        PROVE  At[a] \in Lining /\ (At[a] = "dropping" => Holds(a))
    <3>1. n = 1 => line # <<>>
      BY <1>1, <2>3 DEF Fits
    <3> QED BY <1>1, <2>1, <2>3, <3>1 DEF Fits
  <2>4. At[a] \in Asked => Holds(a)
    BY <1>1, <2>1 DEF Fits
  <2> QED BY <2>1, <2>2, <2>3, <2>4 DEF Among
<1> QED BY <1>3, <1>4, <1>5

Ended == {"idle", "ok", "failed"}

\* What the holder of the lock still has ahead of it, less with every step.
CallRank(r) ==
  CASE r.at = "queued"   -> 6
    [] r.at = "dropping" -> 5
    [] r.at = "sent"     -> IF r.stage = 1 THEN 4 ELSE 2
    [] r.at = "refresh"  -> IF r.stage = 1 THEN 3 ELSE 1
    [] OTHER             -> 0

WorkRank(w) ==
  CASE w.at = "queued"    -> 3
    [] w.at = "sent"      -> 2
    [] w.at = "unwinding" -> 1
    [] OTHER              -> 0

Rank(a) == IF a \in Callers THEN CallRank(call[a]) ELSE WorkRank(worker[a])

\* The ways of a caller: into the line, to wait for a worker, to the next write
\* or lookup with the lock in hand, and out.
ComesIn(c) == /\ ~Among(line, c) /\ line' = Append(line, c)
              /\ call[c].at \in {"idle", "dropping"} /\ call'[c].at = "queued"
Awaits(c)  == /\ line' = line /\ call'[c].at = "dropping"
              /\ call[c].at = "idle" \/ (call[c].at = "queued" /\ Holds(c))
Writes(c)  == /\ Holds(c) /\ line' = line /\ call'[c].at \in Asked
              /\ call[c].at \in {"queued", "dropping"} \cup Asked
              /\ CallRank(call'[c]) < CallRank(call[c])
Finds(c)   == /\ Holds(c) /\ line' = Tail(line) /\ call'[c].at \in Ended
              /\ call[c].at \in {"queued", "dropping"} \cup Asked
GivesUp(c) == /\ line' = Without(line, c) /\ call'[c].at = "failed"
              /\ call[c].at \in {"queued", "dropping"} \cup Asked

LEMMA CallerActs ==
  ASSUME PumpInv, NEW c \in Callers, CallerStep(c) \/ CancelCall(c)
  PROVE  /\ \A d \in Callers \ {c} : call'[d] = call[d]
         /\ CallerStep(c) => ComesIn(c) \/ Awaits(c) \/ Writes(c) \/ Finds(c)
         /\ CancelCall(c) => GivesUp(c)
<1>0. CallOK(call[c]) /\ DOMAIN call = Callers /\ c \in Actors /\ At[c] = call[c].at
  BY LineNow DEF PumpInv, CallsOK
<1> DEFINE Apart == \A d \in Callers \ {c} : call'[d] = call[d]
<1>1. ASSUME NEW r, call' = [call EXCEPT ![c] = r] PROVE call'[c] = r /\ Apart
  BY <1>0, <1>1
<1>2. ASSUME NEW at, call' = [call EXCEPT ![c].at = at] PROVE call'[c].at = at /\ Apart
  <2>1. call' = [call EXCEPT ![c] = [call[c] EXCEPT !.at = at]]
    BY <1>2
  <2>2. [call[c] EXCEPT !.at = at].at = at
    BY <1>0 DEF CallOK, CallFields
  <2> QED BY <1>1, <2>1, <2>2
<1> HIDE DEF Apart
<1>3. ASSUME Drop(c), call[c].at = "idle" \/ (call[c].at = "queued" /\ Holds(c))
      PROVE  Awaits(c) /\ Apart
  <2>1. line' = line /\ call' = [call EXCEPT ![c] = [call[c] EXCEPT !.at = "dropping", !.waits = current]]
    BY <1>0, <1>3 DEF Drop
  <2>2. [call[c] EXCEPT !.at = "dropping", !.waits = current].at = "dropping"
    BY <1>0 DEF CallOK, CallFields
  <2> QED BY <1>1, <1>3, <2>1, <2>2 DEF Awaits
<1>4. ASSUME Queue(c), call[c].at = "idle" \/ (call[c].at = "dropping" /\ ~Holds(c))
      PROVE  ComesIn(c) /\ Apart
  <2>1. ~Among(line, c)
    BY <1>0, <1>4, LineNow DEF Lining
  <2> QED BY <1>2, <1>4, <2>1 DEF Queue, ComesIn
<1>5. ASSUME NEW ok, NEW aligns, End(c, ok, aligns), Holds(c),
             call[c].at \in {"queued", "dropping"} \cup Asked
      PROVE  Finds(c) /\ Apart
  <2>1. line' = Tail(line) /\ call' = [call EXCEPT ![c] = Following(c, ok)]
    BY <1>5 DEF End
  <2>2. Following(c, ok).at \in Ended
    BY <1>0 DEF Following, CallOK, CallFields, Ended
  <2> QED BY <1>1, <1>5, <2>1, <2>2 DEF Finds
<1>6. ASSUME NEW stage \in {1, 2}, NEW was, NEW w, NEW r, Try(c, stage, was, w, r), Holds(c),
             call[c].at \in {"queued", "dropping"} \cup Asked,
             call[c].at \in Asked => stage = 2 /\ call[c].stage = 1
      PROVE  (Writes(c) \/ Finds(c)) /\ Apart
  <2>1. CASE End(c, FALSE, FALSE)
    BY <1>5, <1>6, <2>1
  <2>2. CASE /\ call' = [call EXCEPT ![c] = [@ EXCEPT !.at = "sent", !.stage = stage, !.was = was]]
             /\ UNCHANGED <<line, work>>
    <3> DEFINE n == [call[c] EXCEPT !.at = "sent", !.stage = stage, !.was = was]
    <3>1. n.at = "sent" /\ n.stage = stage
      BY <1>0 DEF CallOK, CallFields
    <3>2. call'[c] = n /\ Apart
      <4> HIDE DEF n
      <4> QED BY <1>1, <2>2 DEF n
    <3> HIDE DEF n
    <3>3. CallRank(n) = IF stage = 1 THEN 4 ELSE 2
      BY <3>1 DEF CallRank
    <3>4. CallRank(call[c]) > CallRank(n)
      BY <1>6, <3>3 DEF CallRank, Asked
    <3> QED BY <1>6, <2>2, <3>1, <3>2, <3>4 DEF Writes, Asked
  <2> QED BY <1>6, <2>1, <2>2 DEF Try
<1>7. ASSUME NEW was, NEW r, Second(c, was, r), Holds(c),
             call[c].at \in {"queued", "dropping"} \cup Asked,
             call[c].at \in Asked => call[c].stage = 1
      PROVE  (Writes(c) \/ Finds(c)) /\ Apart
  BY <1>5, <1>6, <1>7 DEF Second
<1>8. ASSUME NEW was, NEW r, AfterFirst(c, was, r), Holds(c),
             call[c].at \in {"queued", "dropping"} \cup Asked,
             call[c].at \in Asked => call[c].stage = 1
      PROVE  (Writes(c) \/ Finds(c)) /\ Apart
  BY <1>5, <1>7, <1>8 DEF AfterFirst
<1>9. ASSUME Proceed(c), Holds(c), call[c].at \in {"queued", "dropping"}
      PROVE  (Writes(c) \/ Finds(c)) /\ Apart
  <2>1. call[c].at \notin Asked
    BY <1>9 DEF Asked
  <2>2. PICK was : First(c, was, rep)
    BY <1>9 DEF Proceed
  <2> QED BY <1>6, <1>8, <1>9, <2>1, <2>2 DEF First
<1>10. ASSUME NEW r, Confirmation(c, r), call[c].at \in Asked PROVE (Writes(c) \/ Finds(c)) /\ Apart
  <2>1. Holds(c)
    BY <1>0, <1>10, LineNow
  <2> QED BY <1>5, <1>8, <1>10, <2>1 DEF Confirmation
<1>11. ASSUME End(c, FALSE, FALSE), call[c].at \in Asked PROVE Finds(c) /\ Apart
  <2>1. Holds(c)
    BY <1>0, <1>11, LineNow
  <2> QED BY <1>5, <1>11, <2>1
<1>12. ASSUME Call(c) PROVE (ComesIn(c) \/ Awaits(c)) /\ Apart
  BY <1>3, <1>4, <1>12 DEF Call
<1>13. ASSUME Dropped(c) PROVE (ComesIn(c) \/ Writes(c) \/ Finds(c)) /\ Apart
  BY <1>4, <1>9, <1>13 DEF Dropped
<1>14. ASSUME Enter(c) PROVE (Awaits(c) \/ Writes(c) \/ Finds(c)) /\ Apart
  BY <1>3, <1>9, <1>14 DEF Enter
<1>15. ASSUME Confirmed(c) \/ SendFails(c) \/ Refresh(c) PROVE (Writes(c) \/ Finds(c)) /\ Apart
  <2>1. call[c].at \in Asked
    BY <1>15 DEF Confirmed, SendFails, Refresh, Asked
  <2> QED BY <1>10, <1>11, <1>15, <2>1 DEF Confirmed, SendFails, Refresh
<1>16. ASSUME TimesOut(c) PROVE (Writes(c) \/ Finds(c)) /\ Apart
  <2>1. call[c].at = "sent" /\ call[c].at \in Asked
    BY <1>16 DEF TimesOut, Asked
  <2>2. CASE End(c, FALSE, FALSE)
    BY <1>11, <2>1, <2>2
  <2>3. CASE call' = [call EXCEPT ![c].at = "refresh"] /\ line' = line
    <3> DEFINE n == [call[c] EXCEPT !.at = "refresh"]
    <3>1. n.at = "refresh" /\ n.stage = call[c].stage
      BY <1>0 DEF CallOK, CallFields
    <3>2. call' = [call EXCEPT ![c] = n]
      BY <2>3
    <3> HIDE DEF n
    <3>3. call'[c] = n /\ Apart
      BY <1>1, <3>2
    <3>4. CallRank(n) < CallRank(call[c])
      BY <2>1, <3>1 DEF CallRank
    <3>5. Holds(c)
      BY <1>0, <2>1, LineNow
    <3> QED BY <2>1, <2>3, <3>1, <3>3, <3>4, <3>5 DEF Writes, Asked
  <2> QED BY <1>16, <2>2, <2>3 DEF TimesOut
<1>17. ASSUME CancelCall(c) PROVE GivesUp(c) /\ Apart
  BY <1>2, <1>17 DEF CancelCall, GivesUp, StopsWaiting, Asked
<1>18. CancelCall(c) \/ CallerStep(c) => Apart
  BY <1>12, <1>13, <1>14, <1>15, <1>16, <1>17 DEF CallerStep
<1>19. Apart
  BY <1>18
<1> QED BY <1>12, <1>13, <1>14, <1>15, <1>16, <1>17, <1>19 DEF CallerStep, Apart

\* The ways of a worker: to look again, into the line, to its write with the
\* lock in hand, and out.
Looks(g)   == /\ line' = line /\ worker[g].at = "watching"
              /\ worker'[g].at \in {"watching", "done"}
LinesUp(g) == /\ ~Among(line, g) /\ line' = Append(line, g)
              /\ worker[g].at = "watching" /\ worker'[g].at = "queued"
Corrects(g) == /\ Holds(g) /\ line' = line
               /\ worker[g].at = "queued" /\ worker'[g].at = "sent"
Quits(g)   == /\ Holds(g) /\ line' = Tail(line)
              /\ worker[g].at \in {"queued", "sent"} /\ worker'[g].at \in {"watching", "done"}
Vanishes(g) == /\ line' = Without(line, g)
               /\ worker[g].at = "unwinding" /\ worker'[g].at = "done"

LEMMA WorkerActs ==
  ASSUME PumpInv, NEW g \in Generations, WorkerStep(g) \/ Expires(g)
  PROVE  /\ \A h \in Generations \ {g} : worker'[h] = worker[h]
         /\ UNCHANGED call
         /\ WorkerStep(g) => Looks(g) \/ LinesUp(g) \/ Corrects(g) \/ Quits(g) \/ Vanishes(g)
         /\ Expires(g) => Looks(g) /\ worker'[g].at = "done"
<1> DEFINE v == worker[g]
           Apart == (\A h \in Generations \ {g} : worker'[h] = worker[h]) /\ UNCHANGED call
<1>0. WorkerOK(v) /\ DOMAIN worker = Generations /\ g \in Actors /\ At[g] = v.at
  BY LineNow DEF PumpInv, WorkersOK
<1>1. ASSUME NEW w, worker' = [worker EXCEPT ![g] = w]
      PROVE  worker'[g] = w /\ \A h \in Generations \ {g} : worker'[h] = worker[h]
  BY <1>0, <1>1
<1>2. ASSUME NEW result, Finishes(g, result)
      PROVE  worker'[g].at = "done" /\ \A h \in Generations \ {g} : worker'[h] = worker[h]
  <2>1. worker' = [worker EXCEPT ![g] = DoneWith(g, result)]
    BY <1>0, <1>2 DEF Finishes, DoneWith
  <2>2. DoneWith(g, result).at = "done"
    BY <1>0 DEF DoneWith, WorkerOK, Unborn
  <2> QED BY <1>1, <2>1, <2>2
<1>3. ASSUME NEW w, Becomes(g, w)
      PROVE  worker'[g] = w /\ \A h \in Generations \ {g} : worker'[h] = worker[h]
  BY <1>1, <1>3 DEF Becomes
<1>4. /\ [v EXCEPT !.primed = TRUE].at = v.at /\ [v EXCEPT !.at = "queued"].at = "queued"
      /\ [v EXCEPT !.at = "watching"].at = "watching"
      /\ [v EXCEPT !.at = "watching", !.tried = TRUE, !.socket = sock].at = "watching"
      /\ [v EXCEPT !.at = "sent", !.socket = sock, !.sends = v.sends + 1].at = "sent"
      /\ Observes(v).at = "watching"
  BY <1>0 DEF WorkerOK, Unborn, Observes
<1>5. ASSUME Wake(g) PROVE (Looks(g) \/ LinesUp(g)) /\ Apart
  <2>1. v.at = "watching" /\ UNCHANGED call
    BY <1>5 DEF Wake
  <2>2. ASSUME NEW result, Finishes(g, result), line' = line PROVE Looks(g) /\ Apart
    BY <1>2, <2>1, <2>2 DEF Looks
  <2>3. CASE Becomes(g, [v EXCEPT !.primed = TRUE]) /\ line' = line
    <3>1. worker'[g].at = "watching" /\ Apart
      BY <1>3, <1>4, <2>1, <2>3
    <3> QED BY <2>1, <2>3, <3>1 DEF Looks
  <2>4. CASE Becomes(g, [v EXCEPT !.at = "queued"]) /\ line' = Append(line, g)
    <3>1. worker'[g].at = "queued" /\ Apart
      BY <1>3, <1>4, <2>1, <2>4
    <3>2. ~Among(line, g)
      BY <1>0, <2>1, LineNow DEF Lining
    <3> QED BY <2>1, <2>4, <3>1, <3>2 DEF LinesUp
  <2> HIDE DEF Apart
  <2> QED BY <1>5, <2>2, <2>3, <2>4 DEF Wake
<1>6. ASSUME Locked(g) PROVE (Corrects(g) \/ Quits(g)) /\ Apart
  <2>1. v.at = "queued" /\ Holds(g) /\ UNCHANGED call
    BY <1>6 DEF Locked
  <2>2. ASSUME NEW result, Finishes(g, result), line' = Tail(line) PROVE Quits(g) /\ Apart
    BY <1>2, <2>1, <2>2 DEF Quits
  <2>3. ASSUME NEW w, w.at = "watching", Becomes(g, w), line' = Tail(line) PROVE Quits(g) /\ Apart
    BY <1>3, <2>1, <2>3 DEF Quits
  <2>4. CASE Becomes(g, [v EXCEPT !.at = "sent", !.socket = sock, !.sends = v.sends + 1])
             /\ line' = line
    <3>1. worker'[g].at = "sent" /\ Apart
      BY <1>3, <1>4, <2>1, <2>4
    <3> QED BY <2>1, <2>4, <3>1 DEF Corrects
  <2> HIDE DEF Apart
  <2>5. CASE Finishes(g, "cancelled") /\ line' = Tail(line)
    BY <2>2, <2>5
  <2>6. CASE Becomes(g, [v EXCEPT !.at = "watching"]) /\ line' = Tail(line)
    BY <1>4, <2>3, <2>6
  <2>7. CASE Align(g)
    <3>1. CASE Becomes(g, [v EXCEPT !.at = "watching", !.tried = TRUE, !.socket = sock])
               /\ line' = Tail(line)
      BY <1>4, <2>3, <3>1
    <3>2. CASE Finishes(g, "failed") /\ line' = Tail(line)
      BY <2>2, <3>2
    <3> QED BY <2>4, <2>7, <3>1, <3>2 DEF Align
  <2> QED BY <1>6, <2>5, <2>6, <2>7 DEF Locked
<1>7. ASSUME Aligned(g) \/ AlignFails(g) PROVE Quits(g) /\ Apart
  <2>1. v.at = "sent" /\ line' = Tail(line) /\ UNCHANGED call
    BY <1>7 DEF Aligned, AlignFails
  <2>2. Holds(g)
    BY <1>0, <2>1, LineNow DEF Asked
  <2>3. ASSUME NEW result, Finishes(g, result) PROVE Quits(g) /\ Apart
    BY <1>2, <2>1, <2>2, <2>3 DEF Quits
  <2>4. CASE Becomes(g, Observes(v))
    <3>1. worker'[g].at = "watching" /\ Apart
      BY <1>3, <1>4, <2>1, <2>4
    <3> QED BY <2>1, <2>2, <3>1 DEF Quits
  <2> HIDE DEF Apart
  <2> QED BY <1>7, <2>3, <2>4 DEF Aligned, AlignFails
<1>8. ASSUME Unwind(g) PROVE Vanishes(g) /\ Apart
  <2>1. /\ v.at = "unwinding" /\ line' = Without(line, g) /\ UNCHANGED call
        /\ worker' = [worker EXCEPT ![g] = DoneWith(g, "cancelled")]
    BY <1>0, <1>8 DEF Unwind, StopsWaiting, DoneWith
  <2>2. DoneWith(g, "cancelled").at = "done"
    BY <1>0 DEF DoneWith, WorkerOK, Unborn
  <2> QED BY <1>1, <2>1, <2>2 DEF Vanishes
<1>9. ASSUME Expires(g) PROVE Looks(g) /\ worker'[g].at = "done" /\ Apart
  BY <1>2, <1>9 DEF Expires, Looks
<1> HIDE DEF Apart
<1>10. Apart
  BY <1>5, <1>6, <1>7, <1>8, <1>9 DEF WorkerStep
<1> QED BY <1>5, <1>6, <1>7, <1>8, <1>9, <1>10 DEF WorkerStep, Apart

OwnStep(a) == IF a \in Callers THEN CallerStep(a) \/ CancelCall(a) ELSE WorkerStep(a) \/ Expires(a)

\* Only whoever is in the line, or comes, moves the line.
LEMMA OnesStep ==
  ASSUME PumpInv, NEW b \in Actors, OwnStep(b)
  PROVE  /\ line' = line \/ ComesOrGoes(line, line', b)
         /\ \A c \in Callers \ {b} : call'[c] = call[c]
<1>1. b \in Callers \/ (b \in Generations /\ b \notin Callers)
  BY DEF Actors
<1>2. Holds(b) => line # <<>> /\ line[1] = b
  BY LineNow
<1>3. CASE b \in Callers
  BY <1>2, <1>3, CallerActs
  DEF OwnStep, ComesOrGoes, ComesIn, Awaits, Writes, Finds, GivesUp
<1>4. CASE b \in Generations /\ b \notin Callers
  BY <1>2, <1>4, WorkerActs
  DEF OwnStep, ComesOrGoes, Looks, LinesUp, Corrects, Quits, Vanishes
<1> QED BY <1>1, <1>3, <1>4

\* What comes from outside moves neither the line nor a caller.
LEMMA StepOfOne ==
  ASSUME PumpInv, [Next]_vars
  PROVE  (UNCHANGED <<line, call>>) \/ \E b \in Actors : OwnStep(b)
<1>1. ASSUME NEW c \in Callers, CallerStep(c) \/ CancelCall(c) PROVE \E b \in Actors : OwnStep(b)
  BY <1>1 DEF OwnStep, Actors
<1>2. ASSUME NEW g \in Generations, WorkerStep(g) \/ Expires(g) PROVE \E b \in Actors : OwnStep(b)
  BY <1>2, LineNow DEF OwnStep
<1>3. ASSUME \/ \E part \in Parts : Reported(part)
             \/ Report \/ Read \/ Merge
             \/ \E v \in echoes : Desired(v)
             \/ \E m \in wire : Execute(m)
             \/ \E t \in Touches : Touch(t)
             \/ Motor \/ Disconnect \/ Reconnect \/ Stop \/ UNCHANGED vars
      PROVE  UNCHANGED <<line, call>>
  BY <1>3 DEF Reported, Report, Read, Merge, Desired, Execute, Touch, Motor, Disconnect,
          Reconnect, Stop, vars
<1> QED BY <1>1, <1>2, <1>3 DEF Next

\* What becomes of a worker in a step: only a startup arms it, and only its
\* own steps and a cancellation of one that lives move it on.
LEMMA WorkerWays ==
  ASSUME PumpInv, AlignInv, [Next]_vars, NEW g \in Generations
  PROVE  \/ WorkerStep(g) \/ Expires(g)
         \/ worker'[g].at = worker[g].at
         \/ worker[g].at = "none" /\ worker'[g].at = "watching"
         \/ worker[g].at \in Live /\ worker'[g].at = "unwinding"
<1> DEFINE Goal == \/ WorkerStep(g) \/ Expires(g)
                   \/ worker'[g].at = worker[g].at
                   \/ worker[g].at = "none" /\ worker'[g].at = "watching"
                   \/ worker[g].at \in Live /\ worker'[g].at = "unwinding"
<1>0. /\ DOMAIN worker = Generations /\ \A h \in Generations : WorkerOK(worker[h])
      /\ g > gen => worker[g] = Unborn
  BY DEF PumpInv, WorkersOK
<1>1. ASSUME worker' = worker PROVE Goal
  BY <1>1
<1>2. ASSUME NEW h, NEW w, worker' = [worker EXCEPT ![h] = w], h = g => w.at = worker[g].at PROVE Goal
  BY <1>0, <1>2
<1>3. ASSUME current # 0, worker' = [worker EXCEPT ![current].at = "unwinding"] PROVE Goal
  <2> DEFINE w == [worker[current] EXCEPT !.at = "unwinding"]
  <2>1. current \in Generations /\ worker[current].at \in Live
    BY <1>3, Generated DEF AlignInv
  <2>2. w.at = "unwinding" /\ worker' = [worker EXCEPT ![current] = w]
    BY <1>0, <1>3, <2>1 DEF WorkerOK, Unborn
  <2> HIDE DEF w
  <2>3. current = g => worker'[g].at = "unwinding"
    BY <1>0, <2>1, <2>2
  <2>4. current # g => worker'[g] = worker[g]
    BY <1>0, <2>1, <2>2
  <2> QED BY <2>1, <2>3, <2>4
<1>4. ASSUME current # 0, \/ worker' = [worker EXCEPT ![current].override = TRUE]
                          \/ worker' = [worker EXCEPT ![current].outdated = TRUE]
      PROVE  Goal
  <2>1. current \in Generations
    BY <1>4, Generated
  <2>2. /\ [worker[current] EXCEPT !.override = TRUE].at = worker[current].at
        /\ [worker[current] EXCEPT !.outdated = TRUE].at = worker[current].at
    BY <1>0, <2>1 DEF WorkerOK, Unborn
  <2> HIDE DEF Goal
  <2>3. CASE worker' = [worker EXCEPT ![current] = [worker[current] EXCEPT !.override = TRUE]]
    BY <1>2, <2>2, <2>3
  <2>4. CASE worker' = [worker EXCEPT ![current] = [worker[current] EXCEPT !.outdated = TRUE]]
    BY <1>2, <2>2, <2>4
  <2> QED BY <1>4, <2>3, <2>4
<1>5. ASSUME NEW c \in Callers, Ends(c) PROVE Goal
  <2>1. PICK ok \in BOOLEAN, aligns \in BOOLEAN : End(c, ok, aligns)
    BY <1>5 DEF Ends
  <2>2. CASE aligns
    <3> DEFINE w == [Unborn EXCEPT !.at = "watching", !.target = call[c].value]
    <3>1. worker' = [worker EXCEPT ![gen + 1] = w]
      BY <2>1, <2>2 DEF End, Schedule
    <3>2. w.at = "watching" /\ Unborn.at = "none"
      BY DEF Unborn
    <3> HIDE DEF w
    <3>3. gen + 1 = g => worker[g] = Unborn
      BY <1>0 DEF PumpInv, GensOK
    <3>4. gen + 1 = g => worker[g].at = "none" /\ worker'[g].at = "watching"
      BY <1>0, <3>1, <3>2, <3>3
    <3>5. gen + 1 # g => worker'[g] = worker[g]
      BY <1>0, <3>1
    <3> QED BY <3>4, <3>5
  <2>3. CASE ~aligns
    <3>1. worker' = worker \/ (current # 0 /\ worker' = [worker EXCEPT ![current].outdated = TRUE])
      BY <2>1, <2>3 DEF End, Overtake
    <3> HIDE DEF Goal
    <3> QED BY <1>1, <1>4, <3>1
  <2> QED BY <2>2, <2>3
<1> HIDE DEF Goal
<1>6. ASSUME NEW c \in Callers, Sends(c) PROVE Goal
  BY <1>1, <1>6 DEF Sends, work
<1>7. ASSUME NEW c \in Callers, NEW was, NEW r, First(c, was, r) \/ Confirmation(c, r) PROVE Goal
  BY <1>5, <1>6, <1>7, GoesOn
<1>8. ASSUME NEW c \in Callers, End(c, FALSE, FALSE) PROVE Goal
  BY <1>5, <1>8 DEF Ends
<1>9. ASSUME NEW c \in Callers, Drop(c), current # 0 PROVE Goal
  BY <1>3, <1>9 DEF Drop
<1>10. ASSUME NEW c \in Callers, CallerStep(c) \/ CancelCall(c) PROVE Goal
  BY <1>1, <1>7, <1>8, <1>9, <1>10
  DEF CallerStep, Call, Queue, Dropped, Enter, DropInside, Proceed, Confirmed, SendFails, TimesOut,
      Refresh, CancelCall, work
<1>11. ASSUME NEW h \in Generations, WorkerStep(h) \/ Expires(h) PROVE Goal
  <2>1. h # g => worker'[g] = worker[g]
    BY <1>11, WorkerActs
  <2> QED BY <1>11, <2>1 DEF Goal
<1>12. ASSUME \/ \E part \in Parts : Reported(part)
              \/ Report \/ Read \/ Merge
              \/ \E m \in wire : Execute(m)
              \/ \E t \in Touches : Touch(t)
              \/ Motor \/ Disconnect \/ Reconnect \/ UNCHANGED vars
       PROVE  Goal
  BY <1>1, <1>12 DEF Reported, Report, Read, Merge, Execute, Touch, Motor, Disconnect,
          Reconnect, vars, work
<1>13. ASSUME (\E v \in echoes : Desired(v)) \/ Stop PROVE Goal
  BY <1>1, <1>3, <1>4, <1>13 DEF Desired, Stop
<1>14. Goal
  BY <1>10, <1>11, <1>12, <1>13 DEF Next
<1> QED BY <1>14 DEF Goal

LEMMA GoneAfter ==
  ASSUME NEW ln, NEW new, NEW b \in Actors, OneEach(ln), Among(ln, b), ComesOrGoes(ln, new, b)
  PROVE  ~Among(new, b)
<1>0. ln \in Seq(Actors) /\ Len(ln) \in Nat
  BY DEF OneEach
<1>1. ASSUME NEW k \in 1..Len(ln), ln[k] = b, Len(new) = Len(ln) - 1,
             \A j \in 1..Len(new) : new[j] = IF j < k THEN ln[j] ELSE ln[j + 1]
      PROVE  ~Among(new, b)
  <2> SUFFICES ASSUME NEW j \in 1..Len(new), new[j] = b PROVE FALSE
    BY DEF Among
  <2>1. j \in 1..Len(ln) /\ j + 1 \in 1..Len(ln) /\ k \in Nat /\ j \in Nat
    BY <1>0, <1>1
  <2> QED BY <1>1, <2>1 DEF OneEach
<1>2. CASE ln # <<>> /\ ln[1] = b /\ new = Tail(ln)
  <2>1. /\ 1 \in 1..Len(ln) /\ Len(new) = Len(ln) - 1
        /\ \A j \in 1..Len(new) : new[j] = ln[j + 1]
    BY <1>0, <1>2
  <2>2. \A j \in 1..Len(new) : new[j] = IF j < 1 THEN ln[j] ELSE ln[j + 1]
    BY <2>1
  <2> QED BY <1>1, <1>2, <2>1, <2>2
<1>3. CASE new = Without(ln, b)
  <2> DEFINE k == CHOOSE i \in 1..Len(ln) : ln[i] = b
  <2>1. k \in 1..Len(ln) /\ ln[k] = b
    BY DEF Among
  <2>2. new = [j \in 1..(Len(ln) - 1) |-> IF j < k THEN ln[j] ELSE ln[j + 1]]
    BY <1>3 DEF Without, Among
  <2> HIDE DEF k
  <2>3. Len(new) = Len(ln) - 1
    <3>1. Len(ln) - 1 \in Nat
      BY <1>0, <2>1
    <3> QED BY <2>2, <3>1
  <2>4. \A j \in 1..Len(new) : new[j] = IF j < k THEN ln[j] ELSE ln[j + 1]
    BY <2>2, <2>3
  <2> QED BY <1>1, <2>1, <2>3, <2>4
<1> QED BY <1>2, <1>3 DEF ComesOrGoes

\* Whoever is queued is in the line.
QueuedInv == \A a \in Actors : At[a] = "queued" => Among(line, a)

LiveInv == PumpInv /\ TypeOK /\ AlignInv /\ WaitInv /\ QueuedInv

\* The line after a step, for one who does not take the step and for one who does.
LEMMA LineAfter ==
  ASSUME PumpInv, PumpInv', [Next]_vars, NEW a \in Actors
  PROVE  /\ ~OwnStep(a) => /\ Among(line', a) <=> Among(line, a)
                           /\ Holds(a) => Holds(a)'
                           /\ a \in Callers => call'[a] = call[a]
         /\ \A n \in 1..Len(line) : line[n] = a =>
              ~Among(line', a) \/ \E m \in 1..Len(line') : m <= n /\ line'[m] = a
         /\ Holds(a) /\ ~Holds(a)' =>
              \A n \in 2..Len(line) : n - 1 \in 1..Len(line') /\ line'[n - 1] = line[n]
<1>1. /\ OneEach(line) /\ Len(line) \in Nat
      /\ Holds(a) <=> line # <<>> /\ line[1] = a
      /\ Holds(a) => Among(line, a)
      /\ Holds(a)' <=> line' # <<>> /\ line'[1] = a
  <2>1. line' \in Seq(Actors)
    BY DEF PumpInv, Fits
  <2>2. line' # <<>> => Head(line') = line'[1]
    BY <2>1
  <2> QED BY <2>2, LineNow DEF Holds
<1>2. CASE line' = line
  <2>1. a \in Callers /\ ~OwnStep(a) => call'[a] = call[a]
    BY StepOfOne, OnesStep
  <2>2. \A n \in 1..Len(line) : n <= n
    BY <1>1
  <2> QED BY <1>1, <1>2, <2>1, <2>2 DEF Holds
<1>3. ASSUME NEW b \in Actors, OwnStep(b), ComesOrGoes(line, line', b)
      PROVE  /\ ~OwnStep(a) => /\ Among(line', a) <=> Among(line, a)
                               /\ Holds(a) => Holds(a)'
                               /\ a \in Callers => call'[a] = call[a]
             /\ \A n \in 1..Len(line) : line[n] = a =>
                  ~Among(line', a) \/ \E m \in 1..Len(line') : m <= n /\ line'[m] = a
             /\ Holds(a) /\ ~Holds(a)' =>
                  \A n \in 2..Len(line) : n - 1 \in 1..Len(line') /\ line'[n - 1] = line[n]
  <2>1. CASE a = b
    <3>1. Among(line, a) => ~Among(line', a)
      BY <1>1, <1>3, <2>1, GoneAfter
    <3>2. \A n \in 1..Len(line) : line[n] = a => Among(line, a)
      BY DEF Among
    <3>3. Holds(a) => \A n \in 2..Len(line) : n - 1 \in 1..Len(line') /\ line'[n - 1] = line[n]
      BY <1>1, <1>3, <2>1, <3>1, PlacesAfter
    <3> QED BY <1>3, <2>1, <3>1, <3>2, <3>3
  <2>2. CASE a # b
    <3>1. a \in Actors \ {b}
      BY <2>2
    <3>2. /\ Among(line', a) => Among(line, a)
          /\ \A n \in 1..Len(line) : line[n] = a => \E m \in 1..Len(line') : m <= n /\ line'[m] = a
          /\ line # <<>> /\ line[1] # b => line' # <<>> /\ line'[1] = line[1]
      BY <1>1, <1>3, <3>1, PlacesAfter
    <3>3. Among(line, a) => Among(line', a)
      BY <3>2 DEF Among
    <3>4. Holds(a) => Holds(a)'
      BY <1>1, <2>2, <3>2
    <3>5. a \in Callers => call'[a] = call[a]
      BY <1>3, <2>2, OnesStep
    <3> QED BY <3>2, <3>3, <3>4, <3>5
  <2> QED BY <2>1, <2>2
<1>4. line' = line \/ \E b \in Actors : OwnStep(b) /\ ComesOrGoes(line, line', b)
  BY StepOfOne, OnesStep
<1> QED BY <1>2, <1>3, <1>4

LEMMA QueuedStep ==
  ASSUME PumpInv, PumpInv', AlignInv, QueuedInv, [Next]_vars
  PROVE  QueuedInv'
<1> SUFFICES ASSUME NEW a \in Actors, At'[a] = "queued" PROVE Among(line', a)
  BY DEF QueuedInv
<1>1. ASSUME ~OwnStep(a), At[a] = "queued" PROVE Among(line', a)
  BY <1>1, LineAfter DEF QueuedInv
<1>2. ASSUME line' = Append(line, a) PROVE Among(line', a)
  <2>1. line \in Seq(Actors) /\ Len(line) \in Nat
    BY LineNow DEF OneEach
  <2>2. Len(line) + 1 \in 1..Len(line') /\ line'[Len(line) + 1] = a
    BY <1>2, <2>1
  <2> QED BY <2>2 DEF Among
<1>3. CASE a \in Callers
  <2>1. At[a] = call[a].at /\ At'[a] = call'[a].at
    BY <1>3 DEF At
  <2>2. CASE OwnStep(a)
    <3>1. ComesIn(a)
      BY <1>3, <2>1, <2>2, CallerActs DEF OwnStep, Awaits, Writes, Finds, GivesUp, Asked, Ended
    <3> QED BY <1>2, <3>1 DEF ComesIn
  <2>3. CASE ~OwnStep(a)
    BY <1>1, <1>3, <2>1, <2>3, LineAfter
  <2> QED BY <2>2, <2>3
<1>4. CASE a \notin Callers
  <2>1. a \in Generations /\ At[a] = worker[a].at /\ At'[a] = worker'[a].at
    BY <1>4 DEF At, Actors
  <2>2. CASE OwnStep(a)
    <3>1. LinesUp(a)
      BY <1>4, <2>1, <2>2, WorkerActs DEF OwnStep, Looks, Corrects, Quits, Vanishes
    <3> QED BY <1>2, <3>1 DEF LinesUp
  <2>3. CASE ~OwnStep(a)
    <3>1. At[a] = "queued"
      BY <1>4, <2>1, <2>3, WorkerWays DEF OwnStep
    <3> QED BY <1>1, <2>3, <3>1
  <2> QED BY <2>2, <2>3
<1> QED BY <1>3, <1>4

LEMMA LivesOn == Spec => []LiveInv
<1>1. Init => AlignInv /\ WaitInv /\ QueuedInv
  <2> SUFFICES ASSUME Init PROVE AlignInv /\ WaitInv /\ QueuedInv
    OBVIOUS
  <2>1. \A a \in Actors : At[a] \in {"idle", "none"}
    BY DEF Init, At, Actors, Unborn
  <2> QED BY <2>1, AlignInitially DEF Init, WaitInv, QueuedInv
<1>2. PumpInv /\ TypeOK' /\ AlignInv /\ [Next]_vars => AlignInv'
  BY AlignStep DEF Align1
<1>3. PumpInv /\ PumpInv' /\ TypeOK' /\ AlignInv /\ WaitInv /\ [Next]_vars => WaitInv'
  <2>1. PumpInv' => WorkersOK'
    BY DEF PumpInv
  <2> QED BY <2>1, AlignStep, WaitStep
<1>4. PumpInv /\ PumpInv' /\ AlignInv /\ QueuedInv /\ [Next]_vars => QueuedInv'
  BY QueuedStep
<1> QED BY <1>1, <1>2, <1>3, <1>4, PumpCorrect, PumpTypes, PTL DEF Spec, LiveInv

Steps(a) == IF a \in Callers THEN CallerStep(a) ELSE WorkerStep(a)
IsOut(a) == IF a \in Callers THEN call[a].at \in Ended ELSE worker[a].at \in {"watching", "done"}

\* The holder of the lock gets nearer to letting go of it, and is out of the
\* line when it does.
LEMMA HolderGoesOn ==
  ASSUME LiveInv, LiveInv', [Next]_vars, NEW a \in Actors, Holds(a)
  PROVE  /\ Rank(a) \in 1..6
         /\ Holds(a)' => Rank(a)' <= Rank(a)
         /\ ~Holds(a)' => IsOut(a)'
         /\ Steps(a) /\ Holds(a)' => Rank(a)' < Rank(a)
<1>0. /\ PumpInv /\ PumpInv' /\ AlignInv /\ OneEach(line)
      /\ line # <<>> /\ line[1] = a /\ Among(line, a) /\ At[a] \in Lining
  BY LineNow DEF LiveInv
<1>1. ASSUME ~Among(line', a) PROVE ~Holds(a)'
  <2>1. line' \in Seq(Actors)
    BY DEF LiveInv, PumpInv, Fits
  <2>2. line' # <<>> => Head(line') = line'[1] /\ 1 \in 1..Len(line')
    BY <2>1
  <2> QED BY <1>1, <2>2 DEF Holds, Among
<1>2. ASSUME line' = Tail(line) \/ line' = Without(line, a) PROVE ~Holds(a)'
  BY <1>0, <1>1, <1>2, GoneAfter DEF ComesOrGoes
<1>3. ~OwnStep(a) => Holds(a)'
  BY <1>0, LineAfter
<1>4. line' = line => Holds(a)'
  BY DEF Holds
<1>5. CASE a \in Callers
  <2>1. At[a] = call[a].at /\ call[a].at \in CallPoints /\ call[a].at \in {"queued", "dropping"} \cup Asked
    BY <1>0, <1>5 DEF At, PumpInv, CallsOK, CallOK, Lining, CallPoints, Asked
  <2>2. Rank(a) \in 1..6 /\ Rank(a) = CallRank(call[a]) /\ Rank(a)' = CallRank(call'[a])
    BY <1>5, <2>1 DEF Rank, CallRank, Asked
  <2>3. CASE ~OwnStep(a)
    <3>1. call'[a] = call[a] /\ ~Steps(a)
      BY <1>0, <1>5, <2>3, LineAfter DEF OwnStep, Steps
    <3> QED BY <1>3, <2>2, <2>3, <3>1
  <2>4. CASE Awaits(a)
    <3>1. CallRank(call'[a]) = 5 /\ CallRank(call[a]) = 6 /\ line' = line
      BY <2>1, <2>4 DEF Awaits, CallRank, Asked
    <3> QED BY <1>4, <2>2, <3>1
  <2>5. CASE Writes(a)
    BY <1>4, <2>2, <2>5 DEF Writes, CallRank
  <2>6. CASE Finds(a) \/ GivesUp(a)
    <3>1. ~Holds(a)' /\ IsOut(a)'
      BY <1>2, <1>5, <2>6 DEF Finds, GivesUp, IsOut, Ended
    <3> QED BY <2>2, <3>1
  <2>7. ~ComesIn(a)
    BY <1>0 DEF ComesIn
  <2> QED BY <1>0, <1>5, <2>3, <2>4, <2>5, <2>6, <2>7, CallerActs DEF OwnStep
<1>6. CASE a \notin Callers
  <2>1. /\ a \in Generations /\ At[a] = worker[a].at
        /\ worker[a].at \in {"queued", "sent", "unwinding"}
    <3>1. a \in Generations /\ At[a] = worker[a].at /\ worker[a].at \in WorkPoints
      BY <1>0, <1>6 DEF At, Actors, PumpInv, WorkersOK, WorkerOK
    <3> QED BY <1>0, <3>1 DEF Lining, WorkPoints
  <2>2. Rank(a) \in 1..6 /\ Rank(a) = WorkRank(worker[a]) /\ Rank(a)' = WorkRank(worker'[a])
    BY <1>6, <2>1 DEF Rank, WorkRank
  <2>3. CASE ~OwnStep(a)
    <3>1. ~Steps(a) /\ (worker'[a].at = worker[a].at \/ worker'[a].at = "unwinding")
      BY <1>0, <1>6, <2>1, <2>3, WorkerWays DEF OwnStep, Steps
    <3>2. Rank(a)' <= Rank(a)
      BY <2>1, <2>2, <3>1 DEF WorkRank
    <3> QED BY <1>3, <2>2, <2>3, <3>1, <3>2
  <2>4. CASE Corrects(a)
    <3>1. WorkRank(worker'[a]) = 2 /\ WorkRank(worker[a]) = 3 /\ line' = line
      BY <2>4 DEF Corrects, WorkRank
    <3> QED BY <1>4, <2>2, <3>1
  <2>5. CASE Quits(a) \/ Vanishes(a)
    <3>1. ~Holds(a)' /\ IsOut(a)'
      BY <1>2, <1>6, <2>5 DEF Quits, Vanishes, IsOut
    <3> QED BY <2>2, <3>1
  <2>6. ~LinesUp(a) /\ ~Looks(a)
    BY <2>1 DEF LinesUp, Looks
  <2> QED BY <1>6, <2>1, <2>3, <2>4, <2>5, <2>6, <1>0, WorkerActs DEF OwnStep
<1> QED BY <1>5, <1>6

\* Leaving the line is getting out of it.
LEMMA LeavesOut ==
  ASSUME LiveInv, LiveInv', [Next]_vars, NEW a \in Actors, Among(line, a), ~Among(line', a)
  PROVE  IsOut(a)'
<1>0. PumpInv /\ PumpInv'
  BY DEF LiveInv
<1>1. OwnStep(a) /\ line' # line
  BY <1>0, LineAfter
<1>2. CASE a \in Callers
  BY <1>0, <1>1, <1>2, CallerActs
  DEF OwnStep, ComesIn, Awaits, Writes, Finds, GivesUp, IsOut, Ended
<1>3. CASE a \notin Callers
  <2>1. a \in Generations
    BY <1>3 DEF Actors
  <2> QED BY <1>0, <1>1, <1>3, <2>1, WorkerActs
          DEF OwnStep, Looks, LinesUp, Corrects, Quits, Vanishes, IsOut
<1> QED BY <1>2, <1>3

AtRank(a, n) == Holds(a) /\ Rank(a) = n
Below(a, n) == ~Holds(a) \/ Rank(a) < n

WorkerIs(g, at) == worker[g].at = at
CallIs(c, at) == call[c].at = at
WaitsFor(c, g) == call[c].at = "dropping" /\ call[c].waits = g

\* A cancelled worker goes on to its end only, and stays there.
LEMMA WorkerStays ==
  ASSUME LiveInv, LiveInv', [Next]_vars, NEW g \in Generations
  PROVE  /\ WorkerIs(g, "done") => WorkerIs(g, "done")'
         /\ WorkerIs(g, "unwinding") => (WorkerIs(g, "unwinding") \/ WorkerIs(g, "done"))'
         /\ WorkerIs(g, "unwinding") /\ WorkerStep(g) => WorkerIs(g, "done")'
         /\ ~WorkerIs(g, "none") => ~WorkerIs(g, "none")'
         /\ Expires(g) => WorkerIs(g, "done")'
<1>1. /\ WorkerStep(g) => Looks(g) \/ LinesUp(g) \/ Corrects(g) \/ Quits(g) \/ Vanishes(g)
      /\ Expires(g) => Looks(g) /\ worker'[g].at = "done"
  BY WorkerActs DEF LiveInv
<1>2. \/ WorkerStep(g) \/ Expires(g)
      \/ worker'[g].at = worker[g].at
      \/ worker[g].at = "none" /\ worker'[g].at = "watching"
      \/ worker[g].at \in Live /\ worker'[g].at = "unwinding"
  BY WorkerWays DEF LiveInv
<1> QED BY <1>1, <1>2 DEF Looks, LinesUp, Corrects, Quits, Vanishes, WorkerIs, Live

\* A caller that waits for a worker waits for that one till it goes on.
LEMMA CallerWaits ==
  ASSUME LiveInv, LiveInv', [Next]_vars, NEW c \in Callers, NEW g \in Generations, WaitsFor(c, g)
  PROVE  /\ WaitsFor(c, g)' \/ ~CallIs(c, "dropping")'
         /\ CallerStep(c) => ~CallIs(c, "dropping")'
<1>1. c \in Actors /\ PumpInv /\ PumpInv'
  BY DEF Actors, LiveInv
<1>2. CallerStep(c) \/ CancelCall(c) => ~CallIs(c, "dropping")'
  BY <1>1, CallerActs
  DEF ComesIn, Awaits, Writes, Finds, GivesUp, CallIs, WaitsFor, Asked, Ended
<1>3. ~(CallerStep(c) \/ CancelCall(c)) => call'[c] = call[c]
  BY <1>1, LineAfter DEF OwnStep
<1> QED BY <1>2, <1>3 DEF WaitsFor

\* How a behaviour runs on from any of its states. Fairness is about what
\* happens for ever, so it holds from there on as it does from the beginning.
Runs == [][Next]_vars /\ []LiveInv /\ []ActorsCanStep /\ []Fairness

ComesToEnd(g) == WorkerIs(g, "unwinding") ~> WorkerIs(g, "done")
Resumes(c) == CallIs(c, "dropping") ~> ~CallIs(c, "dropping")
Falls(a, n) == AtRank(a, n) ~> Below(a, n)
LetsGo(a) == Holds(a) ~> ~Holds(a)

LEMMA WorkerUnwinds ==
  ASSUME NEW g \in Generations
  PROVE  Runs => ComesToEnd(g)
<1>1. LiveInv /\ LiveInv' /\ [Next]_vars =>
        /\ WorkerIs(g, "unwinding") => (WorkerIs(g, "unwinding") \/ WorkerIs(g, "done"))'
        /\ WorkerIs(g, "unwinding") /\ WorkerStep(g) => WorkerIs(g, "done")'
  BY WorkerStays
<1>2. ActorsCanStep => (WorkerIs(g, "unwinding") => ENABLED <<WorkerStep(g)>>_vars)
  BY Zenon DEF ActorsCanStep, WorkerIs
<1>3. Fairness => FairWorker(g)
  BY DEF Fairness
<1> QED BY <1>1, <1>2, <1>3, PTL DEF Runs, FairWorker, ComesToEnd

\* Whoever waits for the worker that it cancelled goes on.
LEMMA WaitEnds ==
  ASSUME NEW c \in Callers
  PROVE  Runs => Resumes(c)
<1>1. ASSUME NEW g \in Generations
      PROVE  Runs => (LiveInv /\ WaitsFor(c, g) => <>~CallIs(c, "dropping"))
  <2>1. LiveInv /\ LiveInv' /\ [Next]_vars =>
          /\ WaitsFor(c, g) => (WaitsFor(c, g) \/ ~CallIs(c, "dropping"))'
          /\ WaitsFor(c, g) /\ CallerStep(c) => ~CallIs(c, "dropping")'
          /\ WorkerIs(g, "done") => WorkerIs(g, "done")'
    BY CallerWaits, WorkerStays
  <2>2. LiveInv /\ WaitsFor(c, g) => WorkerIs(g, "unwinding") \/ WorkerIs(g, "done")
    BY DEF LiveInv, WaitInv, WaitsFor, WorkerIs
  <2>3. ActorsCanStep =>
          (WaitsFor(c, g) /\ WorkerIs(g, "done") => ENABLED <<CallerStep(c)>>_vars)
    BY Zenon DEF ActorsCanStep, WaitsFor, WorkerIs
  <2>4. Fairness => FairCaller(c)
    BY DEF Fairness
  <2>5. Runs => ComesToEnd(g)
    BY WorkerUnwinds
  <2> QED BY <2>1, <2>2, <2>3, <2>4, <2>5, PTL DEF Runs, FairCaller, ComesToEnd
<1>2. Runs => \A g \in Generations : LiveInv /\ WaitsFor(c, g) => <>~CallIs(c, "dropping")
  BY <1>1
<1>3. LiveInv /\ CallIs(c, "dropping") => \E g \in Generations : LiveInv /\ WaitsFor(c, g)
  BY DEF LiveInv, WaitInv, WaitsFor, CallIs
<1>4. Runs => (LiveInv /\ CallIs(c, "dropping") => <>~CallIs(c, "dropping"))
  BY <1>2, <1>3
<1>5. Runs => []Runs /\ []LiveInv
  BY PTL DEF Runs
<1> QED BY <1>4, <1>5, PTL DEF Resumes

\* Who holds the lock can go on; only a caller of rank 5 waits for a worker.
LEMMA CallerCan ==
  ASSUME LiveInv, ActorsCanStep, NEW c \in Callers, NEW n \in 1..6, AtRank(c, n)
  PROVE  /\ CallIs(c, "dropping") <=> n = 5
         /\ n # 5 => ENABLED <<CallerStep(c)>>_vars
<1>1. CallIs(c, "dropping") <=> n = 5
  <2>1. n = CallRank(call[c])
    BY DEF AtRank, Rank
  <2> QED BY <2>1 DEF CallRank, CallIs
<1>2. n # 5 => ENABLED <<CallerStep(c)>>_vars
  BY Zenon, <1>1 DEF ActorsCanStep, AtRank, CallIs
<1> QED BY <1>1, <1>2

\* A holder of the lock comes nearer to letting go of it.
LEMMA RankFalls ==
  ASSUME NEW a \in Actors, NEW n \in 1..6
  PROVE  Runs => Falls(a, n)
<1>1. ASSUME NEW h \in Actors
      PROVE  LiveInv /\ LiveInv' /\ [Next]_vars =>
               /\ AtRank(h, n) => (AtRank(h, n) \/ Below(h, n))'
               /\ AtRank(h, n) /\ Steps(h) => Below(h, n)'
  <2> SUFFICES ASSUME LiveInv, LiveInv', [Next]_vars, AtRank(h, n)
               PROVE  /\ (AtRank(h, n) \/ Below(h, n))'
                      /\ Steps(h) => Below(h, n)'
    OBVIOUS
  <2>1. /\ Rank(h) = n
        /\ Holds(h)' => Rank(h)' <= Rank(h)
        /\ Steps(h) /\ Holds(h)' => Rank(h)' < Rank(h)
    BY HolderGoesOn DEF AtRank
  <2>2. Rank(h)' \in Nat
    BY DEF Rank, CallRank, WorkRank
  <2>3. Holds(h)' => Rank(h)' = n \/ Rank(h)' < n
    BY <2>1, <2>2
  <2> QED BY <2>1, <2>3 DEF AtRank, Below
<1>2. ASSUME NEW c \in Callers PROVE Runs => Falls(c, n)
  <2>1. LiveInv /\ LiveInv' /\ [Next]_vars =>
          /\ AtRank(c, n) => (AtRank(c, n) \/ Below(c, n))'
          /\ AtRank(c, n) /\ CallerStep(c) => Below(c, n)'
    BY <1>1 DEF Actors, Steps
  <2>2. CASE n = 5
    <3>1. LiveInv /\ ActorsCanStep => (AtRank(c, n) => CallIs(c, "dropping"))
      BY <2>2, CallerCan
    <3>2. Runs => Resumes(c)
      BY WaitEnds
    <3> QED BY <2>1, <3>1, <3>2, PTL DEF Runs, Resumes, Falls
  <2>3. CASE n # 5
    <3>1. LiveInv /\ ActorsCanStep => (AtRank(c, n) => ENABLED <<CallerStep(c)>>_vars)
      BY <2>3, CallerCan
    <3>2. Fairness => FairCaller(c)
      BY DEF Fairness
    <3> QED BY <2>1, <3>1, <3>2, PTL DEF Runs, FairCaller, Falls
  <2> QED BY <2>2, <2>3
<1>3. ASSUME NEW g \in Generations, g \notin Callers PROVE Runs => Falls(g, n)
  <2>1. LiveInv /\ LiveInv' /\ [Next]_vars =>
          /\ AtRank(g, n) => (AtRank(g, n) \/ Below(g, n))'
          /\ AtRank(g, n) /\ WorkerStep(g) => Below(g, n)'
    BY <1>1, <1>3 DEF Actors, Steps
  <2>2. ActorsCanStep => (AtRank(g, n) => ENABLED <<WorkerStep(g)>>_vars)
    BY Zenon DEF ActorsCanStep, AtRank
  <2>3. Fairness => FairWorker(g)
    BY DEF Fairness
  <2> QED BY <2>1, <2>2, <2>3, PTL DEF Runs, FairWorker, Falls
<1> QED BY <1>2, <1>3 DEF Actors

\* Nobody keeps the lock.
LEMMA HolderLetsGo ==
  ASSUME NEW a \in Actors
  PROVE  Runs => LetsGo(a)
<1>1. LiveInv /\ LiveInv' /\ [Next]_vars =>
        (Holds(a) => \/ AtRank(a, 1) \/ AtRank(a, 2) \/ AtRank(a, 3)
                     \/ AtRank(a, 4) \/ AtRank(a, 5) \/ AtRank(a, 6))
  BY HolderGoesOn DEF AtRank
<1>2. LiveInv /\ LiveInv' /\ [Next]_vars =>
        /\ Below(a, 1) => ~Holds(a)
        /\ Below(a, 2) => ~Holds(a) \/ AtRank(a, 1)
        /\ Below(a, 3) => ~Holds(a) \/ AtRank(a, 1) \/ AtRank(a, 2)
        /\ Below(a, 4) => ~Holds(a) \/ AtRank(a, 1) \/ AtRank(a, 2) \/ AtRank(a, 3)
        /\ Below(a, 5) => ~Holds(a) \/ AtRank(a, 1) \/ AtRank(a, 2) \/ AtRank(a, 3) \/ AtRank(a, 4)
        /\ Below(a, 6) => \/ ~Holds(a) \/ AtRank(a, 1) \/ AtRank(a, 2) \/ AtRank(a, 3)
                          \/ AtRank(a, 4) \/ AtRank(a, 5)
  BY HolderGoesOn DEF AtRank, Below
<1>3. /\ Runs => Falls(a, 1)
      /\ Runs => Falls(a, 2)
      /\ Runs => Falls(a, 3)
      /\ Runs => Falls(a, 4)
      /\ Runs => Falls(a, 5)
      /\ Runs => Falls(a, 6)
  <2>1. 1 \in 1..6 /\ 2 \in 1..6 /\ 3 \in 1..6 /\ 4 \in 1..6 /\ 5 \in 1..6 /\ 6 \in 1..6
    OBVIOUS
  <2> QED BY Zenon, <2>1, RankFalls
<1> QED BY <1>1, <1>2, <1>3, PTL DEF Runs, Falls, LetsGo

LEMMA BehaviourRuns == Spec /\ []Fairness /\ []ActorsCanStep => Runs
  BY LivesOn, PTL DEF Spec, Runs

MovesUp(a, n) == Stands(a, n) ~> IsFurther(a, n)

\* When the holder lets go of the lock, everyone behind it moves up by one.
LEMMA PlaceMovesUp ==
  ASSUME NEW a \in Actors, NEW n \in 2..Cardinality(Actors)
  PROVE  Runs => MovesUp(a, n)
<1>1. ASSUME NEW h \in Actors
      PROVE  Runs => (LiveInv /\ Stands(a, n) /\ Holds(h) => <>IsFurther(a, n))
  <2>1. LiveInv /\ LiveInv' /\ [Next]_vars =>
          /\ Stands(a, n) => (Stands(a, n) \/ IsFurther(a, n))'
          /\ Stands(a, n) /\ Holds(h) /\ ~Holds(h)' => IsFurther(a, n)'
    <3> SUFFICES ASSUME LiveInv, LiveInv', [Next]_vars, Stands(a, n)
                 PROVE  /\ (Stands(a, n) \/ IsFurther(a, n))'
                        /\ Holds(h) /\ ~Holds(h)' => IsFurther(a, n)'
      OBVIOUS
    <3>0. PumpInv /\ PumpInv' /\ n \in 1..Len(line) /\ line[n] = a /\ Len(line) \in Nat /\ n \in Nat
      BY LineNow DEF LiveInv, Stands
    <3>1. ~Among(line', a) \/ \E m \in 1..Len(line') : m <= n /\ line'[m] = a
      BY <3>0, LineAfter
    <3>2. ~Among(line', a) => IsFurther(a, n)'
      BY DEF Among, IsFurther, InTheLine
    <3>3. ASSUME NEW m \in 1..Len(line'), m <= n, line'[m] = a
          PROVE  (Stands(a, n) \/ IsFurther(a, n))'
      <4>1. m = n \/ m \in 1..(n - 1)
        BY <3>0, <3>3
      <4> QED BY <3>3, <4>1 DEF Stands, IsFurther
    <3>4. Holds(h) /\ ~Holds(h)' => IsFurther(a, n)'
      <4> SUFFICES ASSUME Holds(h), ~Holds(h)' PROVE IsFurther(a, n)'
        OBVIOUS
      <4>1. n \in 2..Len(line) /\ n - 1 \in 1..(n - 1)
        BY <3>0
      <4>2. n - 1 \in 1..Len(line') /\ line'[n - 1] = a
        BY <3>0, <4>1, LineAfter
      <4> QED BY <4>1, <4>2 DEF Stands, IsFurther
    <3> QED BY <3>1, <3>2, <3>3, <3>4
  <2>2. Runs => LetsGo(h)
    BY HolderLetsGo
  <2> QED BY <2>1, <2>2, PTL DEF Runs, LetsGo
<1>2. Runs => \A h \in Actors : LiveInv /\ Stands(a, n) /\ Holds(h) => <>IsFurther(a, n)
  BY <1>1
<1>3. LiveInv /\ Stands(a, n) => \E h \in Actors : LiveInv /\ Stands(a, n) /\ Holds(h)
  <2> SUFFICES ASSUME LiveInv, Stands(a, n) PROVE \E h \in Actors : Holds(h)
    OBVIOUS
  <2>1. line \in Seq(Actors) /\ n \in 1..Len(line)
    BY DEF LiveInv, TypeOK, Stands
  <2>2. line # <<>> /\ Head(line) \in Actors
    BY <2>1
  <2> QED BY <2>2 DEF Holds
<1>4. Runs => (LiveInv /\ Stands(a, n) => <>IsFurther(a, n))
  BY <1>2, <1>3
<1>5. Runs => []Runs /\ []LiveInv
  BY PTL DEF Runs
<1> QED BY <1>4, <1>5, PTL DEF MovesUp

\* LineMovesUp for any number of callers, if the steps that ActorsCanStep names
\* can be taken and the tasks that can run do run: the lock is handed on.
THEOREM LineGoesOn == Spec /\ []Fairness /\ []ActorsCanStep => LineMovesUp
<1>1. Runs => \A a \in Actors, n \in 2..Cardinality(Actors) : MovesUp(a, n)
  BY PlaceMovesUp
<1> QED BY <1>1, BehaviourRuns DEF LineMovesUp, MovesUp

\* Whoever moves up from every place gets through the line in the end: the
\* places are numbers, so this is induction on the place, which holds in every
\* behaviour but which the provers cannot do on temporal formulas.
PlacesCountDown == LineMovesUp => LineGetsThrough

GetsOut(a) == InTheLine(a) ~> IsOut(a)

\* Whoever is in the line gets the lock, lets go of it, and is out.
LEMMA LineIsLeft ==
  ASSUME NEW a \in Actors
  PROVE  Runs /\ GetsThrough(a) => GetsOut(a)
<1>1. LiveInv /\ LiveInv' /\ [Next]_vars =>
        /\ InTheLine(a) => (InTheLine(a) \/ IsOut(a))'
        /\ Holds(a) => (Holds(a) \/ IsOut(a))'
  BY LeavesOut, HolderGoesOn DEF InTheLine, Among
<1>2. Runs => LetsGo(a)
  BY HolderLetsGo
<1> QED BY <1>1, <1>2, PTL DEF Runs, GetsThrough, GetsOut, LetsGo

CommandEnds(c) == call[c].at = "queued" ~> call[c].at \in {"ok", "failed", "idle"}
WorkerEnded(g) == worker[g].at # "none" ~> worker[g].at = "done"

LEMMA CommandIsOver ==
  ASSUME NEW c \in Callers
  PROVE  Runs /\ GetsThrough(c) => CommandEnds(c)
<1>1. LiveInv => (call[c].at = "queued" => InTheLine(c))
  BY DEF LiveInv, QueuedInv, At, Actors, Among, InTheLine
<1>2. IsOut(c) => call[c].at \in {"ok", "failed", "idle"}
  BY DEF IsOut, Ended
<1>3. Runs /\ GetsThrough(c) => GetsOut(c)
  BY LineIsLeft DEF Actors
<1> QED BY <1>1, <1>2, <1>3, PTL DEF Runs, GetsOut, CommandEnds

LEMMA WorkerIsOver ==
  ASSUME NEW g \in Generations
  PROVE  Runs /\ GetsThrough(g) => WorkerEnded(g)
<1>0. g \in Actors /\ g \notin Callers
  BY NobodyIsZero DEF Actors
<1>1. LiveInv /\ LiveInv' /\ [Next]_vars =>
        /\ WorkerIs(g, "done") => WorkerIs(g, "done")'
        /\ ~WorkerIs(g, "none") => ~WorkerIs(g, "none")'
        /\ Expires(g) => WorkerIs(g, "done")'
  BY WorkerStays
<1>2. LiveInv => \/ WorkerIs(g, "none") \/ WorkerIs(g, "watching") \/ WorkerIs(g, "unwinding")
                 \/ WorkerIs(g, "done") \/ InTheLine(g)
  <2> SUFFICES ASSUME LiveInv
               PROVE  \/ WorkerIs(g, "none") \/ WorkerIs(g, "watching") \/ WorkerIs(g, "unwinding")
                      \/ WorkerIs(g, "done") \/ InTheLine(g)
    OBVIOUS
  <2>1. At[g] = worker[g].at /\ worker[g].at \in WorkPoints
    BY LineNow DEF LiveInv, TypeOK
  <2>2. At[g] \in {"queued", "sent"} => Among(line, g)
    BY <1>0, LineNow DEF LiveInv, QueuedInv, Asked
  <2> QED BY <2>1, <2>2 DEF WorkPoints, WorkerIs, InTheLine, Among
<1>3. IsOut(g) => WorkerIs(g, "watching") \/ WorkerIs(g, "done")
  BY <1>0 DEF IsOut, WorkerIs
<1>4. ActorsCanStep => (WorkerIs(g, "watching") => ENABLED <<Expires(g)>>_vars)
  BY Zenon DEF ActorsCanStep, WorkerIs
<1>5. Fairness => FairWorker(g)
  BY DEF Fairness
<1>6. Runs => ComesToEnd(g)
  BY WorkerUnwinds
<1>7. Runs /\ GetsThrough(g) => GetsOut(g)
  BY <1>0, LineIsLeft
<1>8. /\ worker[g].at # "none" <=> ~WorkerIs(g, "none")
      /\ worker[g].at = "done" <=> WorkerIs(g, "done")
  BY DEF WorkerIs
<1> QED BY <1>1, <1>2, <1>3, <1>4, <1>5, <1>6, <1>7, <1>8, PTL
        DEF Runs, FairWorker, ComesToEnd, GetsOut, WorkerEnded

\* TasksEnd for any number of callers, on the same conditions: every command
\* that waits for the lock is answered, and every worker ends.
THEOREM EverybodyEnds ==
  Spec /\ []Fairness /\ []ActorsCanStep /\ PlacesCountDown => TasksEnd
<1>1. Spec /\ []Fairness /\ []ActorsCanStep /\ PlacesCountDown => Runs /\ LineGetsThrough
  BY BehaviourRuns, LineGoesOn DEF PlacesCountDown
<1>2. LineGetsThrough => /\ \A c \in Callers : GetsThrough(c)
                         /\ \A g \in Generations : GetsThrough(g)
  BY DEF LineGetsThrough, Actors
<1>3. Runs /\ (\A c \in Callers : GetsThrough(c)) => \A c \in Callers : CommandEnds(c)
  BY CommandIsOver
<1>4. Runs /\ (\A g \in Generations : GetsThrough(g)) => \A g \in Generations : WorkerEnded(g)
  BY WorkerIsOver
<1> QED BY <1>1, <1>2, <1>3, <1>4 DEF TasksEnd, CommandsEnd, WorkersEnd, CommandEnds, WorkerEnded

-----------------------------------------------------------------------------
(* What is left of NewerCommandCancels, which the code does not keep.      *)

\* README.md: such commands cancel pending alignment. A command that is called
\* when the worker is already pending does: whatever was pending is disowned at
\* the call, and a worker that was disowned is never owned again and never
\* writes. So an older target is written only by a startup that was still
\* running when the newer command was called.
LaterCommandsCancel ==
  [][/\ \A c \in Callers :
          Call(c) /\ CancelsFirst(call[c].kind, call[c].value) => current' = 0
     /\ \A g \in Generations :
          g <= gen /\ g # current => g <= gen' /\ g # current' /\ ~Aligns(g)]_vars

\* The owner changes to nobody, or to the worker of a new generation.
LEMMA OwnerWays ==
  ASSUME PumpInv, [Next]_vars
  PROVE  \/ UNCHANGED <<current, gen>>
         \/ current' = 0 /\ gen' = gen
         \/ current' = gen + 1 /\ gen' = gen + 1
<1> DEFINE Goal == \/ UNCHANGED <<current, gen>>
                   \/ current' = 0 /\ gen' = gen
                   \/ current' = gen + 1 /\ gen' = gen + 1
<1>1. ASSUME NEW c \in Callers, Ends(c) \/ Sends(c) PROVE Goal
  BY <1>1 DEF Ends, End, Schedule, Overtake, Sends, work
<1>2. ASSUME NEW c \in Callers, CallerStep(c) \/ CancelCall(c) PROVE Goal
  <2>1. ASSUME NEW was, NEW r, First(c, was, r) \/ Confirmation(c, r) PROVE Goal
    <3> HIDE DEF Goal
    <3> QED BY <1>1, <2>1, GoesOn
  <2>2. ASSUME End(c, FALSE, FALSE) PROVE Goal
    BY <2>2 DEF End, Overtake
  <2>3. ASSUME Drop(c) PROVE Goal
    BY <2>3 DEF Drop
  <2>4. ASSUME UNCHANGED work PROVE Goal
    BY <2>4 DEF work
  <2> HIDE DEF Goal
  <2> QED BY <1>2, <2>1, <2>2, <2>3, <2>4
          DEF CallerStep, Call, Queue, Dropped, Enter, Proceed, Confirmed, SendFails,
              TimesOut, Refresh, CancelCall
<1>3. ASSUME NEW g \in Generations, WorkerStep(g) \/ Expires(g) PROVE Goal
  <2>1. ASSUME NEW result, Finishes(g, result) PROVE Goal
    BY <2>1 DEF Finishes
  <2>2. ASSUME NEW w, Becomes(g, w) PROVE Goal
    BY <2>2 DEF Becomes
  <2>3. Unwind(g) => Goal
    BY DEF Unwind
  <2> HIDE DEF Goal
  <2> QED BY <1>3, <2>1, <2>2, <2>3
          DEF WorkerStep, Expires, Wake, Locked, Align, Aligned, AlignFails
<1>4. ASSUME \/ \E part \in Parts : Reported(part)
             \/ Report \/ Read \/ Merge
             \/ \E v \in echoes : Desired(v)
             \/ \E m \in wire : Execute(m)
             \/ \E t \in Touches : Touch(t)
             \/ Motor \/ Disconnect \/ Reconnect \/ Stop \/ UNCHANGED vars
      PROVE  Goal
  BY <1>4 DEF Reported, Report, Read, Merge, Desired, Execute, Touch, Motor, Disconnect,
          Reconnect, Stop, vars, work
<1> HIDE DEF Goal
<1>5. Goal
  BY <1>2, <1>3, <1>4 DEF Next
<1> QED BY <1>5 DEF Goal

\* LaterCommandsCancel for any callers and commands: how far the finding about
\* NewerCommandCancels reaches.
THEOREM LaterCommandsDoCancel == Spec => LaterCommandsCancel
<1>1. PumpInv /\ [Next]_vars =>
        [/\ \A c \in Callers :
              Call(c) /\ CancelsFirst(call[c].kind, call[c].value) => current' = 0
         /\ \A g \in Generations :
              g <= gen /\ g # current => g <= gen' /\ g # current' /\ ~Aligns(g)]_vars
  <2> SUFFICES ASSUME PumpInv, [Next]_vars
               PROVE  /\ \A c \in Callers :
                           Call(c) /\ CancelsFirst(call[c].kind, call[c].value) => current' = 0
                      /\ \A g \in Generations :
                           g <= gen /\ g # current => g <= gen' /\ g # current' /\ ~Aligns(g)
    OBVIOUS
  <2>1. ASSUME NEW c \in Callers, Call(c), CancelsFirst(call[c].kind, call[c].value)
        PROVE  current' = 0
    BY <2>1 DEF Call, Drop, Queue, work
  <2>2. ASSUME NEW g \in Generations, g <= gen, g # current
        PROVE  g <= gen' /\ g # current' /\ ~Aligns(g)
    <3>1. gen \in Nat /\ g \in Nat /\ g >= 1
      BY Bounds
    <3>2. ~Aligns(g)
      <4>1. UNCHANGED vars => ~Aligns(g)
        BY Bounds DEF vars, work, Aligns, WorkerOK
      <4> QED BY <2>2, <4>1, OwnersAlign
    <3> QED BY <2>2, <3>1, <3>2, OwnerWays
  <2> QED BY <2>1, <2>2
<1> QED BY <1>1, PumpCorrect, PTL DEF Spec, LaterCommandsCancel
=============================================================================
