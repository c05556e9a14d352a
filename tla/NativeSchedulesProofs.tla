------------------------ MODULE NativeSchedulesProofs ------------------------
(***************************************************************************)
(* Proofs about NativeSchedules: rules and trace leave the transaction as  *)
(* it is, so that its theorems hold here too; accepted plans keep schedules*)
(* apart; and the trace credits only settled operations.                   *)
(***************************************************************************)
EXTENDS NativeSchedules, ScheduleTxnProofs, ScheduleRulesProofs

USE ScheduleAssumption, NativeAssumption

\* The composition is the transaction with two variables more: every one of
\* its behaviours is a behaviour of ScheduleTxn.
THEOREM NativeIsTransaction == NativeSpec => Spec
<1>1. NativeInit => Init
  BY DEF NativeInit
<1>2. [NativeNext]_nativeVars => [Next]_vars
  BY DEF NativeNext, NativeReceive, NativeRestReceive, NativeCallStep, UntracedCallStep,
         NativePreviewReturns, NativeReadback, NativeLatchLifted, UntracedStep, NativeCrash,
         Next, Calls, CallStep, Environment, nativeVars
<1> QED BY <1>1, <1>2, PTL DEF NativeSpec, Spec

\* Rules and trace take nothing from the transaction: journal, latch, fresh
\* tables and confirmation are what they are without them.
THEOREM NativeKeepsPromises ==
  NativeSpec => /\ []WriteAhead /\ []LatchSeen /\ LatchKept /\ LatchPromise
                /\ SendOnFreshTable /\ ConfirmedTable
  BY NativeIsTransaction, JournalWrittenAhead, UncertainIsLatched, LatchIsKept, Refinement,
     SentOnHeldTable, ConfirmedWasHeld

\* What a plan looks like that async_preview has put together.
Drafted(plan) ==
  /\ plan \in PlanRecords
  /\ plan.operation = "delete" <=> plan.after = NoEntry
  /\ plan.operation = "disable" => ~plan.after.en
  /\ plan.operation = "create" => plan.slot = NoSlot
  /\ plan.operation # "create" => plan.slot \in Slots

PlansAccepted ==
  \A p \in Plans : plans[p] # NoPlan => Drafted(plans[p]) /\ Accepted(plans[p], NoEntry)

LEMMA DraftShape ==
  ASSUME NEW table \in Tables, NEW d \in Drafts(table)
  PROVE  Drafted(d)
<1> DEFINE filled == {s \in Slots : table[s] # NoEntry}
<1>1. d \in PlanRecords
  BY DraftType
<1>2. \A s \in filled : table[s] \in Entries
  BY DEF Tables
<1>3. \A s \in filled, b \in BOOLEAN :
        [table[s] EXCEPT !.en = b] \in Entries /\ [table[s] EXCEPT !.en = b].en = b
  BY <1>2
<1>4. CASE \E e \in Entries : d = Plan("create", NoSlot, table, e)
  BY <1>1, <1>4 DEF Plan, Drafted
<1>5. CASE \E s \in filled, e \in Entries : d = Plan("update", s, table, e)
  BY <1>1, <1>5 DEF Plan, Drafted
<1>6. CASE \E s \in filled : d = Plan("delete", s, table, NoEntry)
  BY <1>1, <1>6 DEF Plan, Drafted
<1>7. CASE \E s \in filled : d = Plan("enable", s, table, [table[s] EXCEPT !.en = TRUE])
  <2>1. PICK s \in filled : d = Plan("enable", s, table, [table[s] EXCEPT !.en = TRUE])
    BY <1>7
  <2>2. PICK e \in Entries : e = [table[s] EXCEPT !.en = TRUE] /\ e.en = TRUE
    BY <1>3
  <2>3. d = Plan("enable", s, table, e)
    BY <2>1, <2>2
  <2> QED BY <1>1, <2>2, <2>3 DEF Plan, Drafted
<1>8. CASE \E s \in filled : d = Plan("disable", s, table, [table[s] EXCEPT !.en = FALSE])
  <2>1. PICK s \in filled : d = Plan("disable", s, table, [table[s] EXCEPT !.en = FALSE])
    BY <1>8
  <2>2. PICK e \in Entries : e = [table[s] EXCEPT !.en = FALSE] /\ e.en = FALSE
    BY <1>3
  <2>3. d = Plan("disable", s, table, e)
    BY <2>1, <2>2
  <2> QED BY <1>1, <2>2, <2>3 DEF Plan, Drafted
<1> QED BY <1>4, <1>5, <1>6, <1>7, <1>8 DEF Drafts

\* Every plan that was ever issued has passed the rules.
THEOREM OnlyAccepted == NativeSpec => []PlansAccepted
<1>1. NativeInit => PlansAccepted
  BY DEF NativeInit, Init, PlansAccepted
<1>2. TypeOK /\ PlansAccepted /\ [NativeNext]_nativeVars => PlansAccepted'
  <2> SUFFICES ASSUME TypeOK, PlansAccepted, [NativeNext]_nativeVars
               PROVE  PlansAccepted'
    OBVIOUS
  <2> USE DEF diskVars, planVars, modeVars, cloudVars, netVars, callVars, vars
  <2>1. CASE NativePreviewReturns
    <3>1. CASE UNCHANGED plans
      BY <3>1 DEF PlansAccepted
    <3>2. ASSUME NEW q \in Plans, NEW d \in Drafts(request.table),
                 plans[q] = NoPlan, plans' = [plans EXCEPT ![q] = d]
          PROVE  PlansAccepted'
      <4>1. request.table \in Tables
        BY <2>1 DEF NativePreviewReturns, PreviewReturns, FreshTable, SnapshotUsable, TypeOK
      <4>2. Drafted(d) /\ d # NoPlan
        BY <4>1, DraftShape DEF Drafted
      <4>3. plans'[q] = d /\ \A p \in Plans \ {q} : plans'[p] = plans[p]
        BY <3>2 DEF TypeOK, PlanType
      <4>4. Accepted(d, NoEntry)
        BY <2>1, <3>2, <4>2, <4>3 DEF NativePreviewReturns
      <4> QED BY <4>2, <4>3, <4>4 DEF PlansAccepted
    <3> QED BY <2>1, <3>1, <3>2 DEF NativePreviewReturns, PreviewReturns
  <2>2. CASE ~NativePreviewReturns
    <3>1. UNCHANGED plans
      BY <2>2 DEF NativeNext, NativeReceive, NativeRestReceive, NativeCallStep,
         UntracedCallStep, NativeReadback, NativeLatchLifted, UntracedStep, NativeCrash,
         nativeVars, Calls, Receive, RestReceive, SnapshotFails, ReadReturns, ApplyChecked,
         JournalLands, SendFrame, SendRefused, Confirmed, ControlFails, Acknowledged,
         Readback, LatchLifted, ReadCall, PreviewCall, ApplyCall, AcknowledgeCall, Abandon,
         CloudExecutes, Expire, AppEdit, CloudSnapshot, Connect, Disconnect, RestServe,
         ToggleOption, ModeReport, Stop, Crash, Restart
    <3> QED BY <3>1 DEF PlansAccepted
  <2> QED BY <2>1, <2>2
<1>3. NativeSpec => []TypeOK
  BY NativeIsTransaction, TypeCorrect, PTL
<1> QED BY <1>1, <1>2, <1>3, PTL DEF NativeSpec

\* In every reachable state, no plan puts two enabled schedules of the same
\* equipment into one minute that were not in conflict in the table previewed.
THEOREM PlansKeepApart == NativeSpec => []PlansApart
<1>1. PlansAccepted => PlansApart
  <2> SUFFICES ASSUME PlansAccepted, NEW p \in Plans, plans[p] # NoPlan,
                      NEW s \in Targets(plans[p])
               PROVE  Clashes(Result(plans[p], s), NoEntry)
                        \subseteq Clashes(plans[p].before, NoEntry)
    BY DEF PlansApart
  <2> DEFINE plan == plans[p]
  <2>1. Drafted(plan) /\ Accepted(plan, NoEntry)
    BY DEF PlansAccepted
  <2>2. /\ plan.operation \in {"create", "update", "enable", "disable", "delete"}
        /\ plan.before \in Tables
        /\ plan.after \in Entries \cup {NoEntry}
    BY <2>1 DEF Drafted, PlanRecords
  <2>3. /\ s \in Slots
        /\ plan.operation = "create" => plan.slot \notin Slots /\ plan.before[s] = NoEntry
        /\ plan.operation # "create" => plan.slot = s
    BY <2>1 DEF Targets, Drafted
  <2> QED
    BY <2>1, <2>2, <2>3, AcceptedApart DEF Drafted, Result, Tables
<1> QED BY <1>1, OnlyAccepted, PTL

\* What async_apply reports as confirmed, the controller has held on this
\* socket, and it adds no conflict between enabled schedules.
THEOREM ConfirmedKeepsApart == NativeSpec => ConfirmedApart
<1>1. TypeOK /\ JournalInv /\ HeldInv /\ PlansApart /\ [NativeNext]_nativeVars =>
        [\A p \in resolved' \ resolved : call.kind = "apply" =>
            LET t == Result(plans[p], call.slot)
            IN  t \in held /\ Clashes(t, NoEntry) \subseteq Clashes(plans[p].before, NoEntry)]_nativeVars
  <2> SUFFICES ASSUME TypeOK, JournalInv, HeldInv, PlansApart, NativeNext,
                      NEW p \in resolved' \ resolved, call.kind = "apply"
               PROVE  LET t == Result(plans[p], call.slot)
                      IN  t \in held /\ Clashes(t, NoEntry) \subseteq Clashes(plans[p].before, NoEntry)
    OBVIOUS
  <2> USE DEF diskVars, planVars, modeVars, cloudVars, netVars, callVars, vars
  <2>1. NativeReadback \/ Acknowledged
    BY DEF NativeNext, NativeReceive, NativeRestReceive, NativeCallStep,
       UntracedCallStep, NativePreviewReturns, NativeLatchLifted, UntracedStep, NativeCrash,
       Calls, Receive, RestReceive, SnapshotFails, ReadReturns, ApplyChecked,
       JournalLands, SendFrame, SendRefused, Confirmed, ControlFails, PreviewReturns,
       LatchLifted, ReadCall, PreviewCall, ApplyCall, AcknowledgeCall, Abandon,
       CloudExecutes, Expire, AppEdit, CloudSnapshot, Connect, Disconnect, RestServe,
       ToggleOption, ModeReport, Stop, Crash, Restart
  <2>2. CASE Acknowledged
    BY <2>2 DEF Acknowledged, JournalInv, TypeOK, CallType
  <2>3. CASE Readback
    <3>1. Verified(call.plan) /\ p = call.plan
      BY <2>3 DEF Readback
    <3>2. /\ plans[p] \in PlanRecords /\ call.slot \in Slots
          /\ IF plans[p].operation = "create" THEN plans[p].before[call.slot] = NoEntry
             ELSE call.slot = plans[p].slot
          /\ [plans[p].before EXCEPT ![call.slot] = plans[p].after] \in held
      BY <2>3, <3>1, ReadbackShows
    <3>3. p \in Plans /\ plans[p] # NoPlan /\ call.slot \in Targets(plans[p])
      <4>1. p \in Plans /\ plans[p] # NoPlan
        BY <3>1 DEF TypeOK, PlanType
      <4>2. call.slot \in Targets(plans[p])
        BY <3>2 DEF Targets
      <4> QED BY <4>1, <4>2
    <3> QED BY <3>2, <3>3 DEF Result, PlansApart
  <2> QED BY <2>1, <2>2, <2>3 DEF NativeReadback
<1>2. NativeSpec => []TypeOK /\ []JournalInv /\ []HeldInv
  BY NativeIsTransaction, TypeCorrect, JournalCorrect, TablesWereHeld, PTL
<1> QED BY <1>1, <1>2, PlansKeepApart, PTL DEF NativeSpec, ConfirmedApart

-----------------------------------------------------------------------------
(* The trace.                                                              *)

SeenTables == UNION {[S -> Entries \cup {NoEntry}] : S \in SUBSET Slots}

Changes ==
  [kind : {"baseline", "change"},
   diff : [added : SUBSET Slots, removed : SUBSET Slots, changed : SUBSET Slots],
   table : SeenTables, confirmed : Plans \cup {Unset}]

Traces ==
  [table : SeenTables \cup {Unset}, confirmed : Plans \cup {Unset}, changes : Seq(Changes)]

LEMMA ChangeType ==
  ASSUME NEW t \in Traces, NEW v \in SeenTables
  PROVE  /\ Change(t, v) \in Changes
         /\ Change(t, v).table = v /\ Change(t, v).confirmed = t.confirmed
         /\ Change(t, v).kind = "change" =>
              t.table # Unset /\ Change(t, v).diff = Difference(t.table, v)
<1>1. DOMAIN v \subseteq Slots
  BY DEF SeenTables
<1>2. t.table # Unset => DOMAIN t.table \subseteq Slots
  BY DEF SeenTables, Traces
<1>3. NoDifference \in [added : SUBSET Slots, removed : SUBSET Slots, changed : SUBSET Slots]
  BY DEF NoDifference
<1>4. t.table # Unset =>
        Difference(t.table, v) \in [added : SUBSET Slots, removed : SUBSET Slots, changed : SUBSET Slots]
  BY <1>1, <1>2 DEF Difference
<1> QED BY <1>3, <1>4 DEF Change, Changes, Traces

\* A deque of changes: its new last element, and the others in their order.
LEMMA PushedOrder ==
  ASSUME NEW ring \in Seq(Changes), NEW x \in Changes
  PROVE  /\ Pushed(ring, x) \in Seq(Changes) /\ Pushed(ring, x) # <<>>
         /\ Pushed(ring, x)[Len(Pushed(ring, x))] = x
         /\ \E k \in {0, 1} :
              /\ Len(Pushed(ring, x)) = Len(ring) + 1 - k
              /\ \A i \in 1..(Len(Pushed(ring, x)) - 1) : Pushed(ring, x)[i] = ring[i + k]
<1>1. CASE Len(ring) < MaxChanges
  BY <1>1 DEF Pushed
<1>2. CASE ~(Len(ring) < MaxChanges)
  <2>1. Len(ring) \in Nat /\ Len(ring) > 0 /\ ring # <<>>
    BY <1>2, TraceAssumption
  <2>2. Tail(ring) \in Seq(Changes) /\ Len(Tail(ring)) = Len(ring) - 1
    BY <2>1
  <2>3. \A i \in 1..Len(Tail(ring)) : Tail(ring)[i] = ring[i + 1]
    BY <2>1, <2>2
  <2> QED BY <1>2, <2>1, <2>2, <2>3 DEF Pushed
<1> QED BY <1>1, <1>2

\* Recording a table keeps the chain, credits nobody new, and leaves either
\* no table or the one recorded.
LEMMA Recorded ==
  ASSUME NEW t \in Traces, NEW v \in SeenTables
  PROVE  /\ WithTable(t, v) \in Traces
         /\ Chained(t) => Chained(WithTable(t, v))
         /\ Credited(WithTable(t, v)) \subseteq Credited(t)
         /\ WithTable(t, v).table \in {Unset, v}
<1>1. CASE ~Captured(v)
  BY <1>1 DEF WithTable, Traces, Chained, Credited
<1>2. CASE Captured(v) /\ t.table = v
  BY <1>2 DEF WithTable
<1>3. CASE Captured(v) /\ t.table # v
  <2> DEFINE x == Change(t, v)
             c == t.changes
             n == Pushed(c, x)
             w == WithTable(t, v)
  <2>1. w = [t EXCEPT !.table = v, !.changes = n]
    BY <1>3 DEF WithTable
  <2>2. c \in Seq(Changes) /\ x \in Changes
    BY ChangeType DEF Traces
  <2>3. n \in Seq(Changes) /\ n # <<>> /\ n[Len(n)] = x
    BY <2>2, PushedOrder
  <2>4. PICK k \in {0, 1} :
          /\ Len(n) = Len(c) + 1 - k
          /\ \A i \in 1..(Len(n) - 1) : n[i] = c[i + k]
    BY <2>2, PushedOrder
  <2>5. w \in Traces /\ w.table = v /\ w.changes = n /\ w.confirmed = t.confirmed
    BY <2>1, <2>3 DEF Traces
  <2>6. Len(n) \in Nat /\ Len(c) \in Nat /\ Len(n) > 0
    BY <2>2, <2>3
  <2>7. Credited(w) \subseteq Credited(t)
    <3>1. \A i \in DOMAIN n : n[i].confirmed \in Credited(t)
      <4> SUFFICES ASSUME NEW i \in 1..Len(n) PROVE n[i].confirmed \in Credited(t)
        BY <2>3
      <4>1. CASE i = Len(n)
        BY <4>1, <2>3, ChangeType DEF Credited
      <4>2. CASE i # Len(n)
        <5>1. i + k \in DOMAIN c /\ n[i] = c[i + k]
          BY <4>2, <2>2, <2>4, <2>6
        <5> QED BY <5>1 DEF Credited
      <4> QED BY <4>1, <4>2
    <3> QED BY <3>1, <2>5 DEF Credited
  <2>8. ASSUME Chained(t) PROVE Chained(w)
    <3>1. ASSUME NEW i \in 1..(Len(n) - 1), n[i + 1].kind = "change"
          PROVE  n[i + 1].diff = Difference(n[i].table, n[i + 1].table)
      <4>1. CASE i + 1 = Len(n)
        <5>1. x.kind = "change" /\ n[i + 1] = x
          BY <4>1, <2>3, <3>1
        <5>2. t.table # Unset /\ x.diff = Difference(t.table, v) /\ x.table = v
          BY <5>1, ChangeType
        <5>3. c[Len(c)].table = t.table
          BY <5>2, <2>8 DEF Chained
        <5>4. n[i] = c[Len(c)]
          BY <4>1, <2>4, <2>6, <3>1
        <5> QED BY <5>1, <5>2, <5>3, <5>4
      <4>2. CASE i + 1 # Len(n)
        <5>1. i \in 1..(Len(n) - 1) /\ i + 1 \in 1..(Len(n) - 1)
          BY <4>2, <2>6
        <5>2. n[i] = c[i + k] /\ n[i + 1] = c[i + k + 1]
          BY <5>1, <2>4, <2>6
        <5>3. i + k \in 1..(Len(c) - 1)
          BY <5>1, <2>4, <2>6
        <5> QED BY <3>1, <5>2, <5>3, <2>8 DEF Chained
      <4> QED BY <4>1, <4>2
    <3>2. n[Len(n)].table = w.table
      BY <2>3, <2>5, ChangeType
    <3> QED BY <3>1, <3>2, <2>3, <2>5 DEF Chained
  <2> QED BY <2>5, <2>7, <2>8
<1> QED BY <1>1, <1>2, <1>3

\* The inductive invariant of the trace. An operation is credited when its
\* latch is lifted, so what is about to be lifted has to be settled.
TraceInv ==
  /\ nulls \subseteq Slots
  /\ trace \in Traces
  /\ ChangesChain
  /\ Attributed
  /\ call.pc = "cleared" => call.plan \in resolved

\* An observation of the socket or of REST.
LEMMA ObservedStep ==
  ASSUME TraceInv, reported' \in Tables, nulls' \subseteq Slots, Traced,
         UNCHANGED <<pending, disk, resolved>>,
         call'.pc = "cleared" => call.pc = "cleared" /\ call' = call
  PROVE  TraceInv'
<1>1. SeenTable' \in SeenTables
  <2> DEFINE S == {s \in Slots : reported'[s] # NoEntry} \cup nulls'
  <2>1. S \in SUBSET Slots /\ \A s \in S : reported'[s] \in Entries \cup {NoEntry}
    BY DEF Tables
  <2>2. SeenTable' = [s \in S |-> reported'[s]]
    BY DEF SeenTable
  <2> HIDE DEF S
  <2>3. [s \in S |-> reported'[s]] \in [S -> Entries \cup {NoEntry}]
    BY <2>1
  <2> QED BY <2>1, <2>2, <2>3 DEF SeenTables
<1>2. /\ trace' \in Traces /\ Chained(trace')
      /\ Credited(trace') \subseteq Credited(trace)
      /\ trace'.table \in {Unset, SeenTable'}
  BY <1>1, Recorded DEF Traced, TraceInv, ChangesChain
<1>3. ChangesChain'
  BY <1>2 DEF ChangesChain
<1>4. Attributed'
  BY <1>2 DEF Attributed, TraceInv
<1> QED BY <1>2, <1>3, <1>4 DEF TraceInv

\* A step that neither observes, nor latches, nor saves, nor lifts.
LEMMA UnseenStep ==
  ASSUME TraceInv, UNCHANGED <<nulls, trace, reported, pending, disk>>,
         resolved \subseteq resolved',
         call'.pc = "cleared" => call.pc = "cleared" /\ call' = call
  PROVE  TraceInv'
<1>1. SeenTable' = SeenTable
  BY DEF SeenTable
<1> QED BY <1>1 DEF TraceInv, ChangesChain, Attributed

THEOREM TraceCorrect == NativeSpec => []TraceInv
<1>1. NativeInit => TraceInv
  BY DEF NativeInit, Init, NoCall, TraceInv, EmptyTrace, Traces, ChangesChain, Chained,
         Attributed, Credited
<1>2. TypeOK /\ TypeOK' /\ JournalInv /\ TraceInv /\ [NativeNext]_nativeVars => TraceInv'
  <2> SUFFICES ASSUME TypeOK, TypeOK', JournalInv, TraceInv, [NativeNext]_nativeVars
               PROVE  TraceInv'
    OBVIOUS
  <2> USE DEF diskVars, planVars, modeVars, cloudVars, netVars, callVars, vars,
              traceVars, nativeVars
  <2>1. CASE NativeReceive
    <3>1. Head(down) \in Messages
      BY <2>1 DEF NativeReceive, Receive, TypeOK, NetType
    <3>2. nulls' \subseteq Slots
      BY <2>1, <3>1, MessageType DEF NativeReceive, TraceInv
    <3> QED BY <2>1, <3>2, ObservedStep DEF NativeReceive, Receive, TypeOK
  <2>2. CASE NativeRestReceive
    <3>1. call' = call \/ call'.pc = "rest_seen"
      BY <2>2 DEF NativeRestReceive, RestReceive, TypeOK, CallType
    <3> QED BY <2>2, <3>1, ObservedStep DEF NativeRestReceive, RestReceive, TypeOK
  <2>3. CASE NativeLatchLifted
    <3>1. call'.pc = "idle" /\ pending' = NoPlan
          /\ UNCHANGED <<nulls, reported, disk, resolved>>
      BY <2>3 DEF NativeLatchLifted, LatchLifted, EndCall, NoCall
    <3>2. disk = NoPlan /\ call.plan \in resolved /\ call.pc = "cleared"
      BY <2>3 DEF NativeLatchLifted, LatchLifted, JournalInv, TraceInv
    <3>3. resolved \subseteq Plans
      BY DEF TypeOK, PlanType
    <3>4. /\ trace' \in Traces /\ trace'.table = trace.table /\ trace'.changes = trace.changes
          /\ trace'.confirmed \in {trace.confirmed, call.plan}
      BY <2>3, <3>2, <3>3 DEF NativeLatchLifted, WithConfirmed, TraceInv, Traces
    <3>5. SeenTable' = SeenTable
      BY <3>1 DEF SeenTable
    <3>6. Credited(trace') \subseteq Credited(trace) \cup {call.plan}
      BY <3>4 DEF Credited
    <3>7. Attributed'
      BY <3>1, <3>2, <3>3, <3>6 DEF Attributed, TraceInv
    <3> QED BY <3>1, <3>4, <3>5, <3>7 DEF TraceInv, ChangesChain, Chained
  <2>4. CASE NativeCrash
    BY <2>4 DEF NativeCrash, Crash, NoCall, TraceInv, EmptyTrace, Traces, ChangesChain,
       Chained, Attributed, Credited
  <2>5. CASE ApplyChecked /\ UNCHANGED traceVars
    <3>1. CASE EndCall /\ UNCHANGED pending
      BY <2>5, <3>1, UnseenStep DEF ApplyChecked, EndCall, NoCall
    <3>2. CASE pending' = call.plan /\ call' = [call EXCEPT !.pc = "saving", !.sock = sock]
      <4>1. call.plan \notin resolved
        BY <2>5 DEF ApplyChecked, JournalInv, Unused
      <4>2. call'.pc = "saving" /\ SeenTable' = SeenTable
        BY <2>5, <3>2 DEF ApplyChecked, SeenTable, TypeOK, CallType
      <4> QED BY <2>5, <3>2, <4>1, <4>2 DEF ApplyChecked, TraceInv, ChangesChain, Attributed
    <3> QED BY <2>5, <3>1, <3>2 DEF ApplyChecked
  <2>6. CASE JournalLands /\ UNCHANGED traceVars
    <3>1. SeenTable' = SeenTable
      BY <2>6 DEF JournalLands, SeenTable
    <3>2. CASE call.pc = "saving" /\ disk' = call.plan /\ call' = [call EXCEPT !.pc = "saved"]
      <4>1. call.plan \notin resolved /\ call'.pc = "saved"
        BY <3>2 DEF JournalInv, Unused, TypeOK, PlanType, CallType
      <4> QED BY <2>6, <3>1, <3>2, <4>1 DEF JournalLands, TraceInv, ChangesChain, Attributed
    <3>3. CASE call.pc = "clearing" /\ disk' = NoPlan /\ call' = [call EXCEPT !.pc = "cleared"]
      <4>1. call.plan \in resolved /\ call'.plan = call.plan
        BY <3>3 DEF JournalInv, TypeOK, CallType
      <4>2. resolved \subseteq Plans
        BY DEF TypeOK, PlanType
      <4> QED BY <2>6, <3>1, <3>3, <4>1, <4>2 DEF JournalLands, TraceInv, ChangesChain, Attributed
    <3> QED BY <2>6, <3>2, <3>3 DEF JournalLands
  <2>7. CASE Restart /\ UNCHANGED traceVars
    <3>1. pending' \in {disk, NoPlan} /\ UNCHANGED <<reported, disk, resolved, call>>
      BY <2>7 DEF Restart, RecoveredLatch
    <3>2. SeenTable' = SeenTable
      BY <2>7, <3>1 DEF SeenTable
    <3>3. resolved \subseteq Plans
      BY DEF TypeOK, PlanType
    <3> QED BY <2>7, <3>1, <3>2, <3>3 DEF TraceInv, ChangesChain, Attributed
  <2>8. CASE NativeReadback \/ (Acknowledged /\ UNCHANGED traceVars)
    <3>1. UNCHANGED <<nulls, trace, reported, pending, disk>> /\ resolved \subseteq resolved'
      BY <2>8 DEF NativeReadback, Readback, Acknowledged
    <3>2. call'.pc \in {"idle", "clearing"}
      BY <2>8 DEF NativeReadback, Readback, Acknowledged, EndCall, NoCall, TypeOK, CallType
    <3> QED BY <3>1, <3>2, UnseenStep
  <2>9. CASE Calls /\ UNCHANGED traceVars
    <3>1. UNCHANGED <<nulls, trace, reported, pending, disk, resolved>>
      BY <2>9 DEF Calls, ReadCall, PreviewCall, ApplyCall, AcknowledgeCall
    <3>2. call'.pc \in {"snapshot", "rest"} \/ call' = call
      BY <2>9 DEF Calls, ReadCall, PreviewCall, ApplyCall, AcknowledgeCall, Begin, NoCall
    <3> QED BY <3>1, <3>2, UnseenStep
  <2>10. CASE /\ UNCHANGED traceVars
              /\ \/ SnapshotFails \/ ReadReturns \/ SendRefused \/ ControlFails \/ Abandon
                 \/ SendFrame \/ Confirmed
    <3>1. UNCHANGED <<nulls, trace, reported, pending, disk, resolved>>
      BY <2>10 DEF SnapshotFails, ReadReturns, SendRefused, ControlFails, Abandon, SendFrame,
         Confirmed
    <3>2. call'.pc \in {"idle", "confirm", "readback"}
      <4>1. CASE EndCall
        BY <4>1 DEF EndCall, NoCall
      <4>2. CASE SendFrame \/ (Confirmed /\ ~EndCall)
        BY <4>2 DEF SendFrame, Confirmed, TypeOK, CallType
      <4> QED BY <2>10, <4>1, <4>2 DEF SnapshotFails, ReadReturns, SendRefused, ControlFails, Abandon
    <3> QED BY <3>1, <3>2, UnseenStep
  <2>11. CASE NativePreviewReturns
    BY <2>11, UnseenStep DEF NativePreviewReturns, PreviewReturns, EndCall, NoCall
  <2>12. CASE /\ UNCHANGED traceVars
              /\ \/ \E p \in Plans : CloudExecutes(p) \/ Expire(p)
                 \/ AppEdit \/ CloudSnapshot \/ Connect \/ Disconnect \/ RestServe
                 \/ ToggleOption \/ ModeReport \/ Stop
    <3>1. UNCHANGED <<nulls, trace, reported, pending, disk, resolved, call>>
      BY <2>12 DEF CloudExecutes, Expire, AppEdit, CloudSnapshot, Connect, Disconnect, RestServe,
         ToggleOption, ModeReport, Stop
    <3> QED BY <3>1, UnseenStep
  <2>13. CASE UNCHANGED nativeVars
    BY <2>13, UnseenStep
  <2> QED
    BY <2>1, <2>2, <2>3, <2>4, <2>5, <2>6, <2>7, <2>8, <2>9, <2>10, <2>11, <2>12, <2>13
    DEF NativeNext, NativeCallStep, UntracedCallStep, UntracedStep
<1>3. NativeSpec => []TypeOK /\ []JournalInv
  BY NativeIsTransaction, TypeCorrect, JournalCorrect, PTL
<1> QED BY <1>1, <1>2, <1>3, PTL DEF NativeSpec

\* Each reported difference is the difference to the table reported before,
\* and the chain ends at the table the client has.
THEOREM DiffsAreTrue == NativeSpec => []ChangesChain
<1>1. TraceInv => ChangesChain
  BY DEF TraceInv
<1> QED BY <1>1, TraceCorrect, PTL

\* No change is filed under an operation whose outcome is still uncertain.
THEOREM CreditIsSettled == NativeSpec => []Attributed
<1>1. TraceInv => Attributed
  BY DEF TraceInv
<1> QED BY <1>1, TraceCorrect, PTL

=============================================================================
