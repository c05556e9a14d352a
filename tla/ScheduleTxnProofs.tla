-------------------------- MODULE ScheduleTxnProofs --------------------------
(***************************************************************************)
(* Machine-checked proofs about ScheduleTxn, for every number of plans,    *)
(* slots and entries and for every value of the bounds.                    *)
(***************************************************************************)
EXTENDS ScheduleTxn, TLAPS

USE ScheduleAssumption

(***************************************************************************)
(* Type correctness.                                                       *)
(***************************************************************************)

\* Replacing one entry of a table gives a table.
LEMMA TableUpdate ==
  ASSUME NEW t \in Tables, NEW s \in Slots, NEW e \in Entries \cup {NoEntry}
  PROVE  [t EXCEPT ![s] = e] \in Tables
  BY DEF Tables

\* _matching_slot answers with a slot, or with none.
LEMMA MatchingSlotType ==
  ASSUME NEW plan \in PlanRecords, NEW table \in Tables, NEW seen \in SUBSET Slots
  PROVE  MatchingSlot(plan, table, seen) \in Slots \cup {NoSlot}
<1> DEFINE new == {s \in seen : plan.before[s] = NoEntry /\ table[s] = plan.after}
<1>1. CASE plan.operation = "create"
  <2>1. CASE \E s \in new : new = {s}
    <3>1. (CHOOSE s \in new : new = {s}) \in new
      BY <2>1
    <3> QED BY <1>1, <2>1, <3>1 DEF MatchingSlot
  <2>2. CASE ~ \E s \in new : new = {s}
    BY <1>1, <2>2 DEF MatchingSlot
  <2> QED BY <2>1, <2>2
<1>2. CASE plan.operation # "create"
  BY <1>2 DEF MatchingSlot, PlanRecords
<1> QED BY <1>1, <1>2

\* What a preview builds is a plan record.
LEMMA DraftType ==
  ASSUME NEW table \in Tables, NEW d \in Drafts(table)
  PROVE  d \in PlanRecords
<1> DEFINE filled == {s \in Slots : table[s] # NoEntry}
<1>1. \A s \in filled : table[s] \in Entries
  BY DEF Tables
<1>2. \A s \in filled, b \in BOOLEAN : [table[s] EXCEPT !.en = b] \in Entries
  BY <1>1
<1>3. \A o \in Operations, s \in Slots \cup {NoSlot}, e \in Entries \cup {NoEntry} :
        Plan(o, s, table, e) \in PlanRecords
  BY DEF Plan, PlanRecords
<1>4. PICK o \in {"create", "update", "delete", "enable", "disable"},
           s \in Slots \cup {NoSlot}, e \in Entries \cup {NoEntry} :
        d = Plan(o, s, table, e)
  <2>1. CASE \E e \in Entries : d = Plan("create", NoSlot, table, e)
    BY <2>1
  <2>2. CASE \E s \in filled, e \in Entries : d = Plan("update", s, table, e)
    BY <2>2
  <2>3. CASE \E s \in filled : d = Plan("delete", s, table, NoEntry)
    BY <2>3
  <2>4. CASE \E s \in filled : d = Plan("enable", s, table, [table[s] EXCEPT !.en = TRUE])
    BY <1>2, <2>4
  <2>5. CASE \E s \in filled : d = Plan("disable", s, table, [table[s] EXCEPT !.en = FALSE])
    BY <1>2, <2>5
  <2> QED BY <2>1, <2>2, <2>3, <2>4, <2>5 DEF Drafts
<1>5. d.operation = o /\ d.operation \in Operations
  BY <1>4 DEF Plan, Drafts
<1> QED BY <1>3, <1>4, <1>5

\* Leaving a call keeps the types, whatever the call was and whatever it did
\* to the plans.
LEMMA EndCallType ==
  ASSUME TypeOK, EndCall,
         UNCHANGED <<disk, phase, storage, enabled, auto, cloud, held, sock, down,
                     conns, reported, sends, upsets>>,
         pending' \in Plans \cup {NoPlan}, resolved' \subseteq Plans,
         plans' \in [Plans -> PlanRecords \cup {NoPlan}],
         shelf' \subseteq Plans, young' \subseteq Plans,
         \A p \in Plans : p \in shelf' \/ sends[p] > 0 => plans'[p] # NoPlan
  PROVE  TypeOK'
<1>1. CallType'
  BY DEF TypeOK, CallType, CallKinds, CallPoints, EndCall, NoCall, NoRequest
<1>2. PlanType'
  BY DEF TypeOK, PlanType, EndCall, NoCall
<1>3. NetType'
  BY DEF TypeOK, NetType, EndCall, NoCall, NoReply
<1> QED BY <1>1, <1>2, <1>3 DEF TypeOK

\* A call that begins has the kind, point and plan it is given.
LEMMA BeginType ==
  ASSUME NEW kind \in CallKinds, NEW pc \in CallPoints, NEW p \in Plans \cup {NoPlan},
         Begin(kind, pc, p)
  PROVE  /\ call' \in [kind : CallKinds, pc : CallPoints, plan : Plans \cup {NoPlan},
                      sock : Nat, slot : Slots \cup {NoSlot}]
         /\ call'.kind = kind /\ call'.pc = pc /\ call'.plan = p
  BY DEF Begin, NoCall, CallKinds, CallPoints

\* Requesting a snapshot on the current socket.
LEMMA RequestType ==
  ASSUME sock \in Nat, RequestSnapshot
  PROVE  request' \in [sock : Nat, table : Tables \cup {NoTable}]
  BY DEF RequestSnapshot

\* The messages on their way stay messages when the cloud sends one ...
LEMMA WireType ==
  ASSUME NEW wire \in Seq(Messages)
  PROVE  /\ \A t \in Tables : Append(wire, [kind |-> "auth", table |-> t]) \in Seq(Messages)
         /\ \A s \in Slots, e \in Entries \cup {NoEntry} :
              Append(wire, [kind |-> "delta", slot |-> s, entry |-> e]) \in Seq(Messages)
<1>1. \A t \in Tables : [kind |-> "auth", table |-> t] \in Messages
  BY DEF Messages
<1>2. \A s \in Slots, e \in Entries \cup {NoEntry} :
        [kind |-> "delta", slot |-> s, entry |-> e] \in Messages
  BY DEF Messages
<1> QED BY <1>1, <1>2

\* ... and what a message carries.
LEMMA MessageType ==
  ASSUME NEW m \in Messages
  PROVE  /\ m.kind = "auth" => m.table \in Tables
         /\ m.kind # "auth" => m.slot \in Slots /\ m.entry \in Entries \cup {NoEntry}
  BY DEF Messages

\* A changed slot keeps the cloud's table, the tables held and the wire typed.
LEMMA CloudSetsType ==
  ASSUME TypeOK, NEW s \in Slots, NEW e \in Entries \cup {NoEntry}, CloudSets(s, e)
  PROVE  cloud' \in Tables /\ held' \subseteq Tables /\ down' \in Seq(Messages)
<1>1. cloud' \in Tables
  BY TableUpdate DEF TypeOK, CloudSets
<1>2. down' \in Seq(Messages)
  <2>1. CASE UNCHANGED down
    BY <2>1 DEF TypeOK, NetType
  <2>2. CASE down' = Append(down, [kind |-> "delta", slot |-> s, entry |-> e])
    BY <2>2, WireType DEF TypeOK, NetType
  <2> QED BY <2>1, <2>2 DEF CloudSets, Announce
<1> QED BY <1>1, <1>2 DEF TypeOK, CloudSets

\* In every reachable state the variables are typed, and no snapshot request
\* and no pending control outlives the await it belongs to.
THEOREM TypeCorrect == Spec => []TypeOK
<1>1. Init => TypeOK
  BY DEF Init, TypeOK, PlanType, CallType, CallKinds, CallPoints, NetType,
         EmptyTable, Tables, NoRequest, NoReply, NoCall, Messages
<1>2. TypeOK /\ [Next]_vars => TypeOK'
  <2> SUFFICES ASSUME TypeOK, [Next]_vars PROVE TypeOK'
    OBVIOUS
  <2> USE DEF diskVars, planVars, modeVars, cloudVars, netVars, callVars, vars
  <2>1. ASSUME NEW p \in Plans, ApplyCall(p) PROVE TypeOK'
    <3>1. PlanType'
      BY <2>1, BeginType DEF ApplyCall, Idle, Popped, CallKinds, CallPoints, TypeOK, PlanType
    <3>2. CallType'
      BY <2>1, BeginType, RequestType
      DEF ApplyCall, Idle, CallKinds, CallPoints, TypeOK, CallType, NetType
    <3>3. NetType'
      BY <2>1, BeginType DEF ApplyCall, Idle, CallKinds, CallPoints, TypeOK, NetType
    <3> QED BY <2>1, <3>1, <3>2, <3>3 DEF ApplyCall, TypeOK
  <2>2. ASSUME NEW p \in Plans, CloudExecutes(p) PROVE TypeOK'
    <3>1. plans[p].after \in Entries \cup {NoEntry}
      BY <2>2 DEF CloudExecutes, TypeOK, PlanType, PlanRecords
    <3>2. cloud' \in Tables /\ held' \subseteq Tables /\ down' \in Seq(Messages)
      BY <2>2, <3>1, CloudSetsType DEF CloudExecutes
    <3> QED BY <2>2, <3>2 DEF CloudExecutes, TypeOK, PlanType, CallType, NetType
  <2>3. ASSUME NEW p \in Plans, Expire(p) PROVE TypeOK'
    BY <2>3 DEF Expire, Upset, TypeOK, PlanType, CallType, NetType
  <2>4. CASE ReadCall
    <3>1. PlanType'
      BY <2>4, BeginType DEF ReadCall, Idle, CallKinds, CallPoints, TypeOK, PlanType
    <3>2. CallType'
      BY <2>4, BeginType, RequestType
      DEF ReadCall, Idle, CallKinds, CallPoints, TypeOK, PlanType, CallType, NetType
    <3>3. NetType'
      BY <2>4, BeginType DEF ReadCall, Idle, CallKinds, CallPoints, TypeOK, NetType
    <3> QED BY <2>4, <3>1, <3>2, <3>3 DEF ReadCall, TypeOK
  <2>5. CASE PreviewCall
    <3>1. PlanType'
      BY <2>5, BeginType DEF PreviewCall, Idle, CallKinds, CallPoints, TypeOK, PlanType
    <3>2. CallType'
      BY <2>5, BeginType, RequestType
      DEF PreviewCall, Idle, CallKinds, CallPoints, TypeOK, PlanType, CallType, NetType
    <3>3. NetType'
      BY <2>5, BeginType DEF PreviewCall, Idle, CallKinds, CallPoints, TypeOK, NetType
    <3> QED BY <2>5, <3>1, <3>2, <3>3 DEF PreviewCall, TypeOK
  <2>6. CASE AcknowledgeCall
    <3>1. PlanType'
      BY <2>6, BeginType DEF AcknowledgeCall, Idle, CallKinds, CallPoints, TypeOK, PlanType
    <3>2. CallType'
      BY <2>6, BeginType, RequestType
      DEF AcknowledgeCall, Idle, CallKinds, CallPoints, TypeOK, PlanType, CallType, NetType
    <3>3. NetType'
      BY <2>6, BeginType DEF AcknowledgeCall, Idle, CallKinds, CallPoints, TypeOK, NetType
    <3> QED BY <2>6, <3>1, <3>2, <3>3 DEF AcknowledgeCall, TypeOK
  <2>7. CASE SnapshotFails
    BY <2>7, EndCallType DEF SnapshotFails, TypeOK, PlanType
  <2>8. CASE ReadReturns
    BY <2>8, EndCallType DEF ReadReturns, TypeOK, PlanType
  <2>9. CASE SendRefused
    BY <2>9, EndCallType DEF SendRefused, TypeOK, PlanType
  <2>10. CASE ControlFails
    BY <2>10, EndCallType DEF ControlFails, TypeOK, PlanType
  <2>11. CASE LatchLifted
    BY <2>11, EndCallType DEF LatchLifted, TypeOK, PlanType
  <2>12. CASE Abandon
    BY <2>12, EndCallType DEF Abandon, TypeOK, PlanType
  <2>13. CASE PreviewReturns
    <3>1. CASE UNCHANGED planVars
      BY <2>13, <3>1, EndCallType DEF PreviewReturns, TypeOK, PlanType
    <3>2. ASSUME NEW p \in Plans, NEW d \in Drafts(request.table),
                 plans' = [plans EXCEPT ![p] = d],
                 shelf' \in Shelved(p), young' = young \cup {p}
          PROVE  TypeOK'
      <4>1. request.table \in Tables
        BY <2>13 DEF PreviewReturns, FreshTable, SnapshotUsable, Answered, TypeOK, CallType
      <4>2. d \in PlanRecords
        BY <4>1, DraftType
      <4>3. shelf' \subseteq shelf \cup {p}
        BY <3>2 DEF Shelved
      <4> QED BY <2>13, <3>2, <4>2, <4>3, EndCallType DEF PreviewReturns, TypeOK, PlanType
    <3> QED BY <2>13, <3>1, <3>2 DEF PreviewReturns
  <2>14. CASE ApplyChecked
    <3>1. CASE EndCall
      BY <2>14, <3>1, EndCallType DEF ApplyChecked, TypeOK, PlanType
    <3>2. CASE /\ pending' = call.plan
               /\ call' = [call EXCEPT !.pc = "saving", !.sock = sock]
               /\ request' = NoRequest
               /\ UNCHANGED <<control, touched, rest>>
      <4>1. PlanType'
        BY <2>14, <3>2 DEF ApplyChecked, TypeOK, PlanType, CallType
      <4>2. CallType'
        BY <2>14, <3>2 DEF ApplyChecked, TypeOK, PlanType, CallType, NetType, CallPoints, NoRequest
      <4>3. NetType'
        BY <2>14, <3>2 DEF ApplyChecked, TypeOK, CallType, NetType
      <4> QED BY <2>14, <4>1, <4>2, <4>3 DEF ApplyChecked, TypeOK
    <3> QED BY <2>14, <3>1, <3>2 DEF ApplyChecked
  <2>15. CASE JournalLands
    <3>1. PlanType'
      BY <2>15 DEF JournalLands, TypeOK, PlanType, CallType
    <3>2. CallType'
      BY <2>15 DEF JournalLands, CallPoints, NoRequest, TypeOK, CallType
    <3>3. NetType'
      BY <2>15 DEF JournalLands, TypeOK, CallType, NetType
    <3> QED BY <2>15, <3>1, <3>2, <3>3 DEF JournalLands, TypeOK
  <2>16. CASE SendFrame
    <3>1. PlanType'
      BY <2>16 DEF SendFrame, TypeOK, PlanType, CallType
    <3>2. CallType'
      BY <2>16 DEF SendFrame, CallPoints, NoRequest, TypeOK, CallType
    <3>3. NetType'
      BY <2>16 DEF SendFrame, TypeOK, CallType, NetType
    <3> QED BY <2>16, <3>1, <3>2, <3>3 DEF SendFrame, TypeOK
  <2>17. CASE Confirmed
    <3>1. CASE EndCall
      BY <2>17, <3>1, EndCallType DEF Confirmed, TypeOK, PlanType
    <3>2. CASE /\ RequestSnapshot
               /\ call' = [call EXCEPT !.pc = "readback",
                             !.slot = MatchingSlot(plans[call.plan], reported, touched)]
               /\ control' = "none"
               /\ UNCHANGED <<touched, rest>>
      <4>1. PlanType'
        BY <2>17, <3>2 DEF Confirmed, TypeOK, PlanType, CallType
      <4>2. CallType'
        <5>1. /\ reported \in Tables /\ touched \in SUBSET Slots /\ sock \in Nat
              /\ call.kind = "apply" /\ call.plan \in Plans /\ plans[call.plan] \in PlanRecords
          BY <2>17 DEF Confirmed, TypeOK, PlanType, CallType, NetType
        <5>2. MatchingSlot(plans[call.plan], reported, touched) \in Slots \cup {NoSlot}
          BY <5>1, MatchingSlotType
        <5>3. request' \in [sock : Nat, table : Tables \cup {NoTable}]
          BY <3>2, <5>1, RequestType
        <5> QED BY <2>17, <3>2, <5>2, <5>3 DEF Confirmed, TypeOK, CallType, CallPoints
      <4>3. NetType'
        BY <2>17, <3>2 DEF Confirmed, TypeOK, CallType, NetType
      <4> QED BY <2>17, <4>1, <4>2, <4>3 DEF Confirmed, TypeOK
    <3> QED BY <2>17, <3>1, <3>2 DEF Confirmed
  <2>18. CASE Readback
    <3>1. CASE EndCall
      BY <2>18, <3>1, EndCallType DEF Readback, TypeOK, PlanType
    <3>2. CASE /\ resolved' = resolved \cup {call.plan}
               /\ call' = [call EXCEPT !.pc = "clearing"]
               /\ request' = NoRequest
               /\ UNCHANGED <<control, touched, rest>>
      <4>1. PlanType'
        BY <2>18, <3>2 DEF Readback, TypeOK, PlanType, CallType
      <4>2. CallType'
        BY <2>18, <3>2 DEF Readback, TypeOK, PlanType, CallType, NetType, CallPoints, NoRequest
      <4>3. NetType'
        BY <2>18, <3>2 DEF Readback, TypeOK, CallType, NetType
      <4> QED BY <2>18, <4>1, <4>2, <4>3 DEF Readback, TypeOK
    <3> QED BY <2>18, <3>1, <3>2 DEF Readback
  <2>19. CASE Acknowledged
    <3>1. CASE EndCall
      BY <2>19, <3>1, EndCallType DEF Acknowledged, TypeOK, PlanType
    <3>2. CASE /\ resolved' = resolved \cup {call.plan}
               /\ call' = [call EXCEPT !.pc = "clearing"]
               /\ request' = NoRequest
               /\ UNCHANGED <<control, touched, rest>>
      <4>1. PlanType'
        BY <2>19, <3>2 DEF Acknowledged, TypeOK, PlanType, CallType
      <4>2. CallType'
        BY <2>19, <3>2 DEF Acknowledged, TypeOK, PlanType, CallType, NetType, CallPoints, NoRequest
      <4>3. NetType'
        BY <2>19, <3>2 DEF Acknowledged, FreshTable, TypeOK, CallType, NetType
      <4> QED BY <2>19, <4>1, <4>2, <4>3 DEF Acknowledged, TypeOK
    <3> QED BY <2>19, <3>1, <3>2 DEF Acknowledged
  <2>20. CASE AppEdit
    <3>1. cloud' \in Tables /\ held' \subseteq Tables /\ down' \in Seq(Messages)
      BY <2>20, CloudSetsType DEF AppEdit
    <3> QED BY <2>20, <3>1 DEF AppEdit, Upset, TypeOK, PlanType, CallType, NetType
  <2>21. CASE CloudSnapshot
    BY <2>21, WireType DEF CloudSnapshot, TypeOK, PlanType, CallType, NetType
  <2>22. CASE Receive
    <3> DEFINE m == Head(down)
    <3>1. /\ Tail(down) \in Seq(Messages)
          /\ m.kind = "auth" => m.table \in Tables
          /\ m.kind # "auth" => m.slot \in Slots /\ m.entry \in Entries \cup {NoEntry}
      <4>1. down \in Seq(Messages) /\ down # <<>>
        BY <2>22 DEF Receive, TypeOK, NetType
      <4>2. Tail(down) \in Seq(Messages) /\ Head(down) \in Messages
        BY <4>1
      <4> QED BY <4>2, MessageType
    <3>2. /\ reported' \in Tables /\ touched' \subseteq Slots
          /\ request' \in [sock : Nat, table : Tables \cup {NoTable}]
          /\ request = NoRequest => request' = NoRequest
      <4>1. CASE m.kind = "auth"
        BY <2>22, <3>1, <4>1
        DEF Receive, Observed, AnsweredBy, Connected, NoRequest, TypeOK, CallType, NetType
      <4>2. CASE m.kind # "auth"
        BY <2>22, <3>1, <4>2, TableUpdate DEF Receive, Observed, TypeOK, CallType
      <4> QED BY <4>1, <4>2
    <3>3. control' \in {"none", "waiting", "confirmed", "failed"}
          /\ (control' = "none" <=> control = "none")
      BY <2>22 DEF Receive, Resolution, TypeOK, CallType
    <3> QED BY <2>22, <3>1, <3>2, <3>3 DEF Receive, TypeOK, PlanType, CallType, NetType
  <2>23. CASE Connect
    BY <2>23 DEF Connect, TypeOK, PlanType, CallType, NetType
  <2>24. CASE Disconnect
    BY <2>24 DEF Disconnect, Upset, TypeOK, PlanType, CallType, NetType
  <2>25. CASE RestServe
    <3>1. PICK mine \in {FALSE} \cup {call.pc = "rest"} :
            rest' = [table |-> cloud, mine |-> mine]
      BY <2>25 DEF RestServe
    <3>2. mine \in BOOLEAN /\ (mine => call.pc = "rest")
      OBVIOUS
    <3>3. NetType'
      BY <2>25, <3>1, <3>2 DEF RestServe, TypeOK, NetType
    <3> QED BY <2>25, <3>3 DEF RestServe, TypeOK, PlanType, CallType
  <2>26. CASE RestReceive
    <3>1. rest.table \in Tables /\ rest.mine \in BOOLEAN
      BY <2>26 DEF RestReceive, TypeOK, NetType
    <3>2. PlanType'
      BY <2>26, <3>1 DEF RestReceive, TypeOK, PlanType, CallType, NetType
    <3>3. CallType'
      <4>1. touched' \subseteq Slots
        BY <2>26 DEF RestReceive, Observed, TypeOK, CallType
      <4>2. CASE rest.mine
        BY <2>26, <3>1, <4>1, <4>2 DEF RestReceive, CallPoints, NoRequest, TypeOK, CallType, NetType
      <4>3. CASE ~rest.mine
        BY <2>26, <4>1, <4>3 DEF RestReceive, TypeOK, CallType
      <4> QED BY <3>1, <4>2, <4>3
    <3>4. NetType'
      BY <2>26 DEF RestReceive, NoReply, TypeOK, NetType
    <3> QED BY <2>26, <3>1, <3>2, <3>3, <3>4 DEF RestReceive, TypeOK
  <2>27. CASE ToggleOption
    BY <2>27 DEF ToggleOption, Upset, TypeOK, PlanType, CallType, NetType
  <2>28. CASE ModeReport
    BY <2>28 DEF ModeReport, Upset, TypeOK, PlanType, CallType, NetType
  <2>29. CASE Stop
    BY <2>29 DEF Stop, Upset, TypeOK, PlanType, CallType, NetType
  <2>30. CASE Crash
    BY <2>30 DEF Crash, Upset, NoCall, NoRequest, NoReply, EmptyTable, Tables,
              CallKinds, CallPoints, TypeOK, PlanType, CallType, NetType
  <2>31. CASE Restart
    BY <2>31 DEF Restart, RecoveredLatch, TypeOK, PlanType, CallType, NetType
  <2>32. CASE UNCHANGED vars
    BY <2>32 DEF TypeOK, PlanType, CallType, NetType
  <2> QED
    BY <2>1, <2>2, <2>3, <2>4, <2>5, <2>6, <2>7, <2>8, <2>9, <2>10, <2>11, <2>12,
       <2>13, <2>14, <2>15, <2>16, <2>17, <2>18, <2>19, <2>20, <2>21, <2>22, <2>23,
       <2>24, <2>25, <2>26, <2>27, <2>28, <2>29, <2>30, <2>31, <2>32
    DEF Next, Calls, CallStep, Environment
<1> QED BY <1>1, <1>2, PTL DEF Spec

(***************************************************************************)
(* The journal.                                                            *)
(***************************************************************************)

\* Steps that touch neither plans, latch nor journal, and leave the call's
\* kind and plan alone while it only moves on to "rest_seen" or not at all.
LEMMA QuietStep ==
  ASSUME JournalInv, TypeOK,
         UNCHANGED <<phase, storage, pending, plans, shelf, disk, resolved, sends>>,
         call' = call \/ (call.pc = "rest" /\ call' = [call EXCEPT !.pc = "rest_seen"])
  PROVE  JournalInv'
  BY DEF JournalInv, Unused, AtMostOnce, WriteAhead, Uncertain, NoCall,
         TypeOK, PlanType, CallType

\* A call that ends without a save leaves the journal and the latch in step.
LEMMA EndCallStep ==
  ASSUME JournalInv, TypeOK, EndCall,
         UNCHANGED <<phase, storage, pending, plans, shelf, disk, resolved, sends>>
  PROVE  JournalInv'
  BY DEF JournalInv, Unused, AtMostOnce, WriteAhead, Uncertain, NoCall, EndCall,
         TypeOK, PlanType

\* In every reachable state the journal on disk, the latch in memory, the
\* shelf of plans and the progress of the call fit together.
THEOREM JournalCorrect == Spec => []JournalInv
<1>1. Init => JournalInv
  BY DEF Init, JournalInv, Unused, AtMostOnce, WriteAhead, Uncertain, NoCall
<1>2. TypeOK /\ TypeOK' /\ JournalInv /\ [Next]_vars => JournalInv'
  <2> SUFFICES ASSUME TypeOK, TypeOK', JournalInv, [Next]_vars PROVE JournalInv'
    OBVIOUS
  <2> USE DEF diskVars, planVars, modeVars, cloudVars, netVars, callVars, vars
  <2>1. ASSUME NEW q \in Plans, ApplyCall(q) PROVE JournalInv'
    <3>1. CASE q \in young
      <4>1. call'.kind = "apply" /\ call'.pc = "snapshot" /\ call'.plan = q
        BY <2>1, <3>1, BeginType DEF ApplyCall, CallKinds, CallPoints
      <4> QED BY <2>1, <3>1, <4>1 DEF ApplyCall, Idle, WritesAllowed, Popped, JournalInv, Unused, AtMostOnce, WriteAhead, Uncertain, TypeOK, PlanType, CallType
    <3>2. CASE q \notin young
      BY <2>1, <3>2 DEF ApplyCall, Idle, Popped, NoCall, JournalInv, Unused, AtMostOnce, WriteAhead, Uncertain, TypeOK, PlanType, CallType
    <3> QED BY <3>1, <3>2
  <2>2. ASSUME NEW q \in Plans, CloudExecutes(q) PROVE JournalInv'
    BY <2>2, QuietStep DEF CloudExecutes
  <2>3. ASSUME NEW q \in Plans, Expire(q) PROVE JournalInv'
    BY <2>3, QuietStep DEF Expire
  <2>4. CASE AppEdit
    BY <2>4, QuietStep DEF AppEdit
  <2>5. CASE CloudSnapshot
    BY <2>5, QuietStep DEF CloudSnapshot
  <2>6. CASE Receive
    BY <2>6, QuietStep DEF Receive
  <2>7. CASE Connect
    BY <2>7, QuietStep DEF Connect
  <2>8. CASE Disconnect
    BY <2>8, QuietStep DEF Disconnect
  <2>9. CASE RestServe
    BY <2>9, QuietStep DEF RestServe
  <2>10. CASE RestReceive
    BY <2>10, QuietStep DEF RestReceive, TypeOK, NetType
  <2>11. CASE ToggleOption
    BY <2>11, QuietStep DEF ToggleOption
  <2>12. CASE ModeReport
    BY <2>12, QuietStep DEF ModeReport
  <2>13. CASE ReadCall
    <3>1. call'.kind = "read" /\ call'.pc \in {"snapshot", "rest"} /\ call'.plan = NoPlan
      BY <2>13, BeginType DEF ReadCall, CallKinds, CallPoints, TypeOK, PlanType
    <3> QED BY <2>13, <3>1 DEF ReadCall, Idle, JournalInv, Unused, AtMostOnce, WriteAhead, Uncertain, TypeOK, PlanType, CallType
  <2>14. CASE PreviewCall
    <3>1. call'.kind = "preview" /\ call'.pc \in {"snapshot", "rest"} /\ call'.plan = NoPlan
      BY <2>14, BeginType DEF PreviewCall, CallKinds, CallPoints, TypeOK, PlanType
    <3> QED BY <2>14, <3>1 DEF PreviewCall, Idle, JournalInv, Unused, AtMostOnce, WriteAhead, Uncertain, TypeOK, PlanType, CallType
  <2>15. CASE AcknowledgeCall
    <3>1. call'.kind = "ack" /\ call'.pc \in {"snapshot", "rest"} /\ call'.plan = pending
      BY <2>15, BeginType DEF AcknowledgeCall, CallKinds, CallPoints, TypeOK, PlanType
    <3> QED BY <2>15, <3>1 DEF AcknowledgeCall, Idle, JournalInv, Unused, AtMostOnce, WriteAhead, Uncertain, TypeOK, PlanType, CallType
  <2>16. CASE SnapshotFails
    BY <2>16, EndCallStep DEF SnapshotFails
  <2>17. CASE ReadReturns
    BY <2>17, EndCallStep DEF ReadReturns
  <2>18. CASE SendRefused
    BY <2>18, EndCallStep DEF SendRefused
  <2>19. CASE ControlFails
    BY <2>19, EndCallStep DEF ControlFails
  <2>20. CASE Abandon
    BY <2>20, EndCallStep DEF Abandon
  <2>21. CASE PreviewReturns
    <3>1. CASE UNCHANGED planVars
      BY <2>21, <3>1, EndCallStep DEF PreviewReturns
    <3>2. ASSUME NEW q \in Plans, NEW d \in Drafts(request.table),
                 plans[q] = NoPlan, plans' = [plans EXCEPT ![q] = d],
                 shelf' \in Shelved(q)
          PROVE  JournalInv'
      <4>1. d # NoPlan
        <5>1. request.table \in Tables
          BY <2>21 DEF PreviewReturns, FreshTable, SnapshotUsable, TypeOK
        <5> QED BY <5>1, DraftType
      <4>2. shelf' \subseteq shelf \cup {q}
        BY <3>2 DEF Shelved
      <4> QED BY <2>21, <3>2, <4>1, <4>2 DEF PreviewReturns, EndCall, NoCall, JournalInv, Unused, AtMostOnce, WriteAhead, Uncertain, TypeOK, PlanType, CallType
    <3> QED BY <2>21, <3>1, <3>2 DEF PreviewReturns
  <2>22. CASE ApplyChecked
    <3>1. CASE EndCall /\ UNCHANGED pending
      BY <2>22, <3>1, EndCallStep DEF ApplyChecked
    <3>2. CASE /\ WritesAllowed /\ pending' = call.plan
               /\ call' = [call EXCEPT !.pc = "saving", !.sock = sock]
      BY <2>22, <3>2 DEF ApplyChecked, WritesAllowed, Connected, NoCall, JournalInv, Unused, AtMostOnce, WriteAhead, Uncertain, TypeOK, PlanType, CallType
    <3> QED BY <2>22, <3>1, <3>2 DEF ApplyChecked
  <2>23. CASE JournalLands
    <3>1. CASE call.pc = "saving"
      BY <2>23, <3>1 DEF JournalLands, NoCall, JournalInv, Unused, AtMostOnce, WriteAhead, Uncertain, TypeOK, PlanType, CallType
    <3>2. CASE call.pc = "clearing"
      BY <2>23, <3>2 DEF JournalLands, NoCall, JournalInv, Unused, AtMostOnce, WriteAhead, Uncertain, TypeOK, PlanType, CallType
    <3> QED BY <2>23, <3>1, <3>2 DEF JournalLands
  <2>24. CASE SendFrame
    BY <2>24 DEF SendFrame, NoCall, JournalInv, Unused, AtMostOnce, WriteAhead, Uncertain, TypeOK, PlanType, CallType
  <2>25. CASE Confirmed
    <3>1. CASE EndCall
      BY <2>25, <3>1, EndCallStep DEF Confirmed
    <3>2. CASE call' = [call EXCEPT !.pc = "readback",
                          !.slot = MatchingSlot(plans[call.plan], reported, touched)]
      BY <2>25, <3>2 DEF Confirmed, NoCall, JournalInv, Unused, AtMostOnce, WriteAhead, Uncertain, TypeOK, PlanType, CallType
    <3> QED BY <2>25, <3>1, <3>2 DEF Confirmed
  <2>26. CASE Readback
    <3>1. CASE EndCall /\ UNCHANGED resolved
      BY <2>26, <3>1, EndCallStep DEF Readback
    <3>2. CASE /\ resolved' = resolved \cup {call.plan}
               /\ call' = [call EXCEPT !.pc = "clearing"]
      BY <2>26, <3>2 DEF Readback, FreshTable, NoCall, JournalInv, Unused, AtMostOnce, WriteAhead, Uncertain, TypeOK, PlanType, CallType
    <3> QED BY <2>26, <3>1, <3>2 DEF Readback
  <2>27. CASE Acknowledged
    <3>1. CASE EndCall /\ UNCHANGED resolved
      BY <2>27, <3>1, EndCallStep DEF Acknowledged
    <3>2. CASE /\ resolved' = resolved \cup {call.plan}
               /\ call' = [call EXCEPT !.pc = "clearing"]
      BY <2>27, <3>2 DEF Acknowledged, FreshTable, NoCall, JournalInv, Unused, AtMostOnce, WriteAhead, Uncertain, TypeOK, PlanType, CallType
    <3> QED BY <2>27, <3>1, <3>2 DEF Acknowledged
  <2>28. CASE LatchLifted
    BY <2>28 DEF LatchLifted, EndCall, NoCall, JournalInv, Unused, AtMostOnce, WriteAhead, Uncertain, TypeOK, PlanType, CallType
  <2>29. CASE Stop
    BY <2>29 DEF Stop, NoCall, JournalInv, Unused, AtMostOnce, WriteAhead, Uncertain, TypeOK, PlanType, CallType
  <2>30. CASE Crash
    BY <2>30 DEF Crash, NoCall, JournalInv, Unused, AtMostOnce, WriteAhead, Uncertain, TypeOK, PlanType, CallType
  <2>31. CASE Restart
    BY <2>31 DEF Restart, RecoveredLatch, NoCall, JournalInv, Unused, AtMostOnce, WriteAhead, Uncertain, TypeOK, PlanType, CallType
  <2>32. CASE UNCHANGED vars
    BY <2>32, QuietStep
  <2> QED
    BY <2>1, <2>2, <2>3, <2>4, <2>5, <2>6, <2>7, <2>8, <2>9, <2>10, <2>11, <2>12,
       <2>13, <2>14, <2>15, <2>16, <2>17, <2>18, <2>19, <2>20, <2>21, <2>22, <2>23,
       <2>24, <2>25, <2>26, <2>27, <2>28, <2>29, <2>30, <2>31, <2>32
    DEF Next, Calls, CallStep, Environment
<1> QED BY <1>1, <1>2, TypeCorrect, PTL DEF Spec

\* From before a frame leaves until its outcome is settled, the journal on
\* disk names its plan.
THEOREM JournalWrittenAhead == Spec => []WriteAhead
<1>1. JournalInv => WriteAhead
  BY DEF JournalInv
<1> QED BY <1>1, JournalCorrect, PTL

\* No plan is sent twice.
THEOREM SentAtMostOnce == Spec => []AtMostOnce
<1>1. JournalInv => AtMostOnce
  BY DEF JournalInv
<1> QED BY <1>1, JournalCorrect, PTL

\* Home Assistant knows of every uncertain write while its journal is usable.
THEOREM UncertainIsLatched == Spec => []LatchSeen
<1>1. TypeOK /\ JournalInv => LatchSeen
  BY DEF JournalInv, LatchSeen, WriteAhead, Uncertain, TypeOK, PlanType
<1> QED BY <1>1, TypeCorrect, JournalCorrect, PTL

\* The journal and the latch let go of a plan only after its outcome is known,
\* in this order; the latch in memory otherwise goes with the process only.
THEOREM LatchIsKept == Spec => LatchKept
<1>1. TypeOK /\ JournalInv /\ [Next]_vars =>
        [/\ disk # NoPlan /\ disk' # disk => disk' = NoPlan /\ disk \in resolved
         /\ pending # NoPlan /\ pending' # pending =>
              /\ pending' = NoPlan
              /\ phase' = "down" \/ (disk = NoPlan /\ pending \in resolved)]_vars
  <2> SUFFICES ASSUME TypeOK, JournalInv, Next
               PROVE  /\ disk # NoPlan /\ disk' # disk => disk' = NoPlan /\ disk \in resolved
                      /\ pending # NoPlan /\ pending' # pending =>
                           /\ pending' = NoPlan
                           /\ phase' = "down" \/ (disk = NoPlan /\ pending \in resolved)
    OBVIOUS
  <2> USE DEF diskVars, planVars, modeVars
  <2>1. CASE JournalLands
    <3>1. call.pc = "saving" => disk = NoPlan
      BY DEF JournalInv
    <3>2. call.pc = "clearing" /\ disk # NoPlan => disk = call.plan /\ disk \in resolved
      BY DEF JournalInv, TypeOK, PlanType, NoCall
    <3> QED BY <2>1, <3>1, <3>2 DEF JournalLands
  <2>2. CASE LatchLifted
    <3>1. disk = NoPlan /\ pending = call.plan /\ call.plan \in resolved
      BY <2>2 DEF LatchLifted, JournalInv, TypeOK, PlanType
    <3> QED BY <2>2, <3>1 DEF LatchLifted
  <2>3. CASE Crash
    BY <2>3 DEF Crash
  <2>4. CASE Restart
    BY <2>4 DEF Restart, JournalInv
  <2>5. CASE ApplyChecked
    BY <2>5 DEF ApplyChecked, WritesAllowed
  <2>6. CASE \/ Calls \/ Abandon \/ SnapshotFails \/ ReadReturns \/ PreviewReturns
             \/ SendFrame \/ SendRefused \/ Confirmed \/ ControlFails \/ Readback
             \/ Acknowledged \/ (Environment /\ ~Crash /\ ~Restart)
    <3>1. UNCHANGED <<disk, pending>>
      BY <2>6 DEF Calls, ReadCall, PreviewCall, ApplyCall, AcknowledgeCall, Abandon,
        Environment, CloudExecutes, Expire, AppEdit, CloudSnapshot, Receive, Connect,
        Disconnect, RestServe, RestReceive, ToggleOption, ModeReport, Stop,
        SnapshotFails, ReadReturns, PreviewReturns, SendFrame, SendRefused, Confirmed,
        ControlFails, Readback, Acknowledged
    <3> QED BY <3>1
  <2> QED BY <2>1, <2>2, <2>3, <2>4, <2>5, <2>6 DEF Next, CallStep
<1> QED BY <1>1, TypeCorrect, JournalCorrect, PTL DEF Spec, LatchKept

(***************************************************************************)
(* The tables: what the code takes for fresh was really held.              *)
(***************************************************************************)

\* A table that is on its way on this socket, that answered a request made on
\* it, or that a write under way on it was checked against, is one that the
\* controller has held since it opened. Socket numbers are not used again.
HeldInv ==
  /\ sock <= conns /\ request.sock <= conns /\ call.sock <= conns
  /\ cloud \in held
  /\ sock = 0 => down = <<>>
  /\ \A i \in 1..Len(down) : down[i].kind = "auth" => down[i].table \in held
  /\ request.table # NoTable /\ request.sock = sock /\ sock # 0 => request.table \in held
  /\ call.pc \in {"saving", "saved", "confirm", "readback"} /\ call.sock = sock /\ sock # 0 =>
       plans[call.plan].before \in held

\* Steps that leave sockets, tables and the call alone.
LEMMA TablesAlone ==
  ASSUME HeldInv, UNCHANGED <<sock, conns, down, request, call, cloud, held, plans>>
  PROVE  HeldInv'
  BY DEF HeldInv

\* A call that ends takes its request and its table with it.
LEMMA EndCallHeld ==
  ASSUME TypeOK, HeldInv, EndCall, UNCHANGED <<sock, conns, down, cloud, held>>
  PROVE  HeldInv'
  BY DEF HeldInv, EndCall, NoCall, NoRequest, TypeOK, NetType

\* A call that begins asks on the current socket, or not at all.
LEMMA BeginHeld ==
  ASSUME TypeOK, HeldInv, NEW kind \in CallKinds, NEW pc \in {"snapshot", "rest"},
         NEW p \in Plans \cup {NoPlan}, Begin(kind, pc, p), RequestSnapshot \/ UNCHANGED request,
         UNCHANGED <<sock, conns, down, cloud, held>>
  PROVE  HeldInv'
<1>1. call'.pc = pc /\ call'.sock = 0
  BY DEF Begin, NoCall
<1>2. request'.sock <= conns
  BY DEF RequestSnapshot, HeldInv
<1>3. request' = request \/ request'.table = NoTable
  BY DEF RequestSnapshot
<1> QED BY <1>1, <1>2, <1>3 DEF HeldInv, TypeOK, NetType

\* A changed slot adds the new table to those held.
LEMMA CloudSetsHeld ==
  ASSUME TypeOK, HeldInv, NEW s \in Slots, NEW e \in Entries \cup {NoEntry}, CloudSets(s, e),
         UNCHANGED <<sock, conns, request, call, plans>>
  PROVE  HeldInv'
<1> DEFINE m == [kind |-> "delta", slot |-> s, entry |-> e]
<1>1. cloud' \in held' /\ held \subseteq held'
  BY DEF CloudSets
<1>2. /\ sock = 0 => down' = <<>>
      /\ \A i \in 1..Len(down') : down'[i].kind = "auth" => down'[i].table \in held'
  <2>1. CASE UNCHANGED down
    BY <1>1, <2>1 DEF HeldInv
  <2>2. CASE sock # 0 /\ down' = Append(down, m)
    <3>1. down \in Seq(Messages) /\ m.kind # "auth"
      BY DEF TypeOK, NetType
    <3>2. Len(down') = Len(down) + 1 /\ down'[Len(down) + 1] = m
          /\ \A i \in 1..Len(down) : down'[i] = down[i]
      BY <2>2, <3>1
    <3>3. \A i \in 1..Len(down') : down'[i].kind = "auth" =>
            i \in 1..Len(down) /\ down'[i].table \in held'
      BY <1>1, <3>1, <3>2 DEF HeldInv
    <3> QED BY <2>2, <3>3
  <2> QED BY <2>1, <2>2 DEF CloudSets, Announce
<1> QED BY <1>1, <1>2 DEF HeldInv

\* What is left on the wire once its first message is taken.
LEMMA Behind ==
  ASSUME NEW wire \in Seq(Messages), wire # <<>>, NEW i \in 1..Len(Tail(wire))
  PROVE  i + 1 \in 1..Len(wire) /\ Tail(wire)[i] = wire[i + 1]
<1>1. Len(Tail(wire)) = Len(wire) - 1 /\ Len(wire) \in Nat
  OBVIOUS
<1>2. i + 1 \in 1..Len(wire)
  BY <1>1
<1> QED BY <1>1, <1>2

\* In every reachable state, the tables that the code relies on were held.
THEOREM TablesWereHeld == Spec => []HeldInv
<1>1. Init => HeldInv
  BY DEF Init, HeldInv, NoRequest, NoCall
<1>2. TypeOK /\ HeldInv /\ [Next]_vars => HeldInv'
  <2> SUFFICES ASSUME TypeOK, HeldInv, [Next]_vars PROVE HeldInv'
    OBVIOUS
  <2> USE DEF diskVars, planVars, modeVars, cloudVars, netVars, callVars, vars
  <2>1. ASSUME NEW p \in Plans, ApplyCall(p) PROVE HeldInv'
    <3>1. CASE p \in young
      BY <2>1, <3>1, BeginHeld DEF ApplyCall, CallKinds
    <3>2. CASE p \notin young
      BY <2>1, <3>2, TablesAlone DEF ApplyCall
    <3> QED BY <3>1, <3>2
  <2>2. CASE ReadCall
    BY <2>2, BeginHeld DEF ReadCall, CallKinds
  <2>3. CASE PreviewCall
    BY <2>3, BeginHeld DEF PreviewCall, CallKinds
  <2>4. CASE AcknowledgeCall
    BY <2>4, BeginHeld DEF AcknowledgeCall, CallKinds, TypeOK, PlanType
  <2>5. CASE SnapshotFails \/ ReadReturns \/ SendRefused \/ ControlFails \/ LatchLifted
             \/ Abandon \/ PreviewReturns
    BY <2>5, EndCallHeld DEF SnapshotFails, ReadReturns, SendRefused, ControlFails,
       LatchLifted, Abandon, PreviewReturns
  <2>6. CASE ApplyChecked
    <3>1. CASE EndCall
      BY <2>6, <3>1, EndCallHeld DEF ApplyChecked
    <3>2. CASE /\ WritesAllowed
               /\ request.table = plans[call.plan].before
               /\ call' = [call EXCEPT !.pc = "saving", !.sock = sock]
               /\ request' = NoRequest
      <4>1. request.table \in held
        BY <2>6, <3>2 DEF ApplyChecked, FreshTable, SnapshotUsable, Answered, Connected, HeldInv
      <4>2. call'.plan = call.plan /\ call'.sock = sock
        BY <3>2 DEF TypeOK, CallType
      <4>3. request'.sock = 0 /\ request'.table = NoTable
        BY <3>2 DEF NoRequest
      <4> QED BY <2>6, <3>2, <4>1, <4>2, <4>3 DEF ApplyChecked, HeldInv, TypeOK, NetType
    <3> QED BY <2>6, <3>1, <3>2 DEF ApplyChecked
  <2>7. CASE JournalLands
    <3>1. call'.plan = call.plan /\ call'.sock = call.sock /\ request' = request
          /\ (call'.pc = "saved" => call.pc = "saving") /\ call'.pc \in {"saved", "cleared"}
      BY <2>7 DEF JournalLands, TypeOK, CallType
    <3> QED BY <2>7, <3>1 DEF JournalLands, HeldInv
  <2>8. CASE SendFrame
    <3>1. call'.plan = call.plan /\ call'.sock = call.sock /\ call.pc = "saved"
      BY <2>8 DEF SendFrame, TypeOK, CallType
    <3> QED BY <2>8, <3>1 DEF SendFrame, HeldInv
  <2>9. CASE Confirmed
    <3>1. CASE EndCall
      BY <2>9, <3>1, EndCallHeld DEF Confirmed
    <3>2. CASE RequestSnapshot /\ call' = [call EXCEPT !.pc = "readback",
                 !.slot = MatchingSlot(plans[call.plan], reported, touched)]
      <4>1. call'.plan = call.plan /\ call'.sock = call.sock /\ call.pc = "confirm"
        BY <2>9, <3>2 DEF Confirmed, TypeOK, CallType
      <4>2. request'.sock = sock /\ request'.table = NoTable
        BY <3>2 DEF RequestSnapshot
      <4> QED BY <2>9, <4>1, <4>2 DEF Confirmed, HeldInv
    <3> QED BY <2>9, <3>1, <3>2 DEF Confirmed
  <2>10. CASE Readback \/ Acknowledged
    <3>1. CASE EndCall
      BY <2>10, <3>1, EndCallHeld DEF Readback, Acknowledged
    <3>2. CASE call' = [call EXCEPT !.pc = "clearing"] /\ request' = NoRequest
      <4>1. call'.pc = "clearing" /\ call'.sock = call.sock
        BY <3>2 DEF TypeOK, CallType
      <4>2. request'.sock = 0 /\ request'.table = NoTable
        BY <3>2 DEF NoRequest
      <4> QED BY <2>10, <4>1, <4>2 DEF Readback, Acknowledged, HeldInv, TypeOK, NetType
    <3> QED BY <2>10, <3>1, <3>2 DEF Readback, Acknowledged
  <2>11. ASSUME NEW p \in Plans, CloudExecutes(p) PROVE HeldInv'
    <3>1. plans[p].after \in Entries \cup {NoEntry}
      BY <2>11 DEF CloudExecutes, TypeOK, PlanType, PlanRecords
    <3> QED BY <2>11, <3>1, CloudSetsHeld DEF CloudExecutes
  <2>12. CASE AppEdit
    BY <2>12, CloudSetsHeld DEF AppEdit
  <2>13. CASE CloudSnapshot
    <3> DEFINE m == [kind |-> "auth", table |-> cloud]
    <3>1. down \in Seq(Messages) /\ down' = Append(down, m)
      BY <2>13 DEF CloudSnapshot, TypeOK, NetType
    <3>2. Len(down') = Len(down) + 1 /\ down'[Len(down) + 1] = m
          /\ \A i \in 1..Len(down) : down'[i] = down[i]
      BY <3>1
    <3>3. \A i \in 1..Len(down') : down'[i].kind = "auth" => down'[i].table \in held
      <4> SUFFICES ASSUME NEW i \in 1..Len(down'), down'[i].kind = "auth"
                   PROVE  down'[i].table \in held
        OBVIOUS
      <4>1. CASE i = Len(down) + 1
        BY <3>2, <4>1 DEF HeldInv
      <4>2. CASE i # Len(down) + 1
        <5>1. i \in 1..Len(down)
          BY <3>1, <3>2, <4>2
        <5> QED BY <3>2, <5>1 DEF HeldInv
      <4> QED BY <4>1, <4>2
    <3> QED BY <2>13, <3>3 DEF CloudSnapshot, HeldInv
  <2>14. CASE Receive
    <3> DEFINE m == Head(down)
    <3>1. down \in Seq(Messages) /\ down # <<>> /\ down' = Tail(down) /\ sock # 0
      BY <2>14 DEF Receive, Connected, TypeOK, NetType
    <3>2. m = down[1] /\ Len(down) >= 1 /\ Len(down') = Len(down) - 1
          /\ \A i \in 1..Len(down') : down'[i] = down[i + 1]
      BY <3>1
    <3>3. \A i \in 1..Len(down') : down'[i].kind = "auth" => down'[i].table \in held
      <4> SUFFICES ASSUME NEW i \in 1..Len(down'), down'[i].kind = "auth"
                   PROVE  down'[i].table \in held
        OBVIOUS
      <4>1. i + 1 \in 1..Len(down) /\ down'[i] = down[i + 1]
        BY <3>1, Behind
      <4> QED BY <4>1 DEF HeldInv
    <3>4. /\ request'.sock = request.sock
          /\ request' = request \/ (m.kind = "auth" /\ request'.table = m.table)
      <4>1. request \in [sock : Nat, table : Tables \cup {NoTable}]
        BY DEF TypeOK, CallType
      <4>2. CASE m.kind = "auth"
        <5>1. request' = AnsweredBy(m.table, sock)
          BY <2>14, <4>2 DEF Receive
        <5> QED BY <4>1, <4>2, <5>1 DEF AnsweredBy
      <4>3. CASE m.kind # "auth"
        BY <2>14, <4>3 DEF Receive
      <4> QED BY <4>2, <4>3
    <3>5. m.kind = "auth" => m.table \in held
      BY <3>2 DEF HeldInv
    <3>6. request'.table # NoTable /\ request'.sock = sock => request'.table \in held
      BY <3>1, <3>4, <3>5 DEF HeldInv
    <3> QED BY <2>14, <3>1, <3>3, <3>4, <3>6 DEF Receive, HeldInv
  <2>15. CASE Connect
    <3>1. conns' = conns + 1 /\ sock' = conns + 1 /\ held' = {cloud} /\ down = <<>>
          /\ UNCHANGED <<request, call, cloud, down, plans>>
      BY <2>15 DEF Connect, HeldInv
    <3>2. conns \in Nat /\ request.sock \in Nat /\ call.sock \in Nat
      BY DEF TypeOK, NetType, CallType
    <3>3. request.sock # sock' /\ call.sock # sock'
      BY <3>1, <3>2 DEF HeldInv
    <3> QED BY <3>1, <3>2, <3>3 DEF HeldInv
  <2>16. CASE Disconnect
    BY <2>16 DEF Disconnect, HeldInv, TypeOK, NetType
  <2>17. CASE RestReceive
    <3>1. CASE rest.mine
      <4>1. call'.pc = "rest_seen" /\ call'.sock = call.sock /\ request'.sock = 0
        BY <2>17, <3>1 DEF RestReceive, TypeOK, CallType
      <4> QED BY <2>17, <4>1 DEF RestReceive, HeldInv, TypeOK, NetType
    <3>2. CASE ~rest.mine
      BY <2>17, <3>2, TablesAlone DEF RestReceive
    <3> QED BY <3>1, <3>2
  <2>18. CASE Crash
    BY <2>18 DEF Crash, HeldInv, NoCall, NoRequest, TypeOK, NetType
  <2>19. CASE RestServe \/ ToggleOption \/ ModeReport \/ Stop \/ Restart
              \/ (\E p \in Plans : Expire(p)) \/ UNCHANGED vars
    BY <2>19, TablesAlone DEF RestServe, ToggleOption, ModeReport, Stop, Restart, Expire
  <2> QED
    BY <2>1, <2>2, <2>3, <2>4, <2>5, <2>6, <2>7, <2>8, <2>9, <2>10, <2>11, <2>12, <2>13,
       <2>14, <2>15, <2>16, <2>17, <2>18, <2>19
    DEF Next, Calls, CallStep, Environment
<1> QED BY <1>1, <1>2, TypeCorrect, PTL DEF Spec

\* A frame leaves only while all its permissions stand, and against a table
\* that the controller has held on this socket.
THEOREM SentOnHeldTable == Spec => SendOnFreshTable
<1>1. TypeOK /\ JournalInv /\ HeldInv /\ [Next]_vars =>
        [\A p \in Plans : sends'[p] # sends[p] =>
           /\ enabled /\ auto /\ p \in young
           /\ disk = p
           /\ plans[p].before \in held]_vars
  <2> SUFFICES ASSUME TypeOK, JournalInv, HeldInv, Next, NEW p \in Plans, sends'[p] # sends[p]
               PROVE  enabled /\ auto /\ p \in young /\ disk = p /\ plans[p].before \in held
    OBVIOUS
  <2> USE DEF diskVars, planVars, modeVars, cloudVars, netVars, callVars, vars
  <2>1. SendFrame
    BY DEF Next, CallStep, Calls, ReadCall, PreviewCall, ApplyCall, AcknowledgeCall, Abandon,
        Environment, CloudExecutes, Expire, AppEdit, CloudSnapshot, Receive, Connect,
        Disconnect, RestServe, RestReceive, ToggleOption, ModeReport, Stop, Crash, Restart,
        SnapshotFails, ReadReturns, PreviewReturns, ApplyChecked, JournalLands,
        SendRefused, Confirmed, ControlFails, Readback, Acknowledged, LatchLifted
  <2>2. p = call.plan
    BY <2>1 DEF SendFrame, TypeOK, PlanType
  <2>3. disk = p
    BY <2>1, <2>2 DEF SendFrame, JournalInv
  <2> QED BY <2>1, <2>2, <2>3 DEF SendFrame, StillPermitted, Connected, HeldInv
<1> QED BY <1>1, TypeCorrect, JournalCorrect, TablesWereHeld, PTL DEF Spec, SendOnFreshTable

\* What the readback verifies: the change in one slot the plan may target,
\* every other slot as reviewed, in a table that was held.
LEMMA ReadbackShows ==
  ASSUME TypeOK, HeldInv, Readback, Verified(call.plan)
  PROVE  LET plan == plans[call.plan] IN
         /\ plan \in PlanRecords /\ call.slot \in Slots
         /\ IF plan.operation = "create" THEN plan.before[call.slot] = NoEntry
            ELSE call.slot = plan.slot
         /\ [plan.before EXCEPT ![call.slot] = plan.after] \in held
<1> DEFINE plan == plans[call.plan]
           t == request.table
<1>1. plan \in PlanRecords /\ call.slot \in Slots
  BY DEF Readback, Verified, TypeOK, PlanType, CallType
<1>2. t = reported /\ t \in Tables /\ t \in held
  BY DEF Readback, Answered, SnapshotUsable, Connected, TypeOK, HeldInv
<1>3. /\ reported[call.slot] = plan.after
      /\ IF plan.operation = "create" THEN plan.before[call.slot] = NoEntry
         ELSE call.slot = plan.slot
  <2> DEFINE new == {s \in touched : plan.before[s] = NoEntry /\ reported[s] = plan.after}
  <2>1. MatchingSlot(plan, reported, touched) = call.slot /\ call.slot # NoSlot
    BY DEF Verified
  <2>2. CASE plan.operation = "create"
    <3>1. CASE \E s \in new : new = {s}
      <4>1. (CHOOSE s \in new : new = {s}) \in new
        BY <3>1
      <4>2. call.slot \in new
        BY <2>1, <2>2, <3>1, <4>1 DEF MatchingSlot
      <4> QED BY <2>2, <4>2
    <3>2. CASE ~ \E s \in new : new = {s}
      BY <2>1, <2>2, <3>2 DEF MatchingSlot
    <3> QED BY <3>1, <3>2
  <2>3. CASE plan.operation # "create"
    BY <2>1, <2>3 DEF MatchingSlot
  <2> QED BY <2>2, <2>3
<1>4. plan.before \in Tables
  BY <1>1 DEF PlanRecords
<1>5. \A s \in Slots : t[s] = [plan.before EXCEPT ![call.slot] = plan.after][s]
  BY <1>2, <1>3, <1>4 DEF Verified, OthersUnchanged, Tables
<1>6. t = [plan.before EXCEPT ![call.slot] = plan.after]
  BY <1>2, <1>4, <1>5 DEF Tables
<1> QED BY <1>1, <1>2, <1>3, <1>6

\* "confirmed" is true: the controller has held the reviewed table with the
\* intended change.
THEOREM ConfirmedWasHeld == Spec => ConfirmedTable
<1>1. TypeOK /\ HeldInv /\ [Next]_vars =>
        [\A p \in resolved' \ resolved : call.kind = "apply" =>
           [plans[p].before EXCEPT ![call.slot] = plans[p].after] \in held]_vars
  <2> SUFFICES ASSUME TypeOK, HeldInv, Next, NEW p \in resolved' \ resolved, call.kind = "apply"
               PROVE  [plans[p].before EXCEPT ![call.slot] = plans[p].after] \in held
    OBVIOUS
  <2> USE DEF diskVars, planVars, modeVars, cloudVars, netVars, callVars, vars
  <2>1. Readback
    BY DEF Next, CallStep, Calls, ReadCall, PreviewCall, ApplyCall, AcknowledgeCall, Abandon,
        Environment, CloudExecutes, Expire, AppEdit, CloudSnapshot, Receive, Connect,
        Disconnect, RestServe, RestReceive, ToggleOption, ModeReport, Stop, Crash, Restart,
        SnapshotFails, ReadReturns, PreviewReturns, ApplyChecked, JournalLands, SendFrame,
        SendRefused, Confirmed, ControlFails, Acknowledged, LatchLifted
  <2>2. p = call.plan /\ Verified(call.plan)
    BY <2>1 DEF Readback
  <2> QED BY <2>1, <2>2, ReadbackShows
<1> QED BY <1>1, TypeCorrect, TablesWereHeld, PTL DEF Spec, ConfirmedTable

(***************************************************************************)
(* Refinement: the transaction implements the abstract latch.              *)
(***************************************************************************)

\* A step that neither sends nor resolves is a stutter of the latch.
LEMMA StageUnchanged ==
  ASSUME UNCHANGED <<sends, resolved>>
  PROVE  UNCHANGED Stage
  BY DEF Stage

\* A plan that is resolved leaves the latch, if it was sent at all.
LEMMA StageSettles ==
  ASSUME TypeOK, NEW p \in Plans, resolved' = resolved \cup {p}, UNCHANGED sends
  PROVE  [Latch!LatchNext]_Stage
<1>1. CASE p \in Uncertain
  <2>1. Stage[p] = "uncertain"
    BY <1>1 DEF Stage, Uncertain, TypeOK, PlanType
  <2>2. Stage' = [Stage EXCEPT ![p] = "settled"]
    <3>1. \A q \in Plans : Stage'[q] = IF q = p THEN "settled" ELSE Stage[q]
      BY <1>1 DEF Stage, Uncertain
    <3> QED BY <3>1 DEF Stage
  <2> QED BY <2>1, <2>2 DEF Latch!LatchNext, Latch!Settle
<1>2. CASE p \notin Uncertain
  <2>1. UNCHANGED Stage
    BY <1>2 DEF Stage, Uncertain, TypeOK, PlanType
  <2> QED BY <2>1
<1> QED BY <1>1, <1>2

\* The detailed transaction, with its crashes, reconnections and failures,
\* never does what the abstract latch forbids.
THEOREM Refinement == Spec => LatchPromise
<1>1. Init => Latch!LatchInit
  BY DEF Init, Latch!LatchInit, Stage
<1>2. TypeOK /\ JournalInv /\ [Next]_vars => [Latch!LatchNext]_Stage
  <2> SUFFICES ASSUME TypeOK, JournalInv, [Next]_vars PROVE [Latch!LatchNext]_Stage
    OBVIOUS
  <2> USE DEF diskVars, planVars, modeVars, cloudVars, netVars, callVars, vars
  <2>1. CASE SendFrame
    <3> DEFINE p == call.plan
    <3>1. p \in Plans /\ sends[p] = 0 /\ p \notin resolved /\ disk = p
      BY <2>1 DEF SendFrame, JournalInv, Unused, TypeOK, PlanType
    <3>2. \A q \in Plans : Stage[q] # "uncertain"
      BY <3>1 DEF JournalInv, WriteAhead, Uncertain, Stage, TypeOK, PlanType
    <3>3. Stage[p] = "unsent"
      BY <3>1 DEF Stage
    <3>4. Stage' = [Stage EXCEPT ![p] = "uncertain"]
      <4>1. \A q \in Plans : sends'[q] = IF q = p THEN sends[q] + 1 ELSE sends[q]
        BY <2>1 DEF SendFrame, TypeOK, PlanType
      <4>2. \A q \in Plans : Stage'[q] = IF q = p THEN "uncertain" ELSE Stage[q]
        BY <2>1, <3>1, <4>1 DEF SendFrame, Stage
      <4> QED BY <4>2 DEF Stage
    <3> QED BY <3>1, <3>2, <3>3, <3>4 DEF Latch!LatchNext, Latch!Transmit
  <2>2. CASE Readback
    <3>1. call.plan \in Plans
      BY <2>2 DEF Readback, TypeOK, PlanType
    <3> QED BY <2>2, <3>1, StageSettles, StageUnchanged DEF Readback
  <2>3. CASE Acknowledged
    <3>1. call.plan \in Plans
      BY <2>3 DEF Acknowledged, TypeOK, PlanType
    <3> QED BY <2>3, <3>1, StageSettles, StageUnchanged DEF Acknowledged
  <2>4. CASE \/ Calls \/ Abandon \/ Environment \/ UNCHANGED vars
             \/ SnapshotFails \/ ReadReturns \/ PreviewReturns \/ ApplyChecked
             \/ JournalLands \/ SendRefused \/ Confirmed \/ ControlFails \/ LatchLifted
    <3>1. UNCHANGED <<sends, resolved>>
      BY <2>4 DEF Calls, ReadCall, PreviewCall, ApplyCall, AcknowledgeCall, Abandon,
        Environment, CloudExecutes, Expire, AppEdit, CloudSnapshot, Receive, Connect,
        Disconnect, RestServe, RestReceive, ToggleOption, ModeReport, Stop, Crash, Restart,
        SnapshotFails, ReadReturns, PreviewReturns, ApplyChecked, JournalLands,
        SendRefused, Confirmed, ControlFails, LatchLifted
    <3> QED BY <3>1, StageUnchanged
  <2> QED BY <2>1, <2>2, <2>3, <2>4 DEF Next, CallStep
<1> QED BY <1>1, <1>2, TypeCorrect, JournalCorrect, PTL DEF Spec, LatchPromise, Latch!LatchSpec

-----------------------------------------------------------------------------
(* Progress: the points of a call are in order, the later the smaller, and *)
(* a step of the call takes it at least one point on. What the prover has  *)
(* no means to show, that there always is such a step, is CallCanStep.     *)

Order == <<"cleared", "clearing", "readback", "confirm", "saved", "saving",
           "snapshot", "rest_seen", "rest">>

At(k) == call.pc = Order[k]
Below(k) == call.pc = "idle" \/ \E j \in 1..(k - 1) : At(j)

\* No step, of whomever, takes a call back to an earlier point, and each step
\* of the call itself takes it on.
LEMMA CallsAdvance ==
  ASSUME TypeOK, [Next]_vars, NEW k \in 1..9, At(k)
  PROVE  /\ At(k)' \/ Below(k)'
         /\ <<CallStep>>_vars => Below(k)'
<1> USE DEF diskVars, planVars, modeVars, cloudVars, netVars, callVars, vars
<1>2. call'.pc = "idle" => Below(k)'
  BY DEF Below
<1>3. /\ call.pc = "rest" /\ call'.pc = "rest_seen" => Below(k)'
      /\ call.pc \in {"snapshot", "rest_seen"} /\ call'.pc \in {"saving", "clearing"} => Below(k)'
      /\ call.pc = "saving" /\ call'.pc = "saved" => Below(k)'
      /\ call.pc = "saved" /\ call'.pc = "confirm" => Below(k)'
      /\ call.pc = "confirm" /\ call'.pc = "readback" => Below(k)'
      /\ call.pc = "readback" /\ call'.pc = "clearing" => Below(k)'
      /\ call.pc = "clearing" /\ call'.pc = "cleared" => Below(k)'
  BY DEF At, Below, Order
<1>4. EndCall => call'.pc = "idle"
  BY DEF EndCall, NoCall
<1>5. CallStep => Below(k)'
  <2>1. CASE SnapshotFails \/ ReadReturns \/ PreviewReturns \/ SendRefused \/ ControlFails \/ LatchLifted
    BY <1>2, <1>4, <2>1
       DEF SnapshotFails, ReadReturns, PreviewReturns, SendRefused, ControlFails, LatchLifted
  <2>2. CASE ApplyChecked
    BY <1>2, <1>3, <1>4, <2>2 DEF ApplyChecked, TypeOK, CallType
  <2>3. CASE JournalLands \/ SendFrame
    BY <1>3, <2>3 DEF JournalLands, SendFrame, TypeOK, CallType
  <2>4. CASE Confirmed \/ Readback
    BY <1>2, <1>3, <1>4, <2>4 DEF Confirmed, Readback, TypeOK, CallType
  <2>5. CASE Acknowledged
    BY <1>2, <1>3, <1>4, <2>5 DEF Acknowledged, FreshTable, TypeOK, CallType
  <2> QED BY <2>1, <2>2, <2>3, <2>4, <2>5 DEF CallStep
<1>6. call.pc # "idle"
  BY DEF At, Order
<1>7. ~CallStep => \/ call' = call \/ call' = NoCall
                   \/ call.pc = "rest" /\ call'.pc = "rest_seen"
  <2>1. Calls => FALSE
    BY <1>6 DEF Calls, ReadCall, PreviewCall, ApplyCall, AcknowledgeCall, Idle
  <2>2. Abandon \/ Crash => call' = NoCall
    BY DEF Abandon, EndCall, Crash
  <2>3. RestReceive => call' = call \/ (call.pc = "rest" /\ call'.pc = "rest_seen")
    BY DEF RestReceive, TypeOK, NetType, CallType
  <2>4. Environment => call' = call \/ Crash \/ RestReceive
    BY DEF Environment, CloudExecutes, Expire, AppEdit, CloudSnapshot, Receive, Connect,
           Disconnect, RestServe, ToggleOption, ModeReport, Stop, Restart
  <2> QED BY <2>1, <2>2, <2>3, <2>4 DEF Next
<1>8. call' = call => At(k)' \/ Below(k)'
  BY DEF At
<1>9. ~CallStep => At(k)' \/ Below(k)'
  BY <1>2, <1>3, <1>7, <1>8 DEF NoCall
<1> QED BY <1>5, <1>9

\* Every call returns and gives the lock of all equipment back, if none of its
\* awaits is a dead end: there is no loop in it that could go on for ever.
THEOREM EveryCallReturns == FairSpec /\ []CallCanStep => CallsReturn
<1>1. TypeOK /\ [Next]_vars =>
        /\ At(1) => At(1)' \/ Below(1)'
        /\ At(2) => At(2)' \/ Below(2)'
        /\ At(3) => At(3)' \/ Below(3)'
        /\ At(4) => At(4)' \/ Below(4)'
        /\ At(5) => At(5)' \/ Below(5)'
        /\ At(6) => At(6)' \/ Below(6)'
        /\ At(7) => At(7)' \/ Below(7)'
        /\ At(8) => At(8)' \/ Below(8)'
        /\ At(9) => At(9)' \/ Below(9)'
  BY CallsAdvance
<1>2. TypeOK /\ [Next]_vars /\ <<CallStep>>_vars =>
        /\ At(1) => Below(1)'
        /\ At(2) => Below(2)'
        /\ At(3) => Below(3)'
        /\ At(4) => Below(4)'
        /\ At(5) => Below(5)'
        /\ At(6) => Below(6)'
        /\ At(7) => Below(7)'
        /\ At(8) => Below(8)'
        /\ At(9) => Below(9)'
  BY CallsAdvance
<1>3. TypeOK => call.pc = "idle" \/ At(9) \/ Below(9)
  BY DEF TypeOK, CallType, CallPoints, At, Below, Order
<1>4. Below(1) => call.pc = "idle"
  BY DEF Below
<1>5. Below(2) => At(1) \/ Below(1)
  BY DEF Below
<1>6. Below(3) => At(2) \/ Below(2)
  BY DEF Below
<1>7. Below(4) => At(3) \/ Below(3)
  BY DEF Below
<1>8. Below(5) => At(4) \/ Below(4)
  BY DEF Below
<1>9. Below(6) => At(5) \/ Below(5)
  BY DEF Below
<1>10. Below(7) => At(6) \/ Below(6)
  BY DEF Below
<1>11. Below(8) => At(7) \/ Below(7)
  BY DEF Below
<1>12. Below(9) => At(8) \/ Below(8)
  BY DEF Below
<1>13. At(1) \/ At(2) \/ At(3) \/ At(4) \/ At(5) \/ At(6) \/ At(7) \/ At(8) \/ At(9) => call.pc # "idle"
  BY DEF At, Order
<1> QED BY <1>1, <1>2, <1>3, <1>4, <1>5, <1>6, <1>7, <1>8, <1>9, <1>10, <1>11, <1>12, <1>13, TypeCorrect, PTL
  DEF FairSpec, Spec, CallCanStep, CallsReturn
=============================================================================
