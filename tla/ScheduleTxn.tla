----------------------------- MODULE ScheduleTxn -----------------------------
(***************************************************************************)
(* The native-schedule transaction of schedules.py: read, preview, apply   *)
(* and acknowledge, with every await of the code as a point where frames,  *)
(* reconnections, option changes, edits made in the vendor's app, failures *)
(* and restarts interleave.                                                *)
(*                                                                         *)
(* The control lock is held for the whole of a call, so at most one call   *)
(* is in progress: call is that one, and a queued call has done nothing.   *)
(* Every other task runs between two steps of the call.                    *)
(*                                                                         *)
(* Outside src/, modelled from its use there: the vendor cloud, which may  *)
(* execute a frame it was sent late, never, or again; the WebSocket, which *)
(* is ordered while it lasts; and Home Assistant's Store, whose save       *)
(* either lands before the call goes on or never does.                     *)
(***************************************************************************)
EXTENDS Integers, Sequences, FiniteSets

CONSTANTS
  Plans,          \* plan identifiers (uuid4().hex)
  Slots,          \* numbered schedule slots of the controller
  Entries,        \* schedule entries: records with fields body and en
  NoEntry,        \* an absent or deleted slot
  NoPlan,         \* no plan: an empty latch or an unused identifier
  NoSlot,         \* no slot: the schedule_id of a create, or no match
  NoTable,        \* no table received
  InitialTables,  \* the tables the controller may hold at first
  Operations,     \* the operations of OPERATIONS in use
  RestAvailable,  \* whether the REST shadow answers at all
  MaxPlans,       \* MAX_PLANS
  MaxWire,        \* bound on undelivered WebSocket messages
  MaxUpsets       \* bound on disturbances: lost sockets, edits made in the
                  \* vendor's app, option and mode changes, expired plans,
                  \* unloads, restarts

Tables == [Slots -> Entries \cup {NoEntry}]

PlanRecords ==
  [operation : Operations,
   slot      : Slots \cup {NoSlot},
   before    : Tables,
   after     : Entries \cup {NoEntry}]

ASSUME ScheduleAssumption ==
  /\ NoEntry \notin Entries
  /\ \A e \in Entries : e.en \in BOOLEAN
  /\ NoPlan \notin Plans
  /\ NoPlan \notin PlanRecords
  /\ NoSlot \notin Slots
  /\ NoTable \notin Tables
  /\ \A e \in Entries, b \in BOOLEAN : [e EXCEPT !.en = b] \in Entries
  /\ Operations \subseteq {"create", "update", "enable", "disable", "delete"}
  /\ InitialTables \subseteq Tables
  /\ RestAvailable \in BOOLEAN
  /\ MaxPlans \in Nat /\ MaxPlans > 0
  /\ MaxWire \in Nat /\ MaxUpsets \in Nat

VARIABLES
  \* Home Assistant
  phase,      \* "running", "stopping" (unload began) or "down"
  storage,    \* "ok" or "error": the journal could not be loaded
  enabled,    \* writes_enabled, the opt-in of the options flow
  auto,       \* systemMode is reported as Auto
  pending,    \* the in-memory latch: the plan whose outcome is uncertain
  plans,      \* plans[p]: what identifier p was issued for
  shelf,      \* _plans: plans previewed and not yet used
  young,      \* plans created less than PLAN_TTL ago
  reported,   \* reported["sh"], the merged schedule table
  touched,    \* slots observed since the write's sequence was taken
  request,    \* _snapshot_request: its socket and, once resolved, its table
  control,    \* _pending_control of the write: its future
  call,       \* the call that holds the control lock
  sock,       \* the current WebSocket, 0 when there is none
  rest,       \* the REST response on its way
  \* Disk
  disk,       \* "pending" of the durable journal
  \* Vendor cloud and network
  cloud,      \* the controller's schedule table
  down,       \* messages on their way to Home Assistant
  conns,      \* how many sockets were opened, to tell them apart
  upsets,     \* how many disturbances there were
  \* History
  sends,      \* how often the frame of p left Home Assistant
  resolved,   \* plans read back as intended, or reviewed by a person
  held        \* tables the controller has held since this socket opened

diskVars  == <<disk, resolved>>
planVars  == <<plans, shelf, young>>
modeVars  == <<phase, storage, enabled, auto>>
cloudVars == <<cloud, held>>
netVars   == <<sock, down, conns, rest>>
callVars  == <<call, request, control, touched>>
vars == <<diskVars, planVars, modeVars, cloudVars, netVars, callVars,
          pending, reported, sends, upsets>>

EmptyTable == [s \in Slots |-> NoEntry]

NoRequest == [sock |-> 0, table |-> NoTable]
NoReply   == [table |-> NoTable, mine |-> FALSE]
NoCall    == [kind |-> "none", pc |-> "idle", plan |-> NoPlan, sock |-> 0, slot |-> NoSlot]

Messages == [kind : {"auth"}, table : Tables]
            \cup [kind : {"delta"}, slot : Slots, entry : Entries \cup {NoEntry}]

Init ==
  /\ phase = "running" /\ storage = "ok" /\ enabled = TRUE /\ auto = TRUE
  /\ pending = NoPlan /\ disk = NoPlan
  /\ plans = [p \in Plans |-> NoPlan] /\ shelf = {} /\ young = {}
  /\ cloud \in InitialTables /\ held = {cloud}
  /\ reported = EmptyTable /\ touched = {}
  /\ request = NoRequest /\ control = "none" /\ call = NoCall
  /\ sock = 0 /\ rest = NoReply /\ down = <<>>
  /\ conns = 0 /\ upsets = 0
  /\ sends = [p \in Plans |-> 0] /\ resolved = {}

-----------------------------------------------------------------------------
(* Guards and helpers of the code. The definitions whose names begin with   *)
(* Bug are slips the runs are shown to notice; nothing uses them.          *)

Connected == phase = "running" /\ sock # 0

BugWritesAllowed == enabled /\ storage = "ok" /\ auto /\ Connected

WritesAllowed ==
  /\ enabled
  /\ pending = NoPlan
  /\ storage = "ok"
  /\ auto
  /\ Connected

BugStillPermitted(p, ws) ==
  enabled /\ Connected /\ sock = ws /\ p \in young /\ reported = plans[p].before

\* Rechecked once the journal is on disk, right before the frame leaves.
StillPermitted(p, ws) ==
  /\ enabled
  /\ auto
  /\ Connected
  /\ sock = ws
  /\ p \in young
  /\ reported = plans[p].before

\* The slot where table shows the intended result of plan, among the slots
\* in seen. A created entry has to be in exactly one slot that was empty.
MatchingSlot(plan, table, seen) ==
  LET new == {s \in seen : plan.before[s] = NoEntry /\ table[s] = plan.after}
  IN  IF plan.operation = "create"
      THEN IF \E s \in new : new = {s} THEN CHOOSE s \in new : new = {s} ELSE NoSlot
      ELSE IF plan.slot \in seen /\ table[plan.slot] = plan.after
           THEN plan.slot ELSE NoSlot

BugOthersUnchanged(plan, table, slot) == TRUE

OthersUnchanged(plan, table, slot) ==
  \A s \in Slots \ {slot} : table[s] = plan.before[s]

\* "unchanged": the slot already holds what the plan asks for.
NothingToDo(plan) ==
  plan.slot # NoSlot /\ plan.before[plan.slot] = plan.after

BugPopped(p) == shelf

\* The plan leaves _plans whatever becomes of the call.
Popped(p) == shelf \ {p}

BugRecoveredLatch(loaded) == NoPlan

\* configure_storage: the latch a new process starts with.
RecoveredLatch(loaded) == IF loaded = "ok" THEN disk ELSE NoPlan

Answered == request # NoRequest /\ request.table # NoTable

\* What _fresh_websocket checks once a table has arrived.
SnapshotUsable ==
  /\ Connected
  /\ sock = request.sock
  /\ reported = request.table

\* The frame is out: observations count from here on.
Tracking == call.pc \in {"confirm", "readback"}

Observed(slots) == IF Tracking THEN touched \cup slots ELSE touched

\* _resolve_pending_control, run on every reported message.
Resolution(table, seen) ==
  IF control = "waiting" /\ MatchingSlot(plans[call.plan], table, seen) # NoSlot
  THEN "confirmed" ELSE control

\* observe: a table from an Authorization message on ws answers the
\* snapshot that was requested on that socket, once.
AnsweredBy(table, ws) ==
  IF request.sock = ws /\ request.table = NoTable
  THEN [request EXCEPT !.table = table] ELSE request

\* Leaving a call by return or exception: the finally clauses.
EndCall ==
  /\ call' = NoCall
  /\ request' = NoRequest
  /\ control' = "none"
  /\ touched' = {}
  /\ rest' = IF rest.mine THEN NoReply ELSE rest

\* Subscribe on the current socket and wait for a complete table.
RequestSnapshot == request' = [sock |-> sock, table |-> NoTable]

-----------------------------------------------------------------------------
(* Vendor cloud and network.                                               *)

Upset == upsets < MaxUpsets /\ upsets' = upsets + 1

\* A changed slot may be announced; an announcement may also never come.
Announce(s, entry) ==
  \/ UNCHANGED down
  \/ /\ sock # 0 /\ Len(down) < MaxWire
     /\ down' = Append(down, [kind |-> "delta", slot |-> s, entry |-> entry])

CloudSets(s, entry) ==
  /\ cloud' = [cloud EXCEPT ![s] = entry]
  /\ held' = held \cup {cloud'}
  /\ Announce(s, entry)

\* The cloud executes a frame it was sent: late, or once more.
CloudExecutes(p) ==
  /\ sends[p] > 0
  /\ \E s \in Slots :
       /\ IF plans[p].operation = "create" THEN cloud[s] = NoEntry ELSE s = plans[p].slot
       /\ CloudSets(s, plans[p].after)
  /\ UNCHANGED <<diskVars, planVars, modeVars, callVars, sock, conns, rest,
                 pending, reported, sends, upsets>>

\* Someone edits a schedule in the vendor's app.
AppEdit ==
  /\ Upset
  /\ \E s \in Slots, e \in Entries \cup {NoEntry} :
       e # cloud[s] /\ CloudSets(s, e)
  /\ UNCHANGED <<diskVars, planVars, modeVars, callVars, sock, conns, rest,
                 pending, reported, sends>>

\* An Authorization snapshot: the answer to a subscribe of this call, of the
\* bootstrap or of the watchdog -- nothing in it says which.
CloudSnapshot ==
  /\ sock # 0 /\ Len(down) < MaxWire
  /\ down' = Append(down, [kind |-> "auth", table |-> cloud])
  /\ UNCHANGED <<diskVars, planVars, modeVars, cloudVars, callVars, sock, conns, rest,
                 pending, reported, sends, upsets>>

\* The socket reads one message: merge, observe, resolve the pending control.
Receive ==
  /\ Connected /\ down # <<>>
  /\ down' = Tail(down)
  /\ LET m == Head(down) IN
       IF m.kind = "auth"
       THEN /\ reported' = m.table
            /\ touched' = Observed(Slots)
            /\ request' = AnsweredBy(m.table, sock)
       ELSE /\ reported' = [reported EXCEPT ![m.slot] = m.entry]
            /\ touched' = Observed({m.slot})
            /\ UNCHANGED request
  /\ control' = Resolution(reported', touched')
  /\ UNCHANGED <<diskVars, planVars, modeVars, cloudVars, call, sock, conns, rest,
                 pending, sends, upsets>>

Connect ==
  /\ phase = "running" /\ sock = 0
  /\ conns' = conns + 1 /\ sock' = conns'
  /\ held' = {cloud}
  /\ UNCHANGED <<diskVars, planVars, modeVars, callVars, cloud, down, rest,
                 pending, reported, sends, upsets>>

\* The socket is lost, or closed by stop or watchdog; what it carried is gone.
Disconnect ==
  /\ Upset
  /\ sock # 0
  /\ sock' = 0 /\ down' = <<>>
  /\ control' = IF control = "waiting" THEN "failed" ELSE control
  /\ UNCHANGED <<diskVars, planVars, modeVars, cloudVars, call, request, touched, conns,
                 rest, pending, reported, sends>>

\* The server answers a REST read of the poll loop, or of this call.
RestServe ==
  /\ RestAvailable /\ phase = "running" /\ rest = NoReply
  /\ \E mine \in {FALSE} \cup {call.pc = "rest"} :
       rest' = [table |-> cloud, mine |-> mine]
  /\ UNCHANGED <<diskVars, planVars, modeVars, cloudVars, callVars, sock, down, conns,
                 pending, reported, sends, upsets>>

\* The response arrives; it may be older than what the socket has reported.
\* REST observations never resolve the pending control by themselves.
RestReceive ==
  /\ phase = "running" /\ rest # NoReply
  /\ rest' = NoReply
  /\ reported' = rest.table
  /\ touched' = Observed(Slots)
  /\ call' = IF rest.mine THEN [call EXCEPT !.pc = "rest_seen"] ELSE call
  /\ request' = IF rest.mine THEN [sock |-> 0, table |-> rest.table] ELSE request
  /\ UNCHANGED <<diskVars, planVars, modeVars, cloudVars, control, sock, down, conns,
                 pending, sends, upsets>>

-----------------------------------------------------------------------------
(* The owner and the life of the process.                                  *)

\* The options flow toggles the opt-in without taking the control lock.
ToggleOption ==
  /\ Upset
  /\ phase = "running"
  /\ enabled' = ~enabled
  /\ UNCHANGED <<diskVars, planVars, cloudVars, netVars, callVars, phase, storage, auto,
                 pending, reported, sends>>

\* The controller reports another systemMode.
ModeReport ==
  /\ Upset
  /\ Connected
  /\ auto' = ~auto
  /\ UNCHANGED <<diskVars, planVars, cloudVars, netVars, callVars, phase, storage, enabled,
                 pending, reported, sends>>

\* A plan reaches PLAN_TTL.
Expire(p) ==
  /\ p \in young
  /\ Upset
  /\ young' = young \ {p}
  /\ UNCHANGED <<diskVars, modeVars, cloudVars, netVars, callVars, plans, shelf,
                 pending, reported, sends>>

\* Unload begins: async_stop sets _stopping; the socket closes later.
Stop ==
  /\ Upset
  /\ phase = "running"
  /\ phase' = "stopping"
  /\ UNCHANGED <<diskVars, planVars, cloudVars, netVars, callVars, storage, enabled, auto,
                 pending, reported, sends>>

\* The process dies, or the entry finishes unloading: memory is gone, the
\* journal stays. The state cache may or may not have been written.
Crash ==
  /\ \/ phase = "running" /\ Upset
     \/ phase = "stopping" /\ UNCHANGED upsets
  /\ phase' = "down"
  /\ pending' = NoPlan /\ shelf' = {} /\ young' = {}
  /\ reported' \in {reported, EmptyTable}
  /\ call' = NoCall /\ request' = NoRequest /\ control' = "none" /\ touched' = {}
  /\ sock' = 0 /\ down' = <<>> /\ rest' = NoReply
  /\ UNCHANGED <<diskVars, cloudVars, plans, storage, enabled, auto, conns, sends>>

\* Setup loads the journal; one that cannot be loaded blocks writes.
Restart ==
  /\ phase = "down"
  /\ phase' = "running"
  /\ storage' \in {"ok", "error"}
  /\ pending' = RecoveredLatch(storage')
  /\ UNCHANGED <<diskVars, planVars, cloudVars, netVars, callVars, enabled, auto,
                 reported, sends, upsets>>

-----------------------------------------------------------------------------
(* async_read, async_preview, async_apply, async_acknowledge: the calls.   *)

Idle == phase = "running" /\ call.pc = "idle"

Begin(kind, pc, p) == call' = [NoCall EXCEPT !.kind = kind, !.pc = pc, !.plan = p]

ReadCall ==
  /\ Idle
  /\ \/ Connected /\ RequestSnapshot /\ Begin("read", "snapshot", NoPlan)
     \/ RestAvailable /\ UNCHANGED request /\ Begin("read", "rest", NoPlan)
  /\ UNCHANGED <<diskVars, planVars, modeVars, cloudVars, netVars, control, touched,
                 pending, reported, sends, upsets>>

PreviewCall ==
  /\ Idle /\ pending = NoPlan /\ Connected
  /\ RequestSnapshot
  /\ Begin("preview", "snapshot", NoPlan)
  /\ UNCHANGED <<diskVars, planVars, modeVars, cloudVars, netVars, control, touched,
                 pending, reported, sends, upsets>>

\* apply takes the plan off the shelf first; an expired one is refused.
ApplyCall(p) ==
  /\ Idle /\ WritesAllowed /\ p \in shelf
  /\ shelf' = Popped(p)
  /\ IF p \in young
     THEN RequestSnapshot /\ Begin("apply", "snapshot", p)
     ELSE UNCHANGED <<call, request>>
  /\ UNCHANGED <<diskVars, modeVars, cloudVars, netVars, control, touched, plans, young,
                 pending, reported, sends, upsets>>

\* A person acknowledges the uncertain write they reviewed.
AcknowledgeCall ==
  /\ Idle /\ pending # NoPlan
  /\ \/ Connected /\ RequestSnapshot /\ Begin("ack", "snapshot", pending)
     \/ RestAvailable /\ UNCHANGED request /\ Begin("ack", "rest", pending)
  /\ UNCHANGED <<diskVars, planVars, modeVars, cloudVars, netVars, control, touched,
                 pending, reported, sends, upsets>>

-----------------------------------------------------------------------------
(* The steps of the call, each from one await to the next.                 *)

\* The snapshot did not come in time, could not be requested, or was
\* overtaken by another report, a reconnection or unload.
SnapshotFails ==
  /\ call.pc \in {"snapshot", "readback", "rest", "rest_seen"}
  /\ call.pc # "rest" => ~Answered \/ (call.pc # "rest_seen" /\ ~SnapshotUsable)
                          \/ (call.pc = "rest_seen" /\ reported # request.table)
  /\ EndCall
  /\ UNCHANGED <<diskVars, planVars, modeVars, cloudVars, sock, down, conns,
                 pending, reported, sends, upsets>>

FreshTable ==
  \/ call.pc = "snapshot" /\ Answered /\ SnapshotUsable
  \/ call.pc = "rest_seen" /\ reported = request.table

ReadReturns ==
  /\ call.kind = "read" /\ FreshTable
  /\ EndCall
  /\ UNCHANGED <<diskVars, planVars, modeVars, cloudVars, sock, down, conns,
                 pending, reported, sends, upsets>>

\* The plans async_preview builds on table. A new entry may not repeat an
\* existing one, whatever its label or enable state.
Plan(o, s, t, e) == [operation |-> o, slot |-> s, before |-> t, after |-> e]

Drafts(table) ==
  LET filled == {s \in Slots : table[s] # NoEntry}
      novel  == {e \in Entries : \A s \in filled : table[s].body # e.body}
  IN  {d \in {Plan("create", NoSlot, table, e) : e \in novel}
             \cup {Plan("update", s, table, e) : s \in filled, e \in Entries}
             \cup {Plan("delete", s, table, NoEntry) : s \in filled}
             \cup {Plan("enable", s, table, [table[s] EXCEPT !.en = TRUE]) : s \in filled}
             \cup {Plan("disable", s, table, [table[s] EXCEPT !.en = FALSE]) : s \in filled} :
         d.operation \in Operations}

\* Expired plans are dropped and, at MAX_PLANS, one more is evicted.
Shelved(p) ==
  LET live == shelf \cap young IN
    IF Cardinality(live) >= MaxPlans
    THEN {(live \ {q}) \cup {p} : q \in live}
    ELSE {live \cup {p}}

\* The preview stores a plan tied to the table it just read, or is refused
\* by the validation of equipment, fields, limits and overlaps.
PreviewReturns ==
  /\ call.kind = "preview" /\ FreshTable
  /\ \/ UNCHANGED planVars
     \/ \E p \in Plans, d \in Drafts(request.table) :
          /\ plans[p] = NoPlan
          /\ plans' = [plans EXCEPT ![p] = d]
          /\ shelf' \in Shelved(p)
          /\ young' = young \cup {p}
  /\ EndCall
  /\ UNCHANGED <<diskVars, modeVars, cloudVars, sock, down, conns,
                 pending, reported, sends, upsets>>

\* apply goes on against the table the preview was made from, sets the latch
\* and starts to save the journal; or it is refused and nothing is latched.
ApplyChecked ==
  LET p == call.plan IN
  /\ call.kind = "apply" /\ call.pc = "snapshot" /\ FreshTable
  /\ \/ /\ WritesAllowed
        /\ request.table = plans[p].before
        /\ ~NothingToDo(plans[p])
        /\ pending' = p
        /\ call' = [call EXCEPT !.pc = "saving", !.sock = sock]
        /\ request' = NoRequest
        /\ UNCHANGED <<control, touched, rest>>
     \/ EndCall /\ UNCHANGED pending    \* refused, or the pool context changed
  /\ UNCHANGED <<diskVars, planVars, modeVars, cloudVars, sock, down, conns,
                 reported, sends, upsets>>

\* The journal reaches the disk: naming the plan, or empty again.
JournalLands ==
  /\ \/ call.pc = "saving" /\ disk' = call.plan /\ call' = [call EXCEPT !.pc = "saved"]
     \/ call.pc = "clearing" /\ disk' = NoPlan /\ call' = [call EXCEPT !.pc = "cleared"]
  /\ UNCHANGED <<resolved, planVars, modeVars, cloudVars, netVars, request, control, touched,
                 pending, reported, sends, upsets>>

\* With the journal on disk, recheck everything and send the frame.
SendFrame ==
  LET p == call.plan IN
  /\ call.pc = "saved" /\ StillPermitted(p, call.sock)
  /\ sends' = [sends EXCEPT ![p] = @ + 1]
  /\ control' = "waiting"
  /\ touched' = {}
  /\ call' = [call EXCEPT !.pc = "confirm"]
  /\ UNCHANGED <<diskVars, planVars, modeVars, cloudVars, netVars, request,
                 pending, reported, upsets>>

SendRefused ==
  /\ call.pc = "saved" /\ ~StillPermitted(call.plan, call.sock)
  /\ EndCall
  /\ UNCHANGED <<diskVars, planVars, modeVars, cloudVars, sock, down, conns,
                 pending, reported, sends, upsets>>

\* The report matched: note the slot and read the whole table back.
Confirmed ==
  /\ call.pc = "confirm" /\ control = "confirmed"
  /\ \/ /\ Connected /\ sock = call.sock
        /\ RequestSnapshot
        /\ call' = [call EXCEPT !.pc = "readback",
                      !.slot = MatchingSlot(plans[call.plan], reported, touched)]
        /\ control' = "none"
        /\ UNCHANGED <<touched, rest>>
     \/ ~(Connected /\ sock = call.sock) /\ EndCall
  /\ UNCHANGED <<diskVars, planVars, modeVars, cloudVars, sock, down, conns,
                 pending, reported, sends, upsets>>

BugControlFails ==
  /\ call.pc = "confirm" /\ control = "failed"
  /\ EndCall
  /\ UNCHANGED <<diskVars, planVars, modeVars, cloudVars, sock, down, conns,
                 pending, reported, sends, upsets>>

\* No confirmation in SCHEDULE_TIMEOUT, or the socket closed first.
ControlFails ==
  /\ call.pc = "confirm" /\ control \in {"waiting", "failed"}
  /\ EndCall
  /\ UNCHANGED <<diskVars, planVars, modeVars, cloudVars, sock, down, conns,
                 pending, reported, sends, upsets>>

\* What the readback has to show before the latch may be lifted.
Verified(p) ==
  /\ sock = call.sock
  /\ call.slot # NoSlot
  /\ MatchingSlot(plans[p], reported, touched) = call.slot
  /\ OthersUnchanged(plans[p], request.table, call.slot)

Readback ==
  /\ call.pc = "readback" /\ Answered /\ SnapshotUsable
  /\ \/ /\ Verified(call.plan)
        /\ resolved' = resolved \cup {call.plan}
        /\ call' = [call EXCEPT !.pc = "clearing"]
        /\ request' = NoRequest
        /\ UNCHANGED <<control, touched, rest>>
     \/ ~Verified(call.plan) /\ EndCall /\ UNCHANGED resolved
  /\ UNCHANGED <<disk, planVars, modeVars, cloudVars, sock, down, conns,
                 pending, reported, sends, upsets>>

\* The fresh table is the one whose revision the person reviewed, or the
\* call is refused; the revision is an input, compared here and only here.
Acknowledged ==
  /\ call.kind = "ack" /\ FreshTable
  /\ \/ /\ resolved' = resolved \cup {call.plan}
        /\ call' = [call EXCEPT !.pc = "clearing"]
        /\ request' = NoRequest
        /\ UNCHANGED <<control, touched, rest>>
     \/ EndCall /\ UNCHANGED resolved
  /\ UNCHANGED <<disk, planVars, modeVars, cloudVars, sock, down, conns,
                 pending, reported, sends, upsets>>

\* The empty journal is on disk: the latch in memory is lifted.
LatchLifted ==
  /\ call.pc = "cleared"
  /\ pending' = NoPlan
  /\ EndCall
  /\ UNCHANGED <<diskVars, planVars, modeVars, cloudVars, sock, down, conns,
                 reported, sends, upsets>>

\* The save raised, or the caller was cancelled at any await: the latch, and
\* whatever is on disk, stay as they are.
Abandon ==
  /\ call.pc # "idle"
  /\ EndCall
  /\ UNCHANGED <<diskVars, planVars, modeVars, cloudVars, sock, down, conns,
                 pending, reported, sends, upsets>>

-----------------------------------------------------------------------------
CallStep ==
  \/ SnapshotFails \/ ReadReturns \/ PreviewReturns
  \/ ApplyChecked \/ JournalLands \/ SendFrame \/ SendRefused
  \/ Confirmed \/ ControlFails \/ Readback \/ Acknowledged \/ LatchLifted

Calls ==
  \/ ReadCall \/ PreviewCall
  \/ \E p \in Plans : ApplyCall(p)
  \/ AcknowledgeCall

Environment ==
  \/ \E p \in Plans : CloudExecutes(p) \/ Expire(p)
  \/ AppEdit \/ CloudSnapshot \/ Receive
  \/ Connect \/ Disconnect \/ RestServe \/ RestReceive
  \/ ToggleOption \/ ModeReport \/ Stop \/ Crash \/ Restart

Next == Calls \/ CallStep \/ Abandon \/ Environment

Spec == Init /\ [][Next]_vars

\* Every await of a call is bounded by a timeout or by local disk I/O.
FairSpec == Spec /\ WF_vars(CallStep)

-----------------------------------------------------------------------------
(* Properties.                                                             *)

CallKinds == {"none", "read", "preview", "apply", "ack"}
CallPoints == {"idle", "snapshot", "rest", "rest_seen", "saving", "saved",
               "confirm", "readback", "clearing", "cleared"}

CallType ==
  /\ call \in [kind : CallKinds, pc : CallPoints, plan : Plans \cup {NoPlan},
               sock : Nat, slot : Slots \cup {NoSlot}]
  /\ request \in [sock : Nat, table : Tables \cup {NoTable}]
  /\ request # NoRequest => call.pc \in {"snapshot", "rest_seen", "readback"}
  /\ control \in {"none", "waiting", "confirmed", "failed"}
  /\ control # "none" <=> call.pc = "confirm"
  /\ touched \subseteq Slots

PlanType ==
  /\ plans \in [Plans -> PlanRecords \cup {NoPlan}]
  /\ shelf \subseteq Plans /\ young \subseteq Plans
  /\ sends \in [Plans -> Nat] /\ resolved \subseteq Plans
  /\ pending \in Plans \cup {NoPlan} /\ disk \in Plans \cup {NoPlan}
  /\ \A p \in Plans : p \in shelf \/ sends[p] > 0 => plans[p] # NoPlan
  /\ call.kind = "apply" => call.plan \in Plans /\ plans[call.plan] # NoPlan
  /\ call.kind = "ack" => call.plan \in Plans
  /\ call.pc \in {"saving", "saved", "confirm", "readback"} => call.kind = "apply"
  /\ call.pc \in {"clearing", "cleared"} => call.kind \in {"apply", "ack"}

NetType ==
  /\ sock \in Nat /\ conns \in Nat
  /\ down \in Seq(Messages)
  /\ rest \in [table : Tables \cup {NoTable}, mine : BOOLEAN]
  /\ rest # NoReply => rest.table \in Tables
  /\ rest.mine => call.pc = "rest"

\* The variables hold what their comments say, and a call leaves nothing
\* behind: no snapshot request and no pending control outlives its await.
TypeOK ==
  /\ phase \in {"running", "stopping", "down"} /\ storage \in {"ok", "error"}
  /\ enabled \in BOOLEAN /\ auto \in BOOLEAN /\ upsets \in 0..MaxUpsets
  /\ cloud \in Tables /\ held \subseteq Tables /\ reported \in Tables
  /\ PlanType /\ CallType /\ NetType

Uncertain == {p \in Plans : sends[p] > 0 /\ p \notin resolved}

\* async_apply's write-ahead journal: from before a frame leaves until its
\* outcome is read back or reviewed, the disk names exactly that plan --
\* whatever fails, is cancelled, reconnects or restarts meanwhile.
WriteAhead == \A p \in Uncertain : disk = p

\* A plan is single-use: its frame never leaves twice, not even after an
\* acknowledgement, a failed call or a restart.
AtMostOnce == \A p \in Plans : sends[p] <= 1

\* Neither sent nor resolved.
Unused(p) == sends[p] = 0 /\ p \notin resolved

\* The inductive invariant behind the latch's promises: how the
\* journal, the latch in memory, the shelf and the progress of the call fit
\* together. A plan that can still be sent was never sent or resolved; the
\* disk never names a plan that memory has forgotten; and what is about to
\* be cleared is resolved.
JournalInv ==
  /\ phase = "down" => call = NoCall /\ pending = NoPlan /\ shelf = {}
  /\ storage = "error" => pending = NoPlan
  /\ phase # "down" /\ storage = "ok" /\ disk # NoPlan => pending = disk
  /\ \A p \in shelf : Unused(p) /\ p # pending /\ p # disk
  /\ \A p \in Plans : plans[p] = NoPlan =>
       Unused(p) /\ p # pending /\ p # disk
  /\ call.pc = "idle" => call = NoCall
  /\ call.kind = "apply" =>
       /\ call.plan \notin shelf
       /\ storage = "ok"
       /\ call.pc \in {"snapshot", "saving", "saved", "confirm", "readback", "clearing", "cleared"}
       /\ call.pc = "snapshot" => call.plan # pending /\ call.plan # disk
       /\ call.pc # "snapshot" => pending = call.plan
       /\ call.pc \in {"snapshot", "saving", "saved"} => Unused(call.plan)
  /\ call.kind = "ack" =>
       /\ pending = call.plan
       /\ call.pc \in {"snapshot", "rest", "rest_seen", "clearing", "cleared"}
  /\ call.kind \in {"none", "read", "preview"} =>
       call.pc \in {"idle", "snapshot", "rest", "rest_seen"}
  /\ call.pc = "saving" => disk = NoPlan
  /\ call.pc \in {"saved", "confirm", "readback"} => disk = call.plan
  /\ call.pc \in {"clearing", "cleared"} => call.plan \in resolved
  /\ call.pc = "cleared" => disk = NoPlan
  /\ AtMostOnce
  /\ WriteAhead

\* While Home Assistant runs with a usable journal, an uncertain write is
\* latched in memory, so needs_review shows and every new write is refused.
LatchSeen ==
  phase # "down" /\ storage = "ok" => \A p \in Uncertain : pending = p

\* A frame leaves only while the owner permits it, before the preview's
\* lifetime is over, and against a table that the controller has really held
\* on the same socket -- although the journal's save lies in between.
SendOnFreshTable ==
  [][\A p \in Plans : sends'[p] # sends[p] =>
        /\ enabled /\ auto /\ p \in young
        /\ disk = p
        /\ plans[p].before \in held]_vars

\* async_apply reports "confirmed" only for a table that the controller has
\* really held on this socket: the one previewed with the intended change in
\* one slot, and every other schedule as it was.
ConfirmedTable ==
  [][\A p \in resolved' \ resolved : call.kind = "apply" =>
        [plans[p].before EXCEPT ![call.slot] = plans[p].after] \in held]_vars

\* The record of an uncertain write is never overwritten by another plan and
\* never dropped early: the disk forgets a plan only after its outcome was read
\* back or reviewed, and memory only after the disk has, or with the process.
LatchKept ==
  [][/\ disk # NoPlan /\ disk' # disk => disk' = NoPlan /\ disk \in resolved
     /\ pending # NoPlan /\ pending' # pending =>
          /\ pending' = NoPlan
          /\ phase' = "down" \/ (disk = NoPlan /\ pending \in resolved)]_vars

\* The transaction implements the abstract latch.
Stage == [p \in Plans |-> IF sends[p] = 0 THEN "unsent"
                          ELSE IF p \in resolved THEN "settled" ELSE "uncertain"]

Latch == INSTANCE ScheduleLatch WITH stage <- Stage

LatchPromise == Latch!LatchSpec

\* Every call returns and releases the control lock, which all equipment
\* commands need: no wait in it is unbounded.
CallsReturn == call.pc # "idle" ~> call.pc = "idle"

\* No await of a call is a dead end: whatever is on its way, lost or late, the
\* code has a next step for the call. What CallsReturn rests on besides order.
CallCanStep == call.pc # "idle" => ENABLED <<CallStep>>_vars
=============================================================================
