--------------------------- MODULE NativeSchedules ---------------------------
(***************************************************************************)
(* The schedule transaction composed with the rules that decide which plans*)
(* it makes, and with the trace that watches it: what TCXSchedules and     *)
(* NativeScheduleTrace are together inside one client.                     *)
(*                                                                         *)
(* A deletion announced by itself leaves a tombstone in the merged table   *)
(* (_deep_merge stores the null); a complete snapshot replaces the table.  *)
(* The transaction reads both as an empty slot, the trace tells them apart.*)
(***************************************************************************)
EXTENDS ScheduleTxn, ScheduleRules, ScheduleTrace

\* The entries of the transaction are the entries that the rules read.
ASSUME NativeAssumption == Entries \subseteq [body : Bodies, en : BOOLEAN]

VARIABLES
  nulls,   \* slots that reported["sh"] has with the value null
  trace    \* client.schedule_trace

traceVars  == <<nulls, trace>>
nativeVars == <<vars, traceVars>>

NativeInit == Init /\ nulls = {} /\ trace = EmptyTrace

\* reported["sh"] with the keys it really has.
SeenTable ==
  [s \in {s \in Slots : reported[s] # NoEntry} \cup nulls |-> reported[s]]

Traced == trace' = WithTable(trace, SeenTable')

\* A message of the socket: merge, observe, trace the merged table.
NativeReceive ==
  /\ Receive
  /\ LET m == Head(down)
     IN  nulls' = IF m.kind = "auth" THEN {}
                  ELSE IF m.entry = NoEntry THEN nulls \cup {m.slot} ELSE nulls \ {m.slot}
  /\ Traced

NativeRestReceive == RestReceive /\ nulls' = {} /\ Traced

\* async_preview keeps a plan only if the rules accept it.
NativePreviewReturns ==
  /\ PreviewReturns
  /\ \A p \in Plans : plans'[p] # plans[p] => Accepted(plans'[p], NoEntry)
  /\ UNCHANGED traceVars

\* async_apply records "confirmed" once the latch is lifted.
NativeLatchLifted ==
  /\ LatchLifted
  /\ trace' = IF call.kind = "apply" THEN WithConfirmed(trace, call.plan) ELSE trace
  /\ UNCHANGED nulls

BugNativeReadback ==
  /\ Readback
  /\ trace' = IF call'.pc = "clearing" THEN WithConfirmed(trace, call.plan) ELSE trace
  /\ UNCHANGED nulls

NativeReadback == Readback /\ UNCHANGED traceVars

\* The trace lives in memory only; the cached table keeps its nulls.
NativeCrash ==
  /\ Crash
  /\ trace' = EmptyTrace
  /\ nulls' \in {{}, nulls}

\* The steps of the call that observe nothing and record no confirmation.
UntracedCallStep ==
  /\ \/ SnapshotFails \/ ReadReturns \/ ApplyChecked \/ JournalLands
     \/ SendFrame \/ SendRefused \/ Confirmed \/ ControlFails \/ Acknowledged
  /\ UNCHANGED traceVars

NativeCallStep ==
  UntracedCallStep \/ NativePreviewReturns \/ NativeReadback \/ NativeLatchLifted

UntracedStep ==
  /\ \/ Calls \/ Abandon
     \/ \E p \in Plans : CloudExecutes(p) \/ Expire(p)
     \/ AppEdit \/ CloudSnapshot \/ Connect \/ Disconnect \/ RestServe
     \/ ToggleOption \/ ModeReport \/ Stop \/ Restart
  /\ UNCHANGED traceVars

NativeNext ==
  \/ NativeReceive \/ NativeRestReceive
  \/ NativeCallStep \/ UntracedStep \/ NativeCrash

NativeSpec == NativeInit /\ [][NativeNext]_nativeVars

-----------------------------------------------------------------------------
(* Properties.                                                             *)

\* The slots a plan's frame may write: the controller picks an empty one
\* for a create.
Targets(plan) ==
  IF plan.operation = "create"
  THEN {s \in Slots : plan.before[s] = NoEntry} ELSE {plan.slot}

Result(plan, s) == [plan.before EXCEPT ![s] = plan.after]

\* async_preview's rules do what they are for: executed on the table it was
\* previewed on, in whichever slot, no plan puts two enabled schedules of the
\* same equipment into one minute that were not in conflict before.
PlansApart ==
  \A p \in Plans : plans[p] # NoPlan =>
    \A s \in Targets(plans[p]) :
      Clashes(Result(plans[p], s), NoEntry) \subseteq Clashes(plans[p].before, NoEntry)

\* async_apply reports "confirmed" only for a table that the controller has
\* really held on this socket, REST snapshots or not, and that table has no
\* conflict between enabled schedules which the reviewed table did not have.
ConfirmedApart ==
  [][\A p \in resolved' \ resolved : call.kind = "apply" =>
        LET t == Result(plans[p], call.slot)
        IN  t \in held /\ Clashes(t, NoEntry) \subseteq Clashes(plans[p].before, NoEntry)]_nativeVars

\* Each entry marked as a change is exactly the difference to the entry
\* before it, and the last one is the table the trace holds.
Chained(t) ==
  LET c == t.changes IN
    /\ \A i \in 1..(Len(c) - 1) :
         c[i + 1].kind = "change" => c[i + 1].diff = Difference(c[i].table, c[i + 1].table)
    /\ t.table # Unset => c # <<>> /\ c[Len(c)].table = t.table

\* What a reader of the diagnostics concludes from reported_table's ring
\* holds across truncated captures, tombstones, reconnections and stale REST
\* snapshots: the entries chain up to the table that the client now has.
ChangesChain ==
  Chained(trace) /\ (trace.table # Unset => trace.table = SeenTable)

Credited(t) == {t.confirmed} \cup {t.changes[i].confirmed : i \in DOMAIN t.changes}

\* The confirmed operation filed beside a change is one whose outcome is
\* settled: neither the latch nor the journal still calls it uncertain.
Attributed ==
  \A p \in Credited(trace) \ {Unset} : p \in resolved /\ pending # p /\ disk # p

=============================================================================
