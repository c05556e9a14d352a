---------------------------- MODULE ScheduleLatch ----------------------------
(***************************************************************************)
(* What schedules.py promises of a native schedule write, and nothing of   *)
(* how: a previewed plan leaves Home Assistant at most once, and no plan   *)
(* leaves while the outcome of another is still uncertain -- across        *)
(* failures, reconnections and restarts.                                   *)
(***************************************************************************)
CONSTANT Plans          \* identifiers of previewed plans (uuid4 in the code)

VARIABLE stage          \* stage[p]: how far plan p has come

Stages == {"unsent", "uncertain", "settled"}

LatchInit == stage = [p \in Plans |-> "unsent"]

\* The frame of p leaves Home Assistant.
Transmit(p) ==
  /\ stage[p] = "unsent"
  /\ \A q \in Plans : stage[q] # "uncertain"
  /\ stage' = [stage EXCEPT ![p] = "uncertain"]

\* The outcome of p was read back, or a person reviewed it.
Settle(p) ==
  /\ stage[p] = "uncertain"
  /\ stage' = [stage EXCEPT ![p] = "settled"]

LatchNext == \E p \in Plans : Transmit(p) \/ Settle(p)

LatchSpec == LatchInit /\ [][LatchNext]_stage
=============================================================================
