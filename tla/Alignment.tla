------------------------------ MODULE Alignment ------------------------------
(***************************************************************************)
(* What api.py promises of the correction that follows a startup, and      *)
(* nothing of how: a startup arms one correction at most, only the newest  *)
(* startup may still write or confirm it, it is written at most once, and  *)
(* what is over stays over -- whoever waits for the lock, cancels or       *)
(* disconnects meanwhile.                                                  *)
(***************************************************************************)
EXTENDS Integers

CONSTANT Startups       \* startups that succeed, numbered from 1

VARIABLE correction     \* correction[g]: how far that of startup g has come

Open == {"armed", "written"}

AlignInit == correction = [g \in Startups |-> "none"]

Newest(g) == \A h \in Startups : correction[h] # "none" => h <= g

Becoming(g, c) == correction' = [correction EXCEPT ![g] = c]

\* A startup succeeds: its speed is to be aligned once priming is over.
Arm(g) ==
  /\ \A h \in Startups : correction[h] # "none" <=> h < g
  /\ Becoming(g, "armed")

\* The manual speed is commanded.
Write(g) == correction[g] = "armed" /\ Newest(g) /\ Becoming(g, "written")

\* The motor runs at the speed that the startup asked for.
Confirm(g) == correction[g] \in Open /\ Newest(g) /\ Becoming(g, "confirmed")

\* Cancelled, overridden, skipped, failed or too late.
GiveUp(g) == correction[g] \in Open /\ Becoming(g, "over")

AlignNext ==
  /\ correction' # correction
  /\ \E g \in Startups : Arm(g) \/ Write(g) \/ Confirm(g) \/ GiveUp(g)

AlignSpec == AlignInit /\ [][AlignNext]_correction
=============================================================================
