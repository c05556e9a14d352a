--------------------------- MODULE MCCoordinator ---------------------------
(* A small instance of Coordinator: two speeds, a grace period of three    *)
(* units and a delay of one.                                               *)
EXTENDS Coordinator, TLC

TwoSpeeds == {1, 2}
=============================================================================
