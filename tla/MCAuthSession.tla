--------------------------- MODULE MCAuthSession ---------------------------
(* A small instance of AuthSession: a request takes at most one step, and  *)
(* tokens live a little less than the floor, or as long.                   *)
EXTENDS AuthSession

ShortLives == {5, 6}
=============================================================================
