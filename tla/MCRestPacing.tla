---------------------------- MODULE MCRestPacing ----------------------------
(* Small instances of RestPacing: times in units of a minute or more, with *)
(* the same proportions as the code's 120, 1800 and 3600 seconds or less.  *)
EXTENDS RestPacing, TLC

CONSTANTS c1, c2

OneCaller == {c1}
TwoCallers == {c1, c2}

\* No Retry-After, one below the interval cap, one above it.
Delays == {0, 3, MaxInterval + 2}
=============================================================================
