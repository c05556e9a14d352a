---------------------------- MODULE MCConnection ----------------------------
(* Small instances of Connection: times in units of about ten seconds with *)
(* the long windows shortened, in the order of the code's own constants.   *)
EXTENDS Connection, TLC
=============================================================================
