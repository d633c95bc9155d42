---------------------------- MODULE MCStateFile ----------------------------
(* Two processes, alone or side by side.                                   *)
EXTENDS StateFile

CONSTANTS p1, p2
=============================================================================
