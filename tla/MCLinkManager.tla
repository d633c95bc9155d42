--------------------------- MODULE MCLinkManager ---------------------------
(***************************************************************************)
(* LinkManager for TLC: one or two headsets as model values.               *)
(***************************************************************************)
EXTENDS LinkManager

CONSTANTS d1, d2   \* headsets
=============================================================================
