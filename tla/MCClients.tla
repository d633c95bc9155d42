----------------------------- MODULE MCClients -----------------------------
(* Two values of one setting.                                              *)
EXTENDS Clients

CONSTANTS low, high
=============================================================================
