------------------------------ MODULE MCDeploy ------------------------------
(* Two calls at a time.                                                    *)
EXTENDS Deploy, TLC

CONSTANTS p1, p2, a, b, m, git, old, new

Pids == Permutations(Procs)
=============================================================================
