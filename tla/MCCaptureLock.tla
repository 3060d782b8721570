---------------------------- MODULE MCCaptureLock ----------------------------
(* CaptureLock with a few process numbers.                                 *)
EXTENDS CaptureLock, TLC

CONSTANTS p1, p2, p3

MCPids == {p1, p2, p3}

(* Process numbers are only compared.                                      *)
PidSymmetry == Permutations(MCPids)
=============================================================================
