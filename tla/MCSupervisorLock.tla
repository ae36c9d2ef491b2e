--------------------------- MODULE MCSupervisorLock ---------------------------
(* Three callers race; five files are enough for each of them to create one *)
(* and for two of them to try again.                                        *)
EXTENDS SupervisorLock, TLC

CONSTANTS c1, c2, c3

Symmetric == Permutations({c1, c2, c3})
=============================================================================
