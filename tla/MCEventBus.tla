----------------------------- MODULE MCEventBus -----------------------------
(* Small instances of EventBus for TLC.                                    *)
EXTENDS EventBus, TLC

CONSTANTS k1, k2, k3

\* clients are interchangeable (used by the runs without liveness)
ClientSymmetry == Permutations(Clients)
=============================================================================
