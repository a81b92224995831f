--------------------------- MODULE MCBleSessions ---------------------------
(* Model-checking instance of BleSessions: two nodes and two devices.      *)
EXTENDS BleSessions, TLC

CONSTANTS n1, n2, d1, d2

MCNode == {n1, n2}
MCDevice == {d1, d2}
(* A prefix is named after its node, which keeps nodes interchangeable.    *)
MCPrefixOf == [n \in MCNode |-> n]

MCRotatingOne == {n2}

(* No step and no state predicate but the type of `radio` reads `radio`;   *)
(* the action properties look at its new value in every step.              *)
MCView == <<core, emits, reported>>

MCDeviceSymmetry == Permutations(MCDevice)
=============================================================================
