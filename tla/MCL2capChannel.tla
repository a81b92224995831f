--------------------------- MODULE MCL2capChannel ---------------------------
(* Model-checking instance of L2capChannel: runtimes a and b.              *)
EXTENDS L2capChannel

CONSTANTS a, b,
          PayloadsOfA, PayloadsOfB  \* how many payloads each of them dispatches

MCSide == {a, b}
MCPeer == [s \in MCSide |-> IF s = a THEN b ELSE a]
MCPayloads == [s \in MCSide |-> IF s = a THEN PayloadsOfA ELSE PayloadsOfB]
=============================================================================
