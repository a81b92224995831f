----------------------------- MODULE MCStartup -----------------------------
(* Model-checking instance of Startup: two PSMs, so that a listener opened *)
(* after a power cycle can differ from the one before.                     *)
EXTENDS Startup

CONSTANTS p1, p2

MCPsm == {p1, p2}
=============================================================================
