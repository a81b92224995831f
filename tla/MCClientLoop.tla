---------------------------- MODULE MCClientLoop ----------------------------
(* Model-checking instance of ClientLoop.                                  *)
EXTENDS ClientLoop
=============================================================================
