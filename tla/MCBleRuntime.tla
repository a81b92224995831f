---------------------------- MODULE MCBleRuntime ----------------------------
(* Model-checking instance of BleRuntime: one peer behind one device.      *)
EXTENDS BleRuntime

CONSTANTS n1, d1

MCNode == {n1}
MCDevice == {d1}
MCPrefixOf == [n \in MCNode |-> n]
=============================================================================
