---------------------------- MODULE MCGateCircuit ----------------------------
(***************************************************************************)
(* GateCircuit for TLC.  Two parallel hooks: one can be on the network,    *)
(* and get its verdict, while the other reads, truncates and writes.  The  *)
(* count goes past the threshold and the cooldown lasts three ticks, of    *)
(* which a fast-fail can use the second.                                   *)
(***************************************************************************)
EXTENDS GateCircuit

CONSTANTS h1, h2

MCHooks == {h1, h2}
MCOneHook == {h1}
MCThreshold == 3
MCCooldown == 3
MCMaxCount == 3
==============================================================================
