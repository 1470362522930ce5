--------------------------- MODULE MCWatchRegistry ---------------------------
(***************************************************************************)
(* Two agents, bob and bob-ci (whose name extends bob's), the two default  *)
(* state keys, two process ids and two commands; some of bob's watchers    *)
(* are started without --agent.  With an explicit key a child cannot come  *)
(* up under another one: fewer behaviours, not others.                     *)
(***************************************************************************)
EXTENDS WatchRegistry, TLC
CONSTANTS bob, bobci, labelled, unlabelled, p1, p2, d1, d2
MCAgent       == {bob, bobci}
MCNamedAfter  == [a \in MCAgent |-> IF a = bob THEN {bobci} ELSE {}]
MCBare        == {bob}
MCExplicit    == {}
MCImplicit    == {labelled, unlabelled}
MCPid         == {p1, p2}
MCCmd         == {d1, d2}
MCMaxSpawns   == 2
MCMaxCommands == 2
MCSymmetry    == Permutations(MCPid) \cup Permutations(MCCmd)
=============================================================================
