----------------------------- MODULE MCCoalescer -----------------------------
(***************************************************************************)
(* Coalescer for TLC.  The window is longer than the quiet time, as in the *)
(* defaults (2500 ms and 800 ms), so both deadlines can end a hold; six    *)
(* messages make two bursts with a tail, or a tail cut short by an urgent  *)
(* one, with close() falling anywhere between them.                        *)
(***************************************************************************)
EXTENDS Coalescer

MCWindow == 3
MCQuiet == 2
MCMaxMessages == 6
MCMaxWaiting == 2
==============================================================================
