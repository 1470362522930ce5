------------------------------ MODULE MCWatcher ------------------------------
(***************************************************************************)
(* Watcher for TLC.  Three deliveries over pages of two give a full page,  *)
(* a short one and mail that arrives during a drain; two rungs of the      *)
(* ladder and two restarts let a count be built up, read back and built    *)
(* on again.  The server may answer with a page of old mail.               *)
(***************************************************************************)
EXTENDS Watcher

MCMaxSeq == 3
MCPageSize == 2
MCMaxFailures == 2
MCMaxCrashes == 2
MCStalePages == TRUE
==============================================================================
