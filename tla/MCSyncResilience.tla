-------------------------- MODULE MCSyncResilience --------------------------
(***************************************************************************)
(* SyncResilience for TLC.  Three calls on two workers: two run side by    *)
(* side, and the third is refused, or takes the place of one that ended or *)
(* was cancelled before a worker took it.  A worker may take its time, so  *)
(* that work waits in the queue although the bulkhead has no room for more *)
(* than its workers.  One of the calls is not safe to repeat.              *)
(***************************************************************************)
EXTENDS SyncResilience

CONSTANTS k1, k2, k3

MCCall == {k1, k2, k3}
MCBare == {k1}
MCSlots == 2
MCQueueSize == 0
MCMaxRetries == 1
=============================================================================
