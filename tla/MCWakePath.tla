----------------------------- MODULE MCWakePath -----------------------------
(***************************************************************************)
(* WakePath for TLC.  Two deliveries in one page let one be held while the *)
(* other is urgent; one restart lets what a process had checkpointed be    *)
(* compared with what it had announced.                                    *)
(***************************************************************************)
EXTENDS WakePath

MCMaxSeq == 2
MCPageSize == 2
MCMaxFailures == 1
MCMaxCrashes == 1
MCStalePages == FALSE

(* Liveness: pages of old mail too, so that the progress guard is needed.   *)
LiveMaxSeq == 1
LiveMaxCrashes == 0
LiveStalePages == TRUE
==============================================================================
