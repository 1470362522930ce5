---------------------------- MODULE MCWakeDoctor ----------------------------
(***************************************************************************)
(* WakeDoctor for TLC.  Two monitors race for three deliveries, two to a   *)
(* page; the third claim cuts the ledger to one line, so that a delivery   *)
(* which stays unread is claimed a second time.  A doctor's probe is one   *)
(* of the three, and one monitor is armed beside it.                       *)
(***************************************************************************)
EXTENDS WakeDoctor

CONSTANTS m1, m2

MCMonitor == {m1, m2}
MCMaxMail == 3
MCPageLimit == 2
MCListLimit == 2
MCScanLimit == 1
MCTrimAt == 2
MCTrimTo == 1
MCMaxKills == 1
=============================================================================
