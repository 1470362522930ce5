--------------------------- MODULE MCAsyncBreaker ---------------------------
(***************************************************************************)
(* AsyncBreaker for TLC.  Three callers on two slots: two fail and open    *)
(* the breaker while the third is still waiting or backing off, and it     *)
(* reports its verdict in the middle of the probing.                       *)
(***************************************************************************)
EXTENDS AsyncBreaker

CONSTANTS c1, c2, c3

MCCaller == {c1, c2, c3}
MCFailureLimit == 2
MCSuccessLimit == 2
MCMaxRetries == 1
MCSlots == 2
=============================================================================
