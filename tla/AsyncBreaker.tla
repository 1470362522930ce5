---------------------------- MODULE AsyncBreaker ----------------------------
(***************************************************************************)
(* The resilience layer of the async client: _AsyncCircuitBreaker of       *)
(* client/_async_breaker.py as _run_with_resilience_async of               *)
(* client/async_client.py drives it.                                       *)
(*                                                                         *)
(* A caller's request is a sequence of attempts.  It is admitted by the    *)
(* breaker, waits for a slot of the loop's semaphore, is tried, backs off  *)
(* and is tried again; it ends with an answer, a refusal that no retry     *)
(* would change, its last transient failure, the outer deadline, or a      *)
(* cancellation.  Any number of them overlap, and each reports its verdict *)
(* to the one breaker of the process whenever it happens to end.           *)
(*                                                                         *)
(* Everything between two awaits is one step.  The bus is external: an     *)
(* attempt succeeds, is refused, or fails in transit.                      *)
(***************************************************************************)
EXTENDS Integers, FiniteSets

CONSTANTS
  Caller,        \* the tasks that make requests
  FailureLimit,  \* consecutive failing sequences that open the breaker
  SuccessLimit,  \* successes that close it
  MaxRetries,    \* attempts after the first
  Slots          \* size of the semaphore

ASSUME BreakerAssumption ==
  /\ IsFiniteSet(Caller)
  /\ FailureLimit \in Nat \ {0}
  /\ SuccessLimit \in Nat \ {0}
  /\ MaxRetries \in Nat
  /\ Slots \in Nat \ {0}

VARIABLES
  healthy,        \* the bus is up: attempts no longer fail or stall
  phase,          \* per caller: where its sequence is
  attempt,        \* per caller: attempts already failed
  open,           \* the cooldown runs (monotonic() < _open_until)
  halfOpen,       \* _half_open
  failures,       \* _failures
  successes,      \* _successes
  probeInflight,  \* _probe_inflight
  \* ghosts
  probes,         \* sequences in flight that the half-open breaker admitted
  stragglers      \* sequences that were in flight when the breaker opened

sequence == <<phase, attempt>>
counters == <<failures, successes>>
breaker == <<open, halfOpen, counters, probeInflight>>
ghosts == <<probes, stragglers>>
vars == <<healthy, sequence, breaker, ghosts>>

InFlight == {c \in Caller : phase[c] # "idle"}
Holders == {c \in Caller : phase[c] \in {"trying", "backoff"}}

Init ==
  /\ healthy = FALSE
  /\ phase = [c \in Caller |-> "idle"]
  /\ attempt = [c \in Caller |-> 0]
  /\ open = FALSE
  /\ halfOpen = FALSE
  /\ failures = 0
  /\ successes = 0
  /\ probeInflight = FALSE
  /\ probes = {}
  /\ stragglers = {}

-----------------------------------------------------------------------------
(* The breaker's verdicts, for the sequence of caller c that ends.         *)

(* on_success: also late, while the cooldown runs.                         *)
OnSuccess(c) ==
  LET closes == successes + 1 >= SuccessLimit IN
  /\ probeInflight' = FALSE
  /\ failures' = 0
  /\ successes' = IF closes THEN 0 ELSE successes + 1
  /\ open' = (open /\ ~closes)
  /\ halfOpen' = (halfOpen /\ ~closes)
  /\ probes' = IF closes THEN {} ELSE probes \ {c}
  /\ UNCHANGED stragglers

(* on_failure: the limit-th failure in a row opens the breaker; while it   *)
(* is half-open, or still cooling down, any failure starts a new cooldown. *)
OnFailure(c) ==
  LET opens == halfOpen \/ failures + 1 >= FailureLimit IN
  /\ probeInflight' = FALSE
  /\ successes' = 0
  /\ failures' = IF opens THEN 0 ELSE failures + 1
  /\ open' = (open \/ opens)
  /\ halfOpen' = opens
  /\ probes' = probes \ {c}
  /\ stragglers' = IF opens /\ ~halfOpen THEN InFlight \ {c} ELSE stragglers

(* release_probe: the sequence ended without a verdict.                    *)
ReleaseNothing(c) ==  \* a slip: only a verdict frees the slot
  /\ probes' = probes \ {c}
  /\ UNCHANGED <<open, halfOpen, counters, probeInflight, stragglers>>
ReleaseProbe(c) ==
  /\ probeInflight' = FALSE
  /\ probes' = probes \ {c}
  /\ UNCHANGED <<open, halfOpen, counters, stragglers>>

(* The sequence ends: `async with sem` gives its slot back.                *)
End(c) ==
  /\ phase' = [phase EXCEPT ![c] = "idle"]
  /\ attempt' = [attempt EXCEPT ![c] = 0]

-----------------------------------------------------------------------------
(* One sequence.                                                           *)

(* admit() says yes.  (When it says no the caller gets a TransportError at *)
(* once and nothing changes.)                                              *)
AdmitAll(c) ==  \* a slip: the half-open breaker admits everyone
  /\ phase[c] = "idle"
  /\ ~open
  /\ phase' = [phase EXCEPT ![c] = "waiting"]
  /\ probeInflight' = halfOpen
  /\ probes' = IF halfOpen THEN probes \union {c} ELSE probes
  /\ UNCHANGED <<healthy, attempt, open, halfOpen, counters, stragglers>>
Admit(c) ==
  /\ phase[c] = "idle"
  /\ ~open
  /\ halfOpen => ~probeInflight
  /\ phase' = [phase EXCEPT ![c] = "waiting"]
  /\ probeInflight' = (probeInflight \/ halfOpen)
  /\ probes' = IF halfOpen THEN probes \union {c} ELSE probes
  /\ UNCHANGED <<healthy, attempt, open, halfOpen, counters, stragglers>>

(* A slot of the semaphore: one for the whole sequence.                    *)
Acquire(c) ==
  /\ phase[c] = "waiting"
  /\ Cardinality(Holders) < Slots
  /\ phase' = [phase EXCEPT ![c] = "trying"]
  /\ UNCHANGED <<healthy, attempt, breaker, ghosts>>

Succeed(c) ==
  /\ phase[c] = "trying"
  /\ End(c)
  /\ OnSuccess(c)
  /\ UNCHANGED healthy

(* A 4xx: passed to the caller, no verdict on the bus.                     *)
Refused(c) ==
  /\ phase[c] = "trying"
  /\ End(c)
  /\ ReleaseProbe(c)
  /\ UNCHANGED healthy

(* A transient failure with a retry left.                                  *)
BackOff(c) ==
  /\ phase[c] = "trying"
  /\ ~healthy
  /\ attempt[c] < MaxRetries
  /\ phase' = [phase EXCEPT ![c] = "backoff"]
  /\ attempt' = [attempt EXCEPT ![c] = @ + 1]
  /\ UNCHANGED <<healthy, breaker, ghosts>>

Retry(c) ==
  /\ phase[c] = "backoff"
  /\ phase' = [phase EXCEPT ![c] = "trying"]
  /\ UNCHANGED <<healthy, attempt, breaker, ghosts>>

(* The last attempt fails too.                                             *)
Exhaust(c) ==
  /\ phase[c] = "trying"
  /\ ~healthy
  /\ attempt[c] = MaxRetries
  /\ End(c)
  /\ OnFailure(c)
  /\ UNCHANGED healthy

(* wait_for's deadline: wherever the sequence is, also still waiting.      *)
Deadline(c) ==
  /\ phase[c] # "idle"
  /\ ~healthy
  /\ End(c)
  /\ OnFailure(c)
  /\ UNCHANGED healthy

(* The caller's task is cancelled: `finally` releases the probe slot.      *)
Cancel(c) ==
  /\ phase[c] # "idle"
  /\ End(c)
  /\ ReleaseProbe(c)
  /\ UNCHANGED healthy

-----------------------------------------------------------------------------
(* The clock and the bus.                                                  *)

CooldownLapses ==
  /\ open
  /\ open' = FALSE
  /\ UNCHANGED <<healthy, sequence, halfOpen, counters, probeInflight, ghosts>>

Recover ==
  /\ ~healthy
  /\ healthy' = TRUE
  /\ UNCHANGED <<sequence, breaker, ghosts>>

Proceed(c) ==
  \/ Acquire(c) \/ Succeed(c) \/ Refused(c) \/ BackOff(c) \/ Retry(c)
  \/ Exhaust(c)

Next ==
  \/ \E c \in Caller : Admit(c) \/ Proceed(c) \/ Deadline(c) \/ Cancel(c)
  \/ CooldownLapses
  \/ Recover

Spec == Init /\ [][Next]_vars

(* Admitted sequences go on; time passes; callers keep calling and do not  *)
(* cancel every call while it waits for its slot; and of the answers a     *)
(* healthy bus gives, some keep being successes.                           *)
Fairness ==
  /\ \A c \in Caller : WF_vars(Proceed(c))
  /\ WF_vars(CooldownLapses)
  /\ WF_vars(\E c \in Caller : Admit(c))
  /\ SF_vars(\E c \in Caller : Acquire(c))
  /\ SF_vars(\E c \in Caller : Succeed(c))

FairSpec == Spec /\ Fairness

-----------------------------------------------------------------------------
TypeOK ==
  /\ healthy \in BOOLEAN
  /\ phase \in [Caller -> {"idle", "waiting", "trying", "backoff"}]
  /\ attempt \in [Caller -> 0..MaxRetries]
  /\ open \in BOOLEAN
  /\ halfOpen \in BOOLEAN
  /\ failures \in 0..(FailureLimit - 1)
  /\ successes \in 0..(SuccessLimit - 1)
  /\ probeInflight \in BOOLEAN
  /\ probes \subseteq Caller
  /\ stragglers \subseteq Caller

(* The probe slot is never stranded: while it is taken, a sequence that    *)
(* the half-open breaker admitted is still in flight.  A stranded slot     *)
(* would refuse every call of the process for good.                        *)
ProbeSlotOwned == probeInflight => halfOpen /\ probes # {}

(* Until it closes, a breaker that has opened never lets more sequences    *)
(* run than were running when it opened, and one more: a bus in trouble    *)
(* is not hammered, whatever late verdicts do to the probe slot.           *)
LoadNeverGrows ==
  halfOpen => Cardinality(InFlight)
                <= Cardinality(stragglers) + (IF probeInflight THEN 1 ELSE 0)

(* "When the cooldown lapses it is half-open and admits ONE probe at a     *)
(* time" (_async_breaker.py).                                              *)
OneProbe == Cardinality(probes) <= 1

(* Once the bus is up, the breaker closes and calls go through again,      *)
(* however the outage left its counters and its probe slot.                *)
Recovers == healthy ~> ~halfOpen
=============================================================================
