--------------------------- MODULE SyncResilience ---------------------------
(***************************************************************************)
(* The resilience layer of the sync client: _run_with_resilience of        *)
(* client/resilience.py around the request of client/sync_client.py.       *)
(*                                                                         *)
(* A call runs on two threads.  The caller registers the call's cancel     *)
(* flag, submits the work to the bulkhead and waits for its future, at     *)
(* most until its deadline; a worker of the bulkhead takes the work from   *)
(* the queue, asks the breaker, and makes attempts with a backoff between  *)
(* them.  The flag is all they share: the caller that gives up sets it,    *)
(* and so does the hook that runs when the interpreter exits.              *)
(*                                                                         *)
(* External, from how the code uses them: the bulkhead (Slots workers and  *)
(* a bounded queue, whose order is left open), the breaker (a failure may  *)
(* open it, it then refuses until its cooldown lapses), and the bus.       *)
(***************************************************************************)
EXTENDS Integers, FiniteSets

CONSTANTS
  Call,        \* the calls; each is made once
  Bare,        \* those it is not safe to repeat (no GET, no idempotency key)
  Slots,       \* workers of the bulkhead
  QueueSize,   \* calls that may wait for a worker
  MaxRetries   \* attempts after the first

ASSUME ResilienceAssumption ==
  /\ IsFiniteSet(Call)
  /\ Bare \subseteq Call
  /\ Slots \in Nat \ {0}
  /\ QueueSize \in Nat
  /\ MaxRetries \in Nat

VARIABLES
  caller,    \* per call: where its caller is
  told,      \* per call: what the caller got
  work,      \* per call: where the work is
  attempt,   \* per call: attempts that failed and were retried
  flagged,   \* calls whose cancel flag is set
  inflight,  \* _INFLIGHT: calls whose flag the exit hook can reach
  refusing,  \* the breaker is open
  exit,      \* how far the exit hook is
  \* ghosts
  sent,      \* calls that have sent a request
  acts,      \* per bare call: how often the bus acted on it
  lost,      \* per bare call: attempts that failed in transit
  late       \* per call: requests that went out after the flag was set

callerSide == <<caller, told>>
workerSide == <<work, attempt>>
shared == <<flagged, inflight, refusing>>
ghosts == <<sent, acts, lost, late>>
vars == <<callerSide, workerSide, shared, exit, ghosts>>

OnWorker == {"checking", "passed", "sending"}
Running == {c \in Call : work[c] \in OnWorker}
Queued == {c \in Call : work[c] = "queued"}

Init ==
  /\ caller = [c \in Call |-> "idle"]
  /\ told = [c \in Call |-> "nothing"]
  /\ work = [c \in Call |-> "none"]
  /\ attempt = [c \in Call |-> 0]
  /\ flagged = {}
  /\ inflight = {}
  /\ refusing = FALSE
  /\ exit = "no"
  /\ sent = {}
  /\ acts = [c \in Bare |-> 0]
  /\ lost = [c \in Bare |-> 0]
  /\ late = [c \in Call |-> 0]

-----------------------------------------------------------------------------
(* The caller's thread.                                                    *)

Tell(c, t) ==
  /\ caller' = [caller EXCEPT ![c] = "returned"]
  /\ told' = [told EXCEPT ![c] = t]

(* A fresh flag, registered before anything can run.                       *)
MakeCall(c) ==
  /\ caller[c] = "idle"
  /\ caller' = [caller EXCEPT ![c] = "calling"]
  /\ inflight' = inflight \union {c}
  /\ UNCHANGED <<told, workerSide, flagged, refusing, exit, ghosts>>

(* The bulkhead takes the work, or refuses it when it is full, or raises   *)
(* because the exit hook has shut its executor down.                       *)
Submit(c) ==
  /\ caller[c] = "calling"
  /\ exit # "over"
  /\ Cardinality(Running \union Queued) < Slots + QueueSize
  /\ caller' = [caller EXCEPT ![c] = "waiting"]
  /\ work' = [work EXCEPT ![c] = "queued"]
  /\ UNCHANGED <<told, attempt, shared, exit, ghosts>>

BulkheadFull(c) ==
  /\ caller[c] = "calling"
  /\ exit # "over"
  /\ Cardinality(Running \union Queued) = Slots + QueueSize
  /\ Tell(c, "full")
  /\ inflight' = inflight \ {c}
  /\ UNCHANGED <<workerSide, flagged, refusing, exit, ghosts>>

SubmitRaises(c) ==
  /\ caller[c] = "calling"
  /\ exit = "over"
  /\ Tell(c, "shutdown")
  /\ UNCHANGED <<workerSide, shared, exit, ghosts>>

(* The deadline: set the flag ...                                          *)
DeadlineOnWorker(c) ==  \* a slip: no deadline for work that waits its turn
  /\ caller[c] = "waiting"
  /\ work[c] \in OnWorker
  /\ caller' = [caller EXCEPT ![c] = "cancelling"]
  /\ flagged' = flagged \union {c}
  /\ UNCHANGED <<told, workerSide, inflight, refusing, exit, ghosts>>
Deadline(c) ==
  /\ caller[c] = "waiting"
  /\ caller' = [caller EXCEPT ![c] = "cancelling"]
  /\ flagged' = flagged \union {c}
  /\ UNCHANGED <<told, workerSide, inflight, refusing, exit, ghosts>>

(* ... and cancel the future, which works only while it is queued: the     *)
(* work then never runs, nor does the clause that unregisters its flag.    *)
GiveUp(c) ==
  /\ caller[c] = "cancelling"
  /\ Tell(c, "deadline")
  /\ IF work[c] = "queued"
       THEN work' = [work EXCEPT ![c] = "cancelled"]
       ELSE UNCHANGED work
  /\ UNCHANGED <<attempt, shared, exit, ghosts>>

-----------------------------------------------------------------------------
(* A worker's thread.                                                      *)

(* The end of the work, with its `finally`.  Completing the future returns *)
(* its result to a caller that still waits, be it the answer or the last   *)
(* attempt's own error, or that the breaker is open; the others have been  *)
(* told already, or will be told of their deadline.                        *)
FinishQuietly(c, o) ==  \* a slip: the flag stays registered
  /\ work' = [work EXCEPT ![c] = "done"]
  /\ IF caller[c] = "waiting" THEN Tell(c, o) ELSE UNCHANGED callerSide
  /\ attempt' = [attempt EXCEPT ![c] = 0]
  /\ UNCHANGED inflight
Finish(c, o) ==
  /\ work' = [work EXCEPT ![c] = "done"]
  /\ IF caller[c] = "waiting" THEN Tell(c, o) ELSE UNCHANGED callerSide
  /\ attempt' = [attempt EXCEPT ![c] = 0]
  /\ inflight' = inflight \ {c}

(* The breaker's verdict on a sequence, failed or not: a failure may open  *)
(* it.                                                                     *)
Verdict(failed) ==
  /\ refusing' \in {refusing, refusing \/ failed}
  /\ UNCHANGED flagged

(* A worker takes work from the queue; the breaker admits it, or not: once *)
(* for the whole sequence, the retries are inside it.                      *)
Start(c) ==
  /\ work[c] = "queued"
  /\ Cardinality(Running) < Slots
  /\ ~refusing
  /\ work' = [work EXCEPT ![c] = "checking"]
  /\ UNCHANGED <<callerSide, attempt, shared, exit, ghosts>>

FailFast(c) ==
  /\ work[c] = "queued"
  /\ Cardinality(Running) < Slots
  /\ refusing
  /\ Finish(c, "open")
  /\ UNCHANGED <<flagged, refusing, exit, ghosts>>

(* _attempt reads the flag ...                                             *)
CheckNothing(c) ==  \* a slip: attempts go on after the caller has left
  /\ work[c] = "checking"
  /\ work' = [work EXCEPT ![c] = "passed"]
  /\ UNCHANGED <<callerSide, attempt, shared, exit, ghosts>>
Check(c) ==
  /\ work[c] = "checking"
  /\ c \notin flagged
  /\ work' = [work EXCEPT ![c] = "passed"]
  /\ UNCHANGED <<callerSide, attempt, shared, exit, ghosts>>

Abandon(c) ==
  /\ work[c] = "checking"
  /\ c \in flagged
  /\ Finish(c, "result")
  /\ Verdict(TRUE)
  /\ UNCHANGED <<exit, ghosts>>

(* ... and the request goes out after that.                                *)
Send(c) ==
  /\ work[c] = "passed"
  /\ work' = [work EXCEPT ![c] = "sending"]
  /\ sent' = sent \union {c}
  /\ late' = [late EXCEPT ![c] = @ + (IF c \in flagged THEN 1 ELSE 0)]
  /\ UNCHANGED <<callerSide, attempt, shared, exit, acts, lost>>

(* What an attempt can end with, and whether the bus acted on it: its      *)
(* answer (done, or refused with a 4xx); a server error, which says        *)
(* nothing about what was done; a failure in transit, before or after the  *)
(* bus acted; and the client's own error once the exit hook has closed it. *)
Endings ==
  ({"answer", "error", "lost"} \X BOOLEAN)
    \union (IF exit = "over" THEN {<<"broken", FALSE>>} ELSE {})

(* The retry classifier: a 5xx only where a repeat is safe.                *)
TransientAlways(c, o) == o \in {"error", "lost"}  \* a slip: whatever the call
Transient(c, o) == o = "lost" \/ (o = "error" /\ c \notin Bare)

RetryLeft(c) == attempt[c] < MaxRetries

Observe(c, o, acted) ==
  /\ IF c \in Bare
       THEN /\ acts' = [acts EXCEPT ![c] = @ + (IF acted THEN 1 ELSE 0)]
            /\ lost' = [lost EXCEPT ![c] = @ + (IF o = "lost" THEN 1 ELSE 0)]
       ELSE UNCHANGED <<acts, lost>>
  /\ UNCHANGED <<sent, late>>

(* A retry: after a delay that the flag cuts short, the flag is read       *)
(* again.                                                                  *)
BackOff(c, o, acted) ==
  /\ work[c] = "sending"
  /\ Transient(c, o) /\ RetryLeft(c)
  /\ work' = [work EXCEPT ![c] = "checking"]
  /\ attempt' = [attempt EXCEPT ![c] = @ + 1]
  /\ Observe(c, o, acted)
  /\ UNCHANGED <<callerSide, shared, exit>>

Conclude(c, o, acted) ==
  /\ work[c] = "sending"
  /\ Transient(c, o) => ~RetryLeft(c)
  /\ Finish(c, "result")
  /\ Verdict(o \in {"error", "lost"})
  /\ Observe(c, o, acted)
  /\ UNCHANGED exit

-----------------------------------------------------------------------------
(* The breaker's clock, and the hook that runs at interpreter exit.        *)

CooldownLapses ==
  /\ refusing
  /\ refusing' = FALSE
  /\ UNCHANGED <<callerSide, workerSide, flagged, inflight, exit, ghosts>>

(* Every registered flag is set; a call made after the hook's look at      *)
(* _INFLIGHT escapes it.                                                   *)
SetFlags ==
  /\ exit = "no"
  /\ exit' = "flagged"
  /\ flagged' = flagged \union inflight
  /\ UNCHANGED <<callerSide, workerSide, inflight, refusing, ghosts>>

(* The clients are closed, and shutdown(cancel_futures=True): whoever      *)
(* waits for work in the queue gets the cancellation.                      *)
ShutDown ==
  /\ exit = "flagged"
  /\ exit' = "over"
  /\ LET gone == {c \in Queued : caller[c] = "waiting"} IN
       /\ caller' = [c \in Call |-> IF c \in gone THEN "returned" ELSE caller[c]]
       /\ told' = [c \in Call |-> IF c \in gone THEN "cancelled" ELSE told[c]]
  /\ work' = [c \in Call |-> IF c \in Queued THEN "cancelled" ELSE work[c]]
  /\ UNCHANGED <<attempt, shared, ghosts>>

-----------------------------------------------------------------------------
CallerStep(c) ==
  \/ Submit(c) \/ BulkheadFull(c) \/ SubmitRaises(c)
  \/ Deadline(c) \/ GiveUp(c)

WorkerStep(c) ==
  \/ Start(c) \/ FailFast(c) \/ Check(c) \/ Abandon(c) \/ Send(c)
  \/ \E e \in Endings : BackOff(c, e[1], e[2]) \/ Conclude(c, e[1], e[2])

Hook == SetFlags \/ ShutDown

Next ==
  \/ \E c \in Call : MakeCall(c) \/ CallerStep(c) \/ WorkerStep(c)
  \/ CooldownLapses
  \/ Hook

Spec == Init /\ [][Next]_vars

(* The callers' threads run and their deadlines come.  Nothing is assumed  *)
(* of the workers: an attempt may stall, a queue may not move.             *)
FairSpec == Spec /\ \A c \in Call : WF_vars(CallerStep(c))

-----------------------------------------------------------------------------
TypeOK ==
  /\ caller \in [Call -> {"idle", "calling", "waiting", "cancelling", "returned"}]
  /\ told \in [Call -> {"nothing", "result", "open", "full", "shutdown",
                       "cancelled", "deadline"}]
  /\ work \in [Call -> OnWorker \union {"none", "queued", "done", "cancelled"}]
  /\ attempt \in [Call -> 0..MaxRetries]
  /\ flagged \subseteq Call
  /\ inflight \subseteq Call
  /\ refusing \in BOOLEAN
  /\ exit \in {"no", "flagged", "over"}
  /\ sent \subseteq Call
  /\ acts \in [Bare -> Nat]
  /\ lost \in [Bare -> Nat]
  /\ late \in [Call -> Nat]

(* A call whose caller has gone, or that the exit hook has abandoned,      *)
(* sends at most one more request: the one that had passed the check when  *)
(* the flag was set.                                                       *)
AbandonedStops == \A c \in Call : late[c] <= 1

(* A call that is not safe to repeat acts a second time only when its      *)
(* answer was lost in transit, never after a server error it has seen.     *)
RepeatsOnlyWhatWasLost == \A c \in Bare : acts[c] <= lost[c] + 1

(* A call that failed fast, or was cancelled while it waited for a worker, *)
(* never reached the bus and never will, whatever a worker was about to do *)
(* when it was cancelled.                                                  *)
FailFastLeavesNoTrace ==
  \A c \in Call :
    told[c] \in {"full", "shutdown", "open", "cancelled"} \/ work[c] = "cancelled"
      => c \notin sent /\ work[c] \in {"none", "done", "cancelled"}

(* The exit hook can reach every call a worker may still make attempts     *)
(* for; and a flag that stays behind belongs to work that was cancelled in *)
(* the queue or never got into it.                                         *)
RegistryCoversWork ==
  \A c \in Call :
    /\ work[c] \in OnWorker \union {"queued"} => c \in inflight
    /\ c \in inflight /\ caller[c] = "returned"
         => work[c] \in OnWorker \union {"cancelled"} \/ told[c] = "shutdown"

(* Every call returns to its caller, even if no attempt ever ends: in the  *)
(* end nobody waits.                                                       *)
EveryCallReturns == <>[](\A c \in Call : caller[c] \in {"idle", "returned"})
=============================================================================
