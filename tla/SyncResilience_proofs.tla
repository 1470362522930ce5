------------------------ MODULE SyncResilience_proofs ------------------------
(***************************************************************************)
(* Theorems about SyncResilience, for any calls, slots, queue and retries. *)
(***************************************************************************)
EXTENDS SyncResilience, TLAPS

USE DEF OnWorker

(* Type correctness, which includes that no call is tried more often than  *)
(* MaxRetries allows.                                                      *)
THEOREM TypeCorrect == Spec => []TypeOK
<1> USE ResilienceAssumption DEF ResilienceAssumption
<1>1. Init => TypeOK
  <2> SUFFICES ASSUME Init
               PROVE  TypeOK
    OBVIOUS
  <2>1. 0 \in 0..MaxRetries
    OBVIOUS
  <2>2. QED
    BY <2>1 DEF Init, TypeOK
<1>2. TypeOK /\ [Next]_vars => TypeOK'
  <2> SUFFICES ASSUME TypeOK, [Next]_vars
               PROVE  TypeOK'
    OBVIOUS
  <2> USE DEF TypeOK, callerSide, workerSide, shared, ghosts
  <2>1. ASSUME NEW c \in Call, CallerStep(c) \/ MakeCall(c)
        PROVE  TypeOK'
    BY <2>1 DEF CallerStep, MakeCall, Submit, BulkheadFull, SubmitRaises,
                Deadline, GiveUp, Tell
  <2>2. ASSUME NEW c \in Call, NEW o \in {"result", "open"}, Finish(c, o)
        PROVE  /\ caller' \in [Call -> {"idle", "calling", "waiting",
                                        "cancelling", "returned"}]
               /\ told' \in [Call -> {"nothing", "result", "open", "full",
                                      "shutdown", "cancelled", "deadline"}]
               /\ work' \in [Call -> OnWorker \union {"none", "queued", "done",
                                                      "cancelled"}]
               /\ attempt' \in [Call -> 0..MaxRetries]
               /\ inflight' \subseteq Call
    <3>1. attempt' \in [Call -> 0..MaxRetries]
      <4>1. 0 \in 0..MaxRetries
        OBVIOUS
      <4>2. QED
        BY <2>2, <4>1 DEF Finish
    <3>2. QED
      BY <2>2, <3>1 DEF Finish, Tell
  <2>3. ASSUME NEW c \in Call,
               Start(c) \/ FailFast(c) \/ Check(c) \/ Abandon(c)
        PROVE  TypeOK'
    <3>1. CASE Start(c) \/ Check(c)
      BY <3>1 DEF Start, Check
    <3>2. CASE FailFast(c)
      BY <2>2, <3>2 DEF FailFast
    <3>3. CASE Abandon(c)
      BY <2>2, <3>3 DEF Abandon, Verdict
    <3>4. QED
      BY <2>3, <3>1, <3>2, <3>3
  <2>4. ASSUME NEW c \in Call, Send(c)
        PROVE  TypeOK'
    BY <2>4 DEF Send
  <2>5. ASSUME NEW c \in Call, NEW o, NEW acted, Observe(c, o, acted)
        PROVE  /\ sent' \subseteq Call /\ late' \in [Call -> Nat]
               /\ acts' \in [Bare -> Nat] /\ lost' \in [Bare -> Nat]
    BY <2>5 DEF Observe
  <2>6. ASSUME NEW c \in Call, NEW o, NEW acted, BackOff(c, o, acted)
        PROVE  TypeOK'
    <3>1. attempt' \in [Call -> 0..MaxRetries]
      <4>1. attempt[c] + 1 \in 0..MaxRetries
        BY <2>6 DEF BackOff, RetryLeft
      <4>2. QED
        BY <2>6, <4>1 DEF BackOff
    <3>2. QED
      BY <2>5, <2>6, <3>1 DEF BackOff
  <2>7. ASSUME NEW c \in Call, NEW o, NEW acted, Conclude(c, o, acted)
        PROVE  TypeOK'
    <3>1. refusing' \in BOOLEAN /\ flagged' \subseteq Call
      BY <2>7 DEF Conclude, Verdict
    <3>2. QED
      BY <2>2, <2>5, <2>7, <3>1 DEF Conclude
  <2>8. CASE CooldownLapses \/ SetFlags
    BY <2>8 DEF CooldownLapses, SetFlags
  <2>9. CASE ShutDown
    BY <2>9 DEF ShutDown, Queued
  <2>10. CASE UNCHANGED vars
    BY <2>10 DEF vars
  <2>11. QED
    BY <2>1, <2>3, <2>4, <2>6, <2>7, <2>8, <2>9, <2>10
       DEF Next, WorkerStep, Hook
<1>3. QED
  BY <1>1, <1>2, PTL DEF Spec

-----------------------------------------------------------------------------
(* The two sides of one call.                                              *)

(* Where the caller and the work of a call can be at the same time, which  *)
(* is what the flag, the registry and the bus have seen of it.             *)
Sides(c) ==
  /\ caller[c] \in {"idle", "calling"} => work[c] = "none" /\ told[c] = "nothing"
  /\ caller[c] \in {"waiting", "cancelling"}
       => work[c] # "none" /\ told[c] = "nothing"
  /\ caller[c] = "calling" => c \in inflight
  /\ work[c] = "done" => c \notin inflight
  /\ work[c] \in {"none", "queued", "cancelled"} => c \notin sent

NoTrace(c) ==
  told[c] \in {"full", "shutdown", "open", "cancelled"} \/ work[c] = "cancelled"
    => c \notin sent /\ work[c] \in {"none", "done", "cancelled"}

Registered(c) ==
  /\ work[c] \in OnWorker \union {"queued"} => c \in inflight
  /\ c \in inflight /\ caller[c] = "returned"
       => work[c] \in OnWorker \union {"cancelled"} \/ told[c] = "shutdown"

(* A late request has left by a worker that meets the flag before it could *)
(* send another.                                                           *)
Stops(c) ==
  late[c] = 0 \/ (late[c] = 1 /\ c \in flagged
                  /\ work[c] \in {"sending", "checking", "done"})

(* An unsafe call that has not ended acted only where its answer was lost. *)
Spared(c) ==
  c \in Bare => /\ acts[c] <= lost[c] + 1
                /\ work[c] # "done" => acts[c] <= lost[c]

CallInv(c) == Sides(c) /\ NoTrace(c) /\ Registered(c) /\ Stops(c) /\ Spared(c)

Inv == TypeOK /\ \A c \in Call : CallInv(c)

LEMMA InvInit == Init => \A c \in Call : CallInv(c)
BY DEF Init, CallInv, Sides, NoTrace, Registered, Stops, Spared

LEMMA InvStep == Inv /\ [Next]_vars => (\A c \in Call : CallInv(c))'
<1> SUFFICES ASSUME Inv, [Next]_vars, NEW d \in Call
             PROVE  CallInv(d)'
  BY DEF Inv
<1> USE ResilienceAssumption DEF ResilienceAssumption, callerSide, workerSide, shared, ghosts
<1>0. TypeOK /\ CallInv(d)
  BY DEF Inv
<1> USE <1>0 DEF TypeOK
<1>1. ASSUME NEW c \in Call, MakeCall(c) \/ CallerStep(c)
      PROVE  CallInv(d)'
  <2> USE DEF CallInv, Sides, NoTrace, Registered, Stops, Spared
  <2>1. CASE MakeCall(c)
    BY <2>1 DEF MakeCall
  <2>2. CASE Submit(c)
    BY <2>2 DEF Submit
  <2>3. CASE BulkheadFull(c) \/ SubmitRaises(c)
    BY <2>3 DEF BulkheadFull, SubmitRaises, Tell
  <2>4. CASE Deadline(c)
    BY <2>4 DEF Deadline
  <2>5. CASE GiveUp(c)
    BY <2>5 DEF GiveUp, Tell
  <2>6. QED
    BY <1>1, <2>1, <2>2, <2>3, <2>4, <2>5 DEF CallerStep
<1>2. ASSUME NEW c \in Call, Start(c) \/ FailFast(c) \/ Check(c) \/ Abandon(c)
      PROVE  CallInv(d)'
  <2> USE DEF CallInv, Sides, NoTrace, Registered, Stops, Spared
  <2>1. CASE Start(c) \/ Check(c)
    BY <2>1 DEF Start, Check
  <2>2. CASE FailFast(c)
    BY <2>2 DEF FailFast, Finish, Tell
  <2>3. CASE Abandon(c)
    BY <2>3 DEF Abandon, Verdict, Finish, Tell
  <2>4. QED
    BY <1>2, <2>1, <2>2, <2>3
<1>3. ASSUME NEW c \in Call, Send(c)
      PROVE  CallInv(d)'
  BY <1>3 DEF Send, CallInv, Sides, NoTrace, Registered, Stops, Spared
<1>4. ASSUME NEW c \in Call, NEW o, NEW acted,
             work[c] = "sending", Observe(c, o, acted),
             c \in Bare /\ work'[c] # "done" => o = "lost",
             \A b \in Call : b # c => work'[b] = work[b]
      PROVE  Spared(d)'
  <2>1. CASE c = d /\ d \in Bare
    <3>1. /\ acts'[d] = acts[d] + (IF acted THEN 1 ELSE 0)
          /\ lost'[d] = lost[d] + (IF o = "lost" THEN 1 ELSE 0)
      BY <1>4, <2>1 DEF Observe
    <3>2. acts[d] \in Nat /\ lost[d] \in Nat /\ acts[d] <= lost[d]
      BY <1>4, <2>1 DEF CallInv, Spared
    <3>3. QED
      BY <1>4, <2>1, <3>1, <3>2 DEF Spared
  <2>2. CASE c # d /\ d \in Bare
    <3>1. acts'[d] = acts[d] /\ lost'[d] = lost[d] /\ work'[d] = work[d]
      BY <1>4, <2>2 DEF Observe
    <3>2. QED
      BY <2>2, <3>1 DEF CallInv, Spared
  <2>3. QED
    BY <2>1, <2>2 DEF Spared
<1>5. ASSUME NEW c \in Call, NEW o, NEW acted, BackOff(c, o, acted)
      PROVE  CallInv(d)'
  <2>1. Sides(d)' /\ NoTrace(d)' /\ Registered(d)' /\ Stops(d)'
    BY <1>5 DEF BackOff, Observe, CallInv, Sides, NoTrace, Registered, Stops
  <2>2. /\ work[c] = "sending" /\ Observe(c, o, acted)
        /\ c \in Bare => o = "lost"
        /\ \A b \in Call : b # c => work'[b] = work[b]
    BY <1>5 DEF BackOff, Transient
  <2>3. Spared(d)'
    BY <1>4, <2>2
  <2>4. QED
    BY <2>1, <2>3 DEF CallInv
<1>6. ASSUME NEW c \in Call, NEW o, NEW acted, Conclude(c, o, acted)
      PROVE  CallInv(d)'
  <2>1. Sides(d)' /\ NoTrace(d)' /\ Registered(d)' /\ Stops(d)'
    BY <1>6 DEF Conclude, Verdict, Finish, Tell, Observe, CallInv, Sides,
                NoTrace, Registered, Stops
  <2>2. /\ work[c] = "sending" /\ Observe(c, o, acted) /\ work'[c] = "done"
        /\ \A b \in Call : b # c => work'[b] = work[b]
    BY <1>6 DEF Conclude, Finish
  <2>3. Spared(d)'
    BY <1>4, <2>2
  <2>4. QED
    BY <2>1, <2>3 DEF CallInv
<1>7. CASE CooldownLapses \/ SetFlags
  BY <1>7 DEF CooldownLapses, SetFlags, CallInv, Sides, NoTrace, Registered,
              Stops, Spared
<1>8. CASE ShutDown
  BY <1>8 DEF ShutDown, Queued, CallInv, Sides, NoTrace, Registered, Stops, Spared
<1>9. CASE UNCHANGED vars
  BY <1>9 DEF vars, CallInv, Sides, NoTrace, Registered, Stops, Spared
<1>10. QED
  BY <1>1, <1>2, <1>3, <1>5, <1>6, <1>7, <1>8, <1>9 DEF Next, WorkerStep, Hook

LEMMA Invariance == Spec => []Inv
<1>1. Init => \A c \in Call : CallInv(c)
  BY InvInit
<1>2. Inv /\ [Next]_vars => (\A c \in Call : CallInv(c))'
  BY InvStep
<1>3. Inv <=> TypeOK /\ \A c \in Call : CallInv(c)
  BY DEF Inv
<1>4. QED
  BY <1>1, <1>2, <1>3, TypeCorrect, PTL DEF Spec

-----------------------------------------------------------------------------
(* The properties.                                                         *)

(* A call that has been abandoned, by its deadline or by the exit hook,    *)
(* sends at most the one request that had passed the check.                *)
THEOREM AbandonedCorrect == Spec => []AbandonedStops
<1>1. Inv => AbandonedStops
  BY DEF Inv, CallInv, Stops, AbandonedStops
<1>2. QED
  BY <1>1, Invariance, PTL

(* A call that is not safe to repeat is repeated only where its answer was *)
(* lost.                                                                   *)
THEOREM RepeatsCorrect == Spec => []RepeatsOnlyWhatWasLost
<1>1. Inv => RepeatsOnlyWhatWasLost
  BY ResilienceAssumption
     DEF ResilienceAssumption, Inv, CallInv, Spared, RepeatsOnlyWhatWasLost
<1>2. QED
  BY <1>1, Invariance, PTL

(* What failed fast or was cancelled in the queue never reached the bus.   *)
THEOREM FailFastCorrect == Spec => []FailFastLeavesNoTrace
<1>1. Inv => FailFastLeavesNoTrace
  BY DEF Inv, CallInv, NoTrace, FailFastLeavesNoTrace
<1>2. QED
  BY <1>1, Invariance, PTL

(* The exit hook reaches every call that can still make attempts.          *)
THEOREM RegistryCorrect == Spec => []RegistryCoversWork
<1>1. Inv => RegistryCoversWork
  BY DEF Inv, CallInv, Registered, RegistryCoversWork
<1>2. QED
  BY <1>1, Invariance, PTL
==============================================================================
