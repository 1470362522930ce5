----------------------------- MODULE GateCircuit -----------------------------
(***************************************************************************)
(* The PreToolUse gate of hooks/_gate.py and the state file it keeps       *)
(* through hooks/_state.py.                                                *)
(*                                                                         *)
(* Every tool call of a session runs one short-lived hook process, and     *)
(* parallel tool calls run parallel hooks.  A hook asks the guard for a    *)
(* verdict and enforces it; when the guard cannot be asked, the call runs  *)
(* unvetted and the hook records that in the agent's gate-degraded file.   *)
(* The file is also a circuit breaker shared by all of them: while it says *)
(* that the guard has just failed, hooks do not even try.                  *)
(*                                                                         *)
(* A record is written under a file lock, as read, truncate and write; a   *)
(* verdict unlinks the file without the lock, and hooks read it without.   *)
(* Time passes while hooks are idle or on the network; what they do with   *)
(* the file takes none of it.  A hook runs to its end.                     *)
(***************************************************************************)
EXTENDS Integers

CONSTANTS
  Hook,       \* tool calls that may be under way together
  Threshold,  \* degraded calls that open the circuit (3 in the code)
  Cooldown,   \* ticks the circuit stays open (30 s in the code)
  MaxCount    \* bound: where the model stops counting degraded calls

ASSUME GateAssumption ==
  /\ "free" \notin Hook
  /\ Threshold \in Nat \ {0}
  /\ Cooldown \in Nat \ {0}
  /\ MaxCount \in Nat
  /\ MaxCount >= Threshold

VARIABLES
  \* the world
  bus,           \* what the guard does now
  settled,       \* the bus is up and sessions have a credential, for good
  \* the hooks
  pc,            \* per hook: where its process is
  called,        \* per hook: it has made its call of this tick
  prior,         \* per hook: the record it read, as it will rewrite it
  lock,          \* the hook that holds the file lock, or "free"
  file,          \* the gate-degraded file
  \* ghosts
  sinceContact,  \* ticks since a hook last heard from the guard, failed to,
                 \* or had no credential to ask it with
  sinceConnect,  \* ticks since a connect failure was recorded, unless answered
  degraded       \* degraded calls recorded since the file was last cleared

world == <<bus, settled>>
hooks == <<pc, called, prior, lock>>
ghosts == <<sinceContact, sinceConnect, degraded>>
vars == <<world, hooks, file, ghosts>>

OnNetwork == {"checking", "asking"}
Degraded == {"fast_fail", "connect_failure", "failure", "no_credential"}
Local == Degraded \union {"reading", "truncating", "clearing"}
Reason == Degraded \union {"absent", "torn"}
GateRecord == [count : 0..MaxCount, reason : Reason, age : 0..Cooldown]

Absent == [count |-> 0, reason |-> "absent", age |-> Cooldown]
Torn == [count |-> 0, reason |-> "torn", age |-> Cooldown]
Smaller(a, b) == IF a <= b THEN a ELSE b

Init ==
  /\ bus \in {"up", "failing", "gone"}
  /\ settled = FALSE
  /\ pc = [h \in Hook |-> "idle"]
  /\ called = [h \in Hook |-> FALSE]
  /\ prior = [h \in Hook |-> Absent]
  /\ lock = "free"
  /\ file = Absent
  /\ sinceContact = Cooldown
  /\ sinceConnect = Cooldown
  /\ degraded = 0

-----------------------------------------------------------------------------
(* One tool call.                                                          *)

(* The circuit as a hook reads it; a file that is absent or half written   *)
(* counts as closed.  `age` is measured from opened_at.                    *)
CircuitOpen(f) ==
  /\ f.count >= Threshold \/ f.reason = "connect_failure"
  /\ f.age < Cooldown

(* pre_tool_use begins: fail fast, or go and ask.                          *)
Call(h) ==
  /\ pc[h] = "idle"
  /\ ~called[h]
  /\ called' = [called EXCEPT ![h] = TRUE]
  /\ pc' = [pc EXCEPT ![h] = IF CircuitOpen(file) THEN "fast_fail"
                             ELSE "checking"]
  /\ UNCHANGED <<world, prior, lock, file, ghosts>>

(* A hook without a credential, in a project that has opted in.  One in a  *)
(* project that has not does nothing.                                      *)
Unvetted(h) ==
  /\ pc[h] = "idle"
  /\ ~called[h] /\ ~settled
  /\ called' = [called EXCEPT ![h] = TRUE]
  /\ pc' = [pc EXCEPT ![h] = "no_credential"]
  /\ sinceContact' = 0
  /\ UNCHANGED <<world, prior, lock, file, sinceConnect, degraded>>

(* _bus_reachable says yes.                                                *)
Reachable(h) ==
  /\ pc[h] = "checking"
  /\ bus # "gone"
  /\ pc' = [pc EXCEPT ![h] = "asking"]
  /\ UNCHANGED <<world, called, prior, lock, file, ghosts>>

(* It says no.                                                             *)
Unreachable(h) ==
  /\ pc[h] = "checking"
  /\ bus = "gone"
  /\ pc' = [pc EXCEPT ![h] = "connect_failure"]
  /\ sinceContact' = 0
  /\ UNCHANGED <<world, called, prior, lock, file, sinceConnect, degraded>>

(* No verdict: a transport error, a refusal, or a 5xx twice.               *)
NoVerdict(h) ==
  /\ pc[h] = "asking"
  /\ bus # "up"
  /\ pc' = [pc EXCEPT ![h] = "failure"]
  /\ sinceContact' = 0
  /\ sinceConnect' = Cooldown
  /\ UNCHANGED <<world, called, prior, lock, file, degraded>>

(* The guard answers allow or deny.                                        *)
Verdict(h) ==
  /\ pc[h] = "asking"
  /\ bus # "gone"
  /\ pc' = [pc EXCEPT ![h] = "clearing"]
  /\ sinceContact' = 0
  /\ sinceConnect' = Cooldown
  /\ UNCHANGED <<world, called, prior, lock, file, degraded>>

(* clear_gate_degraded: unlink, without the lock.                          *)
Clear(h) ==
  /\ pc[h] = "clearing"
  /\ pc' = [pc EXCEPT ![h] = "idle"]
  /\ file' = Absent
  /\ degraded' = 0
  /\ UNCHANGED <<world, called, prior, lock, sinceContact, sinceConnect>>

-----------------------------------------------------------------------------
(* record_gate_degraded: for the reason the hook comes with.               *)

(* The lock is taken and the record read.                                  *)
LockedWith(h, age) ==
  /\ pc[h] \in Degraded
  /\ lock' = h
  /\ prior' = [prior EXCEPT ![h] =
       [count |-> file.count, reason |-> pc[h], age |-> age]]
  /\ pc' = [pc EXCEPT ![h] = "reading"]
  /\ UNCHANGED <<world, called, file, ghosts>>
OpenedAge(h) ==  \* opened_at: a fast-fail carries it over
  IF pc[h] = "fast_fail" /\ file.count > 0 THEN file.age ELSE 0

LockRefreshing(h) ==  \* a slip: a fast-fail opens the circuit anew
  lock = "free" /\ LockedWith(h, 0)
Lock(h) == lock = "free" /\ LockedWith(h, OpenedAge(h))

(* write_text opens the file: it exists, and is empty.                     *)
Truncate(h) ==
  /\ pc[h] = "reading"
  /\ file' = Torn
  /\ pc' = [pc EXCEPT ![h] = "truncating"]
  /\ UNCHANGED <<world, called, prior, lock, ghosts>>

(* The text is written, unless the file was unlinked meanwhile, and the    *)
(* lock is given back.                                                     *)
Write(h) ==
  /\ pc[h] = "truncating"
  /\ IF file.reason = "torn"
     THEN /\ file' = [prior[h] EXCEPT !.count = Smaller(@ + 1, MaxCount)]
          /\ degraded' = Smaller(degraded + 1, MaxCount)
          /\ sinceConnect' = IF prior[h].reason = "connect_failure" THEN 0
                             ELSE sinceConnect
     ELSE UNCHANGED <<file, degraded, sinceConnect>>
  /\ lock' = "free"
  /\ prior' = [prior EXCEPT ![h] = Absent]
  /\ pc' = [pc EXCEPT ![h] = "idle"]
  /\ UNCHANGED <<world, called, sinceContact>>

-----------------------------------------------------------------------------
(* The clock and the bus.                                                  *)

Tick ==
  /\ \A h \in Hook : pc[h] \notin Local
  /\ file' = [file EXCEPT !.age = Smaller(@ + 1, Cooldown)]
  /\ sinceContact' = Smaller(sinceContact + 1, Cooldown)
  /\ sinceConnect' = Smaller(sinceConnect + 1, Cooldown)
  /\ called' = [h \in Hook |-> FALSE]
  /\ UNCHANGED <<world, pc, prior, lock, degraded>>

BusChanges ==
  /\ ~settled
  /\ bus' \in {"up", "failing", "gone"} \ {bus}
  /\ UNCHANGED <<settled, hooks, file, ghosts>>

BusSettles ==
  /\ ~settled
  /\ settled' = TRUE
  /\ bus' = "up"
  /\ UNCHANGED <<hooks, file, ghosts>>

Proceed(h) ==
  \/ Reachable(h) \/ Unreachable(h) \/ NoVerdict(h) \/ Verdict(h)
  \/ Clear(h) \/ Lock(h) \/ Truncate(h) \/ Write(h)

Next ==
  \/ \E h \in Hook : Call(h) \/ Unvetted(h) \/ Proceed(h)
  \/ Tick
  \/ BusChanges
  \/ BusSettles

Spec == Init /\ [][Next]_vars

(* Hooks run to their end, time passes, and the session keeps calling      *)
(* tools.                                                                  *)
Fairness ==
  /\ \A h \in Hook : WF_vars(Call(h)) /\ WF_vars(Proceed(h))
  /\ WF_vars(Tick)

FairSpec == Spec /\ Fairness

-----------------------------------------------------------------------------
TypeOK ==
  /\ bus \in {"up", "failing", "gone"}
  /\ settled \in BOOLEAN
  /\ pc \in [Hook -> OnNetwork \union Local \union {"idle"}]
  /\ called \in [Hook -> BOOLEAN]
  /\ prior \in [Hook -> GateRecord]
  /\ lock \in Hook \union {"free"}
  /\ file \in GateRecord
  /\ sinceContact \in 0..Cooldown
  /\ sinceConnect \in 0..Cooldown
  /\ degraded \in 0..MaxCount

(* A call runs unvetted without asking only if some hook heard from the    *)
(* guard, failed to or could not ask, within the cooldown: however fast    *)
(* and parallel the calls come, fast-fails do not prolong the circuit      *)
(* (SPECS/0075).                                                           *)
ProbedWithinCooldown ==
  \A h \in Hook : pc[h] = "fast_fail" => sinceContact < Cooldown

(* The record never counts fewer degraded calls than were recorded since   *)
(* the last verdict, though parallel hooks read, change and rewrite it.    *)
CountsEveryDegrade == file.reason \in Degraded => file.count >= degraded

(* "A CONNECT failure opens the circuit at once" (_gate.py): within the    *)
(* cooldown of one, and unless the guard has been heard since, no call     *)
(* goes to rediscover that the network is gone.                            *)
ConnectFailureOpens ==
  [][\A h \in Hook : pc[h] = "idle" /\ pc'[h] = "checking"
                       => sinceConnect >= Cooldown]_vars

(* Once the bus is up and no session is without its credential, a session  *)
(* that keeps calling tools gets a verdict again, whatever the outage and  *)
(* the parallel hooks left in the file.                                    *)
GatingReturns == settled ~> \E h \in Hook : pc[h] = "clearing"
==============================================================================
