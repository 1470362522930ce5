-------------------------- MODULE GateCircuit_proofs --------------------------
(***************************************************************************)
(* Theorems about GateCircuit, for any number of parallel hooks, threshold *)
(* and cooldown.                                                           *)
(***************************************************************************)
EXTENDS GateCircuit, TLAPS

(* Type correctness: what a hook reads back is a record some hook wrote,   *)
(* stamped no later than now.                                              *)
THEOREM TypeCorrect == Spec => []TypeOK
<1> USE GateAssumption DEF GateAssumption
<1>0. /\ Absent \in GateRecord /\ Torn \in GateRecord
      /\ Cooldown \in 0..Cooldown /\ 0 \in 0..Cooldown /\ 0 \in 0..MaxCount
  BY DEF Absent, Torn, GateRecord, Reason
<1>1. Init => TypeOK
  BY <1>0 DEF Init, TypeOK
<1>2. TypeOK /\ [Next]_vars => TypeOK'
  <2> SUFFICES ASSUME TypeOK, [Next]_vars
               PROVE  TypeOK'
    OBVIOUS
  <2> USE DEF TypeOK
  <2>1. ASSUME NEW h \in Hook, Call(h)
        PROVE  TypeOK'
    BY <2>1 DEF Call, OnNetwork, Local, Degraded, world, ghosts
  <2>0. ASSUME NEW h \in Hook, Unvetted(h)
        PROVE  TypeOK'
    BY <1>0, <2>0 DEF Unvetted, OnNetwork, Local, Degraded, world
  <2>2. ASSUME NEW h \in Hook, Reachable(h)
        PROVE  TypeOK'
    BY <2>2 DEF Reachable, OnNetwork, world, ghosts
  <2>3. ASSUME NEW h \in Hook, Unreachable(h) \/ NoVerdict(h) \/ Verdict(h)
        PROVE  TypeOK'
    <3>1. /\ UNCHANGED <<world, called, prior, lock, file, degraded>>
          /\ sinceContact' = 0
          /\ sinceConnect' \in {Cooldown, sinceConnect}
          /\ \E s \in {"connect_failure", "failure", "clearing"} :
               pc' = [pc EXCEPT ![h] = s]
      BY <2>3 DEF Unreachable, NoVerdict, Verdict
    <3>2. QED
      BY <1>0, <3>1 DEF Local, Degraded, world
  <2>4. ASSUME NEW h \in Hook, Clear(h)
        PROVE  TypeOK'
    BY <1>0, <2>4 DEF Clear, world
  <2>5. ASSUME NEW h \in Hook, Lock(h)
        PROVE  TypeOK'
    <3>1. /\ file.count \in 0..MaxCount /\ pc[h] \in Reason
          /\ OpenedAge(h) \in 0..Cooldown
      BY <2>5 DEF Lock, LockedWith, OpenedAge, GateRecord, Reason
    <3>2. prior' \in [Hook -> GateRecord]
      BY <2>5, <3>1 DEF Lock, LockedWith, GateRecord
    <3>3. QED
      BY <2>5, <3>2 DEF Lock, LockedWith, Local, world, ghosts
  <2>6. ASSUME NEW h \in Hook, Truncate(h)
        PROVE  TypeOK'
    BY <1>0, <2>6 DEF Truncate, Local, world, ghosts
  <2>7. ASSUME NEW h \in Hook, Write(h)
        PROVE  TypeOK'
    <3>1. [prior[h] EXCEPT !.count = Smaller(prior[h].count + 1, MaxCount)]
            \in GateRecord
      <4>1. /\ prior[h] \in GateRecord /\ prior[h].count \in 0..MaxCount
            /\ Smaller(prior[h].count + 1, MaxCount) \in 0..MaxCount
        BY DEF GateRecord, Smaller
      <4>2. QED
        BY <4>1 DEF GateRecord
    <3>2. Smaller(degraded + 1, MaxCount) \in 0..MaxCount
      BY DEF Smaller
    <3>3. file' \in GateRecord /\ degraded' \in 0..MaxCount
      BY <2>7, <3>1, <3>2 DEF Write
    <3>4. sinceConnect' \in 0..Cooldown
      BY <1>0, <2>7 DEF Write
    <3>5. QED
      BY <1>0, <2>7, <3>3, <3>4 DEF Write, world
  <2>8. CASE Tick
    <3>1. \A n \in 0..Cooldown : Smaller(n + 1, Cooldown) \in 0..Cooldown
      BY DEF Smaller
    <3>2. file' \in GateRecord
      <4>1. file.age \in 0..Cooldown
        BY DEF GateRecord
      <4>2. QED
        BY <2>8, <3>1, <4>1 DEF Tick, GateRecord
    <3>3. QED
      BY <2>8, <3>1, <3>2 DEF Tick, world
  <2>9. CASE BusChanges \/ BusSettles
    BY <2>9 DEF BusChanges, BusSettles, hooks, ghosts
  <2>10. CASE UNCHANGED vars
    BY <2>10 DEF vars, world, hooks, ghosts
  <2>11. QED
    BY <2>0, <2>1, <2>2, <2>3, <2>4, <2>5, <2>6, <2>7, <2>8, <2>9, <2>10
       DEF Next, Proceed
<1>3. QED
  BY <1>1, <1>2, PTL DEF Spec

-----------------------------------------------------------------------------
(* The file and its lock.                                                  *)

(* Who is rewriting the file holds the lock; an empty file is being        *)
(* rewritten; and a file that counts something is a record.                *)
FileInv ==
  /\ \A h \in Hook : pc[h] \in {"reading", "truncating"} => lock = h
  /\ file.reason = "torn" => lock # "free"
  /\ file.reason \in Degraded <=> file.count > 0
  /\ \A h \in Hook : lock = h => prior[h].reason \in Degraded
  /\ \A h \in Hook : lock = h => pc[h] \in {"reading", "truncating"}

(* No record is younger than the last contact with the guard: real         *)
(* failures are stamped when they happen, and a fast-fail carries over the *)
(* stamp it found.  Only a verdict, which is a contact, takes the stamp    *)
(* away under a hook that has yet to record its fast-fail.                 *)
AgeInv ==
  /\ file.count > 0 => sinceContact <= file.age
  /\ \A h \in Hook :
       /\ lock = h => sinceContact <= prior[h].age
       /\ pc[h] \in {"connect_failure", "failure", "no_credential", "clearing"}
            => sinceContact = 0
       /\ pc[h] = "fast_fail" => sinceContact < Cooldown
       /\ pc[h] = "fast_fail" /\ file.reason = "absent" => sinceContact = 0

(* Nothing is recorded behind the back of the hook that holds the lock.    *)
CountInv ==
  /\ file.count > 0 => degraded <= file.count
  /\ file.reason = "absent" => degraded = 0
  /\ \A h \in Hook : lock = h => degraded <= prior[h].count

GateInv == FileInv /\ AgeInv /\ CountInv

LEMMA GateStep == TypeOK /\ GateInv /\ [Next]_vars => GateInv'
<1> SUFFICES ASSUME TypeOK, GateInv, [Next]_vars
             PROVE  GateInv'
  OBVIOUS
<1> USE GateAssumption
    DEF GateAssumption, GateInv, FileInv, AgeInv, CountInv
<1>0. /\ pc \in [Hook -> OnNetwork \union Local \union {"idle"}]
      /\ prior \in [Hook -> GateRecord]
      /\ file \in GateRecord /\ file.count \in Nat /\ file.age \in Nat
      /\ file.age <= Cooldown
      /\ sinceContact \in Nat /\ sinceContact <= Cooldown
      /\ degraded \in Nat /\ degraded <= MaxCount
      /\ \A h \in Hook : prior[h].count \in Nat /\ prior[h].age \in Nat
  BY DEF TypeOK, GateRecord
<1>1. ASSUME NEW h \in Hook, Call(h)
      PROVE  GateInv'
  <2>1. /\ pc' = [pc EXCEPT ![h] = IF CircuitOpen(file) THEN "fast_fail"
                                   ELSE "checking"]
        /\ pc[h] = "idle"
        /\ UNCHANGED <<prior, lock, file, sinceContact, degraded>>
    BY <1>1 DEF Call, ghosts
  <2>2. CircuitOpen(file) => file.count > 0 /\ file.age < Cooldown
    BY <1>0 DEF CircuitOpen, Degraded
  <2>3. FileInv'
    BY <1>0, <2>1
  <2>4. AgeInv'
    <3>1. CircuitOpen(file) => file.reason # "absent" /\ sinceContact < Cooldown
      BY <1>0, <2>2 DEF Degraded
    <3>2. QED
      BY <1>0, <2>1, <3>1
  <2>5. CountInv'
    BY <1>0, <2>1
  <2>6. QED
    BY <2>3, <2>4, <2>5
<1>a. ASSUME NEW h \in Hook, Unvetted(h)
      PROVE  GateInv'
  <2>1. /\ pc[h] = "idle"
        /\ pc' = [pc EXCEPT ![h] = "no_credential"]
        /\ sinceContact' = 0
        /\ UNCHANGED <<prior, lock, file, degraded>>
    BY <1>a DEF Unvetted
  <2>2. FileInv'
    BY <1>0, <2>1
  <2>3. AgeInv'
    BY <1>0, <2>1
  <2>4. CountInv'
    BY <1>0, <2>1
  <2>5. QED
    BY <2>2, <2>3, <2>4
<1>2. ASSUME NEW h \in Hook, Reachable(h)
      PROVE  GateInv'
  BY <1>0, <1>2 DEF Reachable, ghosts
<1>3. ASSUME NEW h \in Hook, Unreachable(h) \/ NoVerdict(h) \/ Verdict(h)
      PROVE  GateInv'
  <2>1. /\ pc[h] \in OnNetwork
        /\ \E s \in {"connect_failure", "failure", "clearing"} :
             pc' = [pc EXCEPT ![h] = s]
        /\ sinceContact' = 0
        /\ UNCHANGED <<prior, lock, file, degraded>>
    BY <1>3 DEF Unreachable, NoVerdict, Verdict, OnNetwork
  <2>2. FileInv'
    BY <1>0, <2>1 DEF OnNetwork
  <2>3. AgeInv'
    BY <1>0, <2>1
  <2>4. CountInv'
    BY <1>0, <2>1
  <2>5. QED
    BY <2>2, <2>3, <2>4
<1>4. ASSUME NEW h \in Hook, Clear(h)
      PROVE  GateInv'
  <2>1. /\ pc[h] = "clearing" /\ sinceContact = 0
        /\ pc' = [pc EXCEPT ![h] = "idle"]
        /\ file'.count = 0 /\ file'.reason = "absent"
        /\ degraded' = 0
        /\ UNCHANGED <<prior, lock, sinceContact>>
    BY <1>4 DEF Clear, Absent
  <2>2. FileInv'
    BY <1>0, <2>1 DEF Degraded
  <2>3. AgeInv'
    BY <1>0, <2>1
  <2>4. CountInv'
    BY <1>0, <2>1
  <2>5. QED
    BY <2>2, <2>3, <2>4
<1>5. ASSUME NEW h \in Hook, Lock(h)
      PROVE  GateInv'
  <2>1. /\ pc[h] \in Degraded /\ lock = "free" /\ lock' = h
        /\ pc' = [pc EXCEPT ![h] = "reading"]
        /\ UNCHANGED <<file, sinceContact, degraded>>
    BY <1>5 DEF Lock, LockedWith, ghosts
  <2>2. /\ prior'[h].count = file.count /\ prior'[h].reason = pc[h]
        /\ prior'[h].age = OpenedAge(h)
    BY <1>0, <1>5 DEF Lock, LockedWith
  <2>3. file.reason = "absent" \/ file.count > 0
    BY <1>0, <2>1 DEF GateRecord, Reason
  <2>4. sinceContact <= OpenedAge(h)
    BY <1>0, <2>1, <2>3 DEF OpenedAge, Degraded
  <2>5. degraded <= file.count
    BY <1>0, <2>3
  <2>6. \A u \in Hook : u # h => pc[u] \notin {"reading", "truncating"}
    BY <2>1
  <2>7. FileInv'
    BY <1>0, <2>1, <2>2, <2>6
  <2>8. AgeInv'
    BY <1>0, <2>1, <2>2, <2>4
  <2>9. CountInv'
    BY <1>0, <2>1, <2>2, <2>5
  <2>10. QED
    BY <2>7, <2>8, <2>9
<1>6. ASSUME NEW h \in Hook, Truncate(h)
      PROVE  GateInv'
  <2>1. /\ pc[h] = "reading" /\ lock = h
        /\ pc' = [pc EXCEPT ![h] = "truncating"]
        /\ file'.count = 0 /\ file'.reason = "torn"
        /\ UNCHANGED <<prior, lock, sinceContact, degraded>>
    BY <1>6 DEF Truncate, Torn, ghosts
  <2>2. FileInv'
    BY <1>0, <2>1 DEF Degraded
  <2>3. AgeInv'
    BY <1>0, <2>1
  <2>4. CountInv'
    BY <1>0, <2>1
  <2>5. QED
    BY <2>2, <2>3, <2>4
<1>7. ASSUME NEW h \in Hook, Write(h)
      PROVE  GateInv'
  <2>1. /\ pc[h] = "truncating" /\ lock = h /\ lock' = "free"
        /\ pc' = [pc EXCEPT ![h] = "idle"]
        /\ UNCHANGED sinceContact
    BY <1>7 DEF Write
  <2>2. \A u \in Hook : pc'[u] \notin {"reading", "truncating"}
    BY <1>0, <2>1
  <2>3. CASE file.reason = "torn"
    <3>1. /\ file'.count = Smaller(prior[h].count + 1, MaxCount)
          /\ file'.reason = prior[h].reason
          /\ file'.age = prior[h].age
          /\ degraded' = Smaller(degraded + 1, MaxCount)
      BY <1>0, <1>7, <2>3 DEF Write, GateRecord
    <3>2. file'.reason \in Degraded /\ file'.count > 0
          /\ degraded' <= file'.count
      BY <1>0, <2>1, <3>1 DEF Smaller
    <3>3. FileInv'
      BY <2>1, <2>2, <3>2 DEF Degraded
    <3>4. AgeInv'
      BY <1>0, <2>1, <3>1, <3>2 DEF Degraded
    <3>5. CountInv'
      BY <2>1, <3>2 DEF Degraded
    <3>6. QED
      BY <3>3, <3>4, <3>5
  <2>4. CASE file.reason # "torn"
    <3>1. UNCHANGED <<file, degraded>>
      BY <1>7, <2>4 DEF Write
    <3>2. file.reason # "torn"
      BY <2>4
    <3>3. FileInv'
      BY <1>0, <2>1, <2>2, <3>1, <3>2
    <3>4. AgeInv'
      BY <1>0, <2>1, <3>1
    <3>5. CountInv'
      BY <1>0, <2>1, <3>1
    <3>6. QED
      BY <3>3, <3>4, <3>5
  <2>5. QED
    BY <2>3, <2>4
<1>8. CASE Tick
  <2>1. /\ \A h \in Hook : pc[h] \notin Local
        /\ file'.count = file.count /\ file'.reason = file.reason
        /\ file'.age = Smaller(file.age + 1, Cooldown)
        /\ sinceContact' = Smaller(sinceContact + 1, Cooldown)
        /\ UNCHANGED <<pc, prior, lock, degraded>>
    BY <1>0, <1>8 DEF Tick, GateRecord
  <2>2. file.count > 0 => sinceContact' <= file'.age
    BY <1>0, <2>1 DEF Smaller
  <2>3. \A h \in Hook : lock # h
    BY <2>1 DEF Local
  <2>4. FileInv'
    BY <2>1
  <2>5. AgeInv'
    BY <2>1, <2>2, <2>3 DEF Local, Degraded
  <2>6. CountInv'
    BY <2>1
  <2>7. QED
    BY <2>4, <2>5, <2>6
<1>9. CASE BusChanges \/ BusSettles
  BY <1>9 DEF BusChanges, BusSettles, hooks, ghosts
<1>10. CASE UNCHANGED vars
  BY <1>10 DEF vars, hooks, ghosts
<1>11. QED
  BY <1>a, <1>1, <1>2, <1>3, <1>4, <1>5, <1>6, <1>7, <1>8, <1>9, <1>10
     DEF Next, Proceed

LEMMA GateAlways == Spec => []GateInv
<1>1. Init => GateInv
  BY GateAssumption
     DEF GateAssumption, Init, Absent, GateInv, FileInv, AgeInv, CountInv,
         Degraded
<1>2. QED
  BY <1>1, TypeCorrect, GateStep, PTL DEF Spec

(* However many hooks run in parallel, fast-fails never keep the circuit   *)
(* open: the guard has been tried within the cooldown.                     *)
THEOREM ProbeCorrect == Spec => []ProbedWithinCooldown
<1>1. GateInv => ProbedWithinCooldown
  BY DEF GateInv, AgeInv, ProbedWithinCooldown
<1>2. QED
  BY <1>1, GateAlways, PTL

(* No degraded call that was recorded is lost from the count, whatever the *)
(* unlocked readers and the unlocked unlink do in between.                 *)
THEOREM CountCorrect == Spec => []CountsEveryDegrade
<1>1. TypeOK /\ GateInv => CountsEveryDegrade
  BY DEF GateInv, FileInv, CountInv, CountsEveryDegrade
<1>2. QED
  BY <1>1, TypeCorrect, GateAlways, PTL
===============================================================================
