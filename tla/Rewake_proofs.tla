---------------------------- MODULE Rewake_proofs ----------------------------
(***************************************************************************)
(* Theorems about Rewake, and about the self-tests beside it (WakeDoctor), *)
(* for any monitors, mail, page and ledger limits.                         *)
(***************************************************************************)
EXTENDS WakeDoctor, SequenceTheorems, FiniteSetTheorems, TLAPS

-----------------------------------------------------------------------------
(* The ledger.                                                             *)

(* A cut keeps the newest lines in their places, counted from the end.     *)
LEMMA NewestKeeps ==
  ASSUME NEW lines \in Seq(Mail), Len(lines) > TrimAt
  PROVE  /\ NewestOf(lines) \in Seq(Mail)
         /\ Len(NewestOf(lines)) = TrimTo
         /\ TrimTo <= Len(lines)
         /\ \A k \in 0..(TrimTo - 1) :
              NewestOf(lines)[TrimTo - k] = lines[Len(lines) - k]
<1> USE RewakeAssumption DEF RewakeAssumption
<1> DEFINE first == Len(lines) - TrimTo + 1
           cut == NewestOf(lines)
<1>1. Len(lines) \in Nat /\ first \in 1..Len(lines) /\ TrimTo <= Len(lines)
  OBVIOUS
<1>2. /\ cut \in Seq(Mail) /\ Len(cut) = TrimTo
      /\ \A i \in 1..TrimTo : cut[i] = lines[first + i - 1]
  BY <1>1, SubSeqProperties DEF NewestOf
<1>3. ASSUME NEW k \in 0..(TrimTo - 1)
      PROVE  cut[TrimTo - k] = lines[Len(lines) - k]
  <2>1. TrimTo - k \in 1..TrimTo /\ first + (TrimTo - k) - 1 = Len(lines) - k
    BY <1>1
  <2>2. QED
    BY <1>2, <2>1
<1>4. QED
  BY <1>1, <1>2, <1>3

(* A cut leaves nothing that was not there.                                *)
LEMMA NewestWasThere ==
  ASSUME NEW lines \in Seq(Mail), Len(lines) > TrimAt
  PROVE  ToSet(NewestOf(lines)) \subseteq ToSet(lines)
<1> USE RewakeAssumption DEF RewakeAssumption
<1> SUFFICES ASSUME NEW i \in 1..TrimTo
             PROVE  NewestOf(lines)[i] \in ToSet(lines)
  BY NewestKeeps DEF ToSet
<1>1. TrimTo - i \in 0..(TrimTo - 1) /\ TrimTo - (TrimTo - i) = i
  OBVIOUS
<1>2. NewestOf(lines)[i] = lines[Len(lines) - (TrimTo - i)]
  BY <1>1, NewestKeeps
<1>3. TrimTo <= Len(lines)
  BY NewestKeeps
<1>4. Len(lines) - (TrimTo - i) \in 1..Len(lines)
  BY <1>1, <1>3
<1>5. QED
  BY <1>2, <1>4 DEF ToSet

LEMMA ToSetConcat ==
  ASSUME NEW s \in Seq(Mail), NEW t \in Seq(Mail)
  PROVE  ToSet(s \o t) \subseteq ToSet(s) \union ToSet(t)
<1> SUFFICES ASSUME NEW j \in 1..Len(s \o t)
             PROVE  (s \o t)[j] \in ToSet(s) \union ToSet(t)
  BY DEF ToSet
<1>1. CASE j <= Len(s)
  <2>1. j \in 1..Len(s) /\ (s \o t)[j] = s[j]
    BY <1>1
  <2>2. QED
    BY <2>1 DEF ToSet
<1>2. CASE j > Len(s)
  <2>1. j - Len(s) \in 1..Len(t) /\ (s \o t)[j] = t[j - Len(s)]
    BY <1>2
  <2>2. QED
    BY <2>1 DEF ToSet
<1>3. QED
  BY <1>1, <1>2

(* What a claim appends: the unclaimed keys, each once.                    *)
LEMMA KeysAppended ==
  ASSUME TypeOK, NEW m \in Monitor, NEW keys \in SetToSeqs(Unclaimed(m))
  PROVE  /\ keys \in Seq(Mail) /\ Len(keys) \in Nat
         /\ \A i \in 1..Len(keys) : keys[i] \in Unclaimed(m)
         /\ \A i, j \in 1..Len(keys) : keys[i] = keys[j] => i = j
<1> DEFINE n == Cardinality(Unclaimed(m))
<1>1. keys \in [1..n -> Unclaimed(m)]
      /\ \A i, j \in 1..n : i # j => keys[i] # keys[j]
  BY DEF SetToSeqs
<1>2. Unclaimed(m) \subseteq Mail
  BY DEF TypeOK, Unclaimed
<1>3. n \in Nat
  <2>1. IsFiniteSet(Mail)
    BY FS_Interval, RewakeAssumption DEF RewakeAssumption, Mail
  <2>2. Unclaimed(m) \in SUBSET Mail
    BY <1>2
  <2>3. QED
    BY <2>1, <2>2, FS_Subset, FS_CardinalityType
<1>4. QED
  BY <1>1, <1>2, <1>3

LEMMA SinceType ==
  ASSUME TypeOK, NEW keys \in Seq(Mail)
  PROVE  SinceAfter(keys) \in [Mail -> 0..TrimTo]
<1> SUFFICES ASSUME NEW d \in Mail
             PROVE  SinceAfter(keys)[d] \in 0..TrimTo
  BY DEF SinceAfter
<1> USE RewakeAssumption DEF RewakeAssumption
<1>1. CASE \E i \in 1..Len(keys) : keys[i] = d
  <2> DEFINE i == CHOOSE i \in 1..Len(keys) : keys[i] = d
  <2>1. i \in 1..Len(keys)
    BY <1>1
  <2>2. SinceAfter(keys)[d] = IF Len(keys) - i < TrimTo THEN Len(keys) - i ELSE TrimTo
    BY <1>1 DEF SinceAfter
  <2> HIDE DEF i
  <2>3. QED
    BY <2>1, <2>2
<1>2. CASE ~ \E i \in 1..Len(keys) : keys[i] = d
  <2>1. since[d] \in 0..TrimTo
    BY DEF TypeOK
  <2>2. SinceAfter(keys)[d]
          = IF since[d] + Len(keys) < TrimTo THEN since[d] + Len(keys) ELSE TrimTo
    BY <1>2 DEF SinceAfter
  <2>3. QED
    BY <2>1, <2>2
<1>3. QED
  BY <1>1, <1>2

-----------------------------------------------------------------------------
(* Type correctness; a cut leaves TrimTo lines at most.                    *)

LEMMA ClaimTypes ==
  ASSUME TypeOK, NEW m \in Monitor, Claim(m)
  PROVE  TypeOK'
<1> USE RewakeAssumption DEF RewakeAssumption
<1>1. PICK keys \in SetToSeqs(Unclaimed(m)) : Record(m, keys, ledger \o keys)
  BY DEF Claim
<1> DEFINE lines == ledger \o keys
<1>2. keys \in Seq(Mail)
  BY KeysAppended
<1>3. lines \in Seq(Mail)
  BY <1>2 DEF TypeOK
<1>4. since' \in [Mail -> 0..TrimTo]
  BY <1>1, <1>2, SinceType DEF Record
<1>5. Unclaimed(m) \subseteq Mail
  BY DEF Unclaimed, TypeOK
<1>6. /\ claimed' \in [Monitor -> SUBSET Mail]
      /\ seen' \in [Monitor -> SUBSET Mail]
      /\ fresh' \in [Monitor -> SUBSET Mail]
  BY <1>5 DEF Claim, TypeOK
<1> HIDE DEF lines
<1>7. /\ ledger' \in Seq(Mail)
      /\ unwritten' \in [Monitor -> Seq(Mail)]
      /\ \A n \in Monitor : Len(unwritten'[n]) <= TrimTo
      /\ pc' \in [Monitor -> {"off", "armed", "claiming", "cutting", "closing", "waking"}]
  <2>1. CASE Len(lines) > TrimAt
    <3>1. NewestOf(lines) \in Seq(Mail) /\ Len(NewestOf(lines)) <= TrimTo
      BY <1>3, <2>1, NewestKeeps
    <3>2. /\ ledger' = <<>>
          /\ unwritten' = [unwritten EXCEPT ![m] = NewestOf(lines)]
          /\ pc' = [pc EXCEPT ![m] = "cutting"]
      BY <1>1, <2>1 DEF Record, lines
    <3>3. QED
      BY <3>1, <3>2 DEF TypeOK
  <2>2. CASE ~(Len(lines) > TrimAt)
    <3>1. /\ ledger' = lines
          /\ UNCHANGED unwritten
          /\ pc' = [pc EXCEPT ![m] = "waking"]
      BY <1>1, <2>2 DEF Record, lines
    <3>2. QED
      BY <1>3, <3>1 DEF TypeOK
  <2>3. QED
    BY <2>1, <2>2
<1>8. UNCHANGED <<arrived, unread, kills, woken, forgone>>
  BY DEF Claim, mail
<1>9. QED
  BY <1>4, <1>6, <1>7, <1>8 DEF TypeOK

LEMMA TypeInit == Init => TypeOK
<1> USE RewakeAssumption DEF RewakeAssumption
<1> SUFFICES ASSUME Init
             PROVE  TypeOK
  OBVIOUS
<1>1. 0 \in 0..MaxMail /\ 0 \in 0..MaxKills /\ TrimTo \in 0..TrimTo
  OBVIOUS
<1>2. <<>> \in Seq(Mail) /\ Len(<<>>) = 0
  OBVIOUS
<1>3. QED
  BY <1>1, <1>2 DEF Init, TypeOK

LEMMA TypeStep == TypeOK /\ [Next]_vars => TypeOK'
<1> USE RewakeAssumption DEF RewakeAssumption
<1> SUFFICES ASSUME TypeOK, [Next]_vars
             PROVE  TypeOK'
  OBVIOUS
<1> USE DEF TypeOK, mail, monitors, ghosts
<1>0. <<>> \in Seq(Mail) /\ Len(<<>>) = 0 /\ Nothing \in [Mail -> 0..TrimTo]
  BY DEF Nothing
<1>1. CASE Arrive
  BY <1>1 DEF Arrive
<1>2. ASSUME NEW d \in Mail, Read(d)
      PROVE  TypeOK'
  BY <1>2 DEF Read
<1>3. ToSet(ledger) \subseteq Mail
  BY DEF ToSet
<1>4. Page \subseteq Mail
  <2>1. 1..arrived \subseteq Mail
    BY DEF Mail
  <2>2. QED
    BY <2>1 DEF Page
<1>5. ASSUME NEW m \in Monitor, Arm(m)
      PROVE  TypeOK'
  BY <1>3, <1>5 DEF Arm
<1>6. ASSUME NEW m \in Monitor, Poll(m)
      PROVE  TypeOK'
  BY <1>4, <1>6 DEF Poll
<1>7. ASSUME NEW m \in Monitor, Expire(m) \/ Wake(m)
      PROVE  TypeOK'
  <2>1. /\ pc' \in [Monitor -> {"off", "armed", "claiming", "cutting", "closing", "waking"}]
        /\ seen' \in [Monitor -> SUBSET Mail] /\ fresh' \in [Monitor -> SUBSET Mail]
        /\ claimed' \in [Monitor -> SUBSET Mail]
    BY <1>7 DEF Expire, Wake, Disarm
  <2>2. /\ unwritten' \in [Monitor -> Seq(Mail)]
        /\ \A n \in Monitor : Len(unwritten'[n]) <= TrimTo
    <3>1. unwritten' = [unwritten EXCEPT ![m] = <<>>]
      BY <1>7 DEF Expire, Wake, Disarm
    <3>2. \A n \in Monitor : unwritten'[n] = unwritten[n] \/ unwritten'[n] = <<>>
      BY <3>1
    <3>3. \A n \in Monitor : Len(unwritten'[n]) <= TrimTo
      BY <1>0, <3>2
    <3>4. unwritten' \in [Monitor -> Seq(Mail)]
      BY <1>0, <3>1
    <3>5. QED
      BY <3>3, <3>4
  <2>3. woken' \subseteq Mail /\ UNCHANGED <<mail, ledger, kills, forgone, since>>
    BY <1>7 DEF Expire, Wake
  <2>4. QED
    BY <2>1, <2>2, <2>3
<1>8. ASSUME NEW m \in Monitor, Kill(m)
      PROVE  TypeOK'
  <2>1. kills' \in 0..MaxKills
    BY <1>8 DEF Kill
  <2>2. since' \in [Mail -> 0..TrimTo]
    BY <1>0, <1>8 DEF Kill
  <2>3. QED
    BY <1>0, <1>8, <2>1, <2>2 DEF Kill, Disarm
<1>9. ASSUME NEW m \in Monitor, TooLate(m)
      PROVE  TypeOK'
  BY <1>9 DEF TooLate
<1>10. ASSUME NEW m \in Monitor, Claim(m)
       PROVE  TypeOK'
  BY <1>10, ClaimTypes
<1>11. ASSUME NEW m \in Monitor, WriteBack(m) \/ Close(m)
       PROVE  TypeOK'
  <2>1. ledger \o unwritten[m] \in Seq(Mail)
    OBVIOUS
  <2>2. /\ unwritten' \in [Monitor -> Seq(Mail)]
        /\ \A n \in Monitor : Len(unwritten'[n]) <= TrimTo
    <3>1. unwritten' = [unwritten EXCEPT ![m] = <<>>]
      BY <1>11 DEF WriteBack, Close
    <3>2. \A n \in Monitor : unwritten'[n] = unwritten[n] \/ unwritten'[n] = <<>>
      BY <3>1
    <3>3. \A n \in Monitor : Len(unwritten'[n]) <= TrimTo
      BY <1>0, <3>2
    <3>4. unwritten' \in [Monitor -> Seq(Mail)]
      BY <1>0, <3>1
    <3>5. QED
      BY <3>3, <3>4
  <2>3. since' \in [Mail -> 0..TrimTo]
    BY <1>0, <1>11 DEF WriteBack, Close
  <2>4. /\ pc' \in [Monitor -> {"off", "armed", "claiming", "cutting", "closing", "waking"}]
        /\ ledger' = ledger \o unwritten[m]
        /\ UNCHANGED <<mail, seen, fresh, claimed, kills, woken, forgone>>
    BY <1>11 DEF WriteBack, Close
  <2>5. QED
    BY <2>1, <2>2, <2>3, <2>4
<1>12. ASSUME NEW m \in Monitor, UnlockEarly(m)
       PROVE  TypeOK'
  BY <1>0, <1>12 DEF UnlockEarly
<1>13. CASE UNCHANGED vars
  BY <1>13 DEF vars
<1>14. QED
  BY <1>1, <1>2, <1>5, <1>6, <1>7, <1>8, <1>9, <1>10, <1>11, <1>12, <1>13
     DEF Next, PollInVain, Step, Cut

(* Every line of the ledger and every key in hand is a delivery, and a cut *)
(* leaves TrimTo lines at most.                                            *)
THEOREM TypeCorrect == Spec => []TypeOK
BY TypeInit, TypeStep, PTL DEF Spec

-----------------------------------------------------------------------------
(* One wake per delivery.                                                  *)

(* The key stands as far from the end of the lines as there were keys      *)
(* since it was claimed.                                                   *)
Placed(lines, d) ==
  since[d] < Len(lines) /\ lines[Len(lines) - since[d]] = d

(* A key that was claimed less than TrimTo keys ago is in the file or,     *)
(* while the file is cut, in the lines that are about to be written back.  *)
Newest ==
  \A d \in Mail : since[d] < TrimTo =>
    /\ LockFree => Placed(ledger, d)
    /\ \A m \in Monitor : pc[m] = "cutting" => Placed(ledger \o unwritten[m], d)

OneHolder ==
  \A m, n \in Monitor : pc[m] = "cutting" /\ pc[n] = "cutting" => m = n

(* The keys of a claim are placed in the lines that it makes.              *)
LEMMA ClaimPlaces ==
  ASSUME TypeOK, Newest, LockFree, NEW m \in Monitor,
         NEW keys \in SetToSeqs(Unclaimed(m)), since' = SinceAfter(keys),
         NEW d \in Mail, since'[d] < TrimTo
  PROVE  /\ since'[d] < Len(ledger \o keys)
         /\ (ledger \o keys)[Len(ledger \o keys) - since'[d]] = d
<1> USE RewakeAssumption DEF RewakeAssumption
<1> DEFINE lines == ledger \o keys
           s == since'[d]
<1>1. ledger \in Seq(Mail) /\ keys \in Seq(Mail) /\ Len(keys) \in Nat
      /\ since[d] \in 0..TrimTo
  BY KeysAppended DEF TypeOK
<1>2. lines \in Seq(Mail) /\ Len(lines) = Len(ledger) + Len(keys)
  BY <1>1
<1>3. s = SinceAfter(keys)[d]
  OBVIOUS
<1>4. CASE \E i \in 1..Len(keys) : keys[i] = d
  <2> DEFINE i == CHOOSE i \in 1..Len(keys) : keys[i] = d
  <2>1. i \in 1..Len(keys) /\ keys[i] = d
    BY <1>4
  <2>2. s = IF Len(keys) - i < TrimTo THEN Len(keys) - i ELSE TrimTo
    BY <1>3, <1>4 DEF SinceAfter
  <2> HIDE DEF i
  <2>3. s = Len(keys) - i
    BY <2>1, <2>2
  <2>4. Len(lines) - s = Len(ledger) + i /\ s < Len(lines)
    BY <1>1, <1>2, <2>1, <2>3
  <2>5. lines[Len(ledger) + i] = keys[i]
    BY <1>1, <2>1
  <2>6. QED
    BY <2>1, <2>4, <2>5
<1>5. CASE ~ \E i \in 1..Len(keys) : keys[i] = d
  <2>1. s = IF since[d] + Len(keys) < TrimTo THEN since[d] + Len(keys) ELSE TrimTo
    BY <1>3, <1>5 DEF SinceAfter
  <2>2. s = since[d] + Len(keys) /\ since[d] < TrimTo
    BY <1>1, <2>1
  <2>3. since[d] < Len(ledger) /\ ledger[Len(ledger) - since[d]] = d
    BY <2>2 DEF Newest, Placed
  <2>4. Len(lines) - s = Len(ledger) - since[d] /\ s < Len(lines)
    BY <1>1, <1>2, <2>2, <2>3
  <2>5. Len(ledger) - since[d] \in 1..Len(ledger)
    BY <1>1, <2>3
  <2>6. lines[Len(ledger) - since[d]] = ledger[Len(ledger) - since[d]]
    BY <1>1, <2>5
  <2>7. QED
    BY <2>3, <2>4, <2>6
<1>6. QED
  BY <1>4, <1>5

(* A step of a monitor that neither takes nor holds the lock.              *)
LEMMA NewestBeside ==
  ASSUME Newest, OneHolder, UNCHANGED <<ledger, since>>, NEW m \in Monitor,
         pc[m] # "cutting", pc'[m] # "cutting",
         \A n \in Monitor \ {m} : pc'[n] = pc[n],
         \A n \in Monitor \ {m} : unwritten'[n] = unwritten[n]
  PROVE  Newest' /\ OneHolder'
<1>1. \A n \in Monitor : pc'[n] = "cutting" => n # m /\ pc[n] = "cutting"
  OBVIOUS
<1>2. LockFree' => LockFree
  BY DEF LockFree
<1>3. OneHolder'
  BY <1>1 DEF OneHolder
<1>4. ASSUME NEW d \in Mail, since'[d] < TrimTo, LockFree'
      PROVE  Placed(ledger, d)'
  BY <1>2, <1>4 DEF Newest, Placed
<1>5. ASSUME NEW d \in Mail, since'[d] < TrimTo, NEW n \in Monitor, pc'[n] = "cutting"
      PROVE  Placed(ledger \o unwritten[n], d)'
  <2>1. Placed(ledger \o unwritten[n], d) /\ unwritten'[n] = unwritten[n]
    BY <1>1, <1>5 DEF Newest
  <2>2. QED
    BY <2>1 DEF Placed
<1>6. QED
  BY <1>3, <1>4, <1>5 DEF Newest

(* When no claim counts any more, nothing has to be in its place.          *)
LEMMA NewestOfNothing == since' = Nothing => Newest'
<1> SUFFICES ASSUME since' = Nothing
             PROVE  Newest'
  OBVIOUS
<1>1. \A d \in Mail : ~(since'[d] < TrimTo)
  BY RewakeAssumption DEF RewakeAssumption, Nothing
<1>2. QED
  BY <1>1 DEF Newest

LEMMA NewestClaim ==
  ASSUME TypeOK, Newest, NEW m \in Monitor, Claim(m)
  PROVE  Newest' /\ OneHolder'
<1> USE RewakeAssumption DEF RewakeAssumption
<1>1. PICK keys \in SetToSeqs(Unclaimed(m)) : Record(m, keys, ledger \o keys)
  BY DEF Claim
<1>2. LockFree /\ since' = SinceAfter(keys)
  BY <1>1 DEF Claim, Record
<1> DEFINE lines == ledger \o keys
<1>3. \A d \in Mail : since'[d] < TrimTo
        => since'[d] < Len(lines) /\ lines[Len(lines) - since'[d]] = d
  BY <1>2, ClaimPlaces
<1>4. lines \in Seq(Mail) /\ since' \in [Mail -> 0..TrimTo]
  <2>1. keys \in Seq(Mail)
    BY KeysAppended
  <2>2. QED
    BY <1>2, <2>1, SinceType DEF TypeOK
<1> HIDE DEF lines
<1>5. CASE Len(lines) > TrimAt
  <2>1. /\ ledger' = <<>>
        /\ unwritten' = [unwritten EXCEPT ![m] = NewestOf(lines)]
        /\ pc' = [pc EXCEPT ![m] = "cutting"]
    BY <1>1, <1>5 DEF Record, lines
  <2>2. \A n \in Monitor : pc'[n] = "cutting" <=> n = m
    BY <1>2, <2>1 DEF LockFree, TypeOK
  <2>3. ~LockFree'
    BY <2>2 DEF LockFree
  <2>4. /\ NewestOf(lines) \in Seq(Mail) /\ Len(NewestOf(lines)) = TrimTo
        /\ \A k \in 0..(TrimTo - 1) : NewestOf(lines)[TrimTo - k] = lines[Len(lines) - k]
    BY <1>4, <1>5, NewestKeeps
  <2>5. ledger' \o unwritten'[m] = NewestOf(lines)
    BY <2>1, <2>4, ConcatEmptySeq DEF TypeOK
  <2>6. ASSUME NEW d \in Mail, since'[d] < TrimTo
        PROVE  Placed(ledger \o unwritten[m], d)'
    <3>1. since'[d] \in 0..(TrimTo - 1)
      BY <1>4, <2>6
    <3>2. lines[Len(lines) - since'[d]] = d
      BY <1>3, <2>6
    <3>3. NewestOf(lines)[TrimTo - since'[d]] = d
      BY <2>4, <3>1, <3>2
    <3>4. since'[d] < Len(NewestOf(lines))
          /\ NewestOf(lines)[Len(NewestOf(lines)) - since'[d]] = d
      BY <2>4, <2>6, <3>3
    <3>5. QED
      BY <2>5, <3>4 DEF Placed
  <2>7. QED
    BY <2>2, <2>3, <2>6 DEF Newest, OneHolder
<1>6. CASE ~(Len(lines) > TrimAt)
  <2>1. ledger' = lines /\ pc' = [pc EXCEPT ![m] = "waking"]
    BY <1>1, <1>6 DEF Record, lines
  <2>2. \A n \in Monitor : pc'[n] # "cutting"
    BY <1>2, <2>1 DEF LockFree, TypeOK
  <2>3. QED
    BY <1>3, <2>1, <2>2 DEF Newest, OneHolder, Placed
<1>7. QED
  BY <1>5, <1>6

LEMMA NewestStep ==
  TypeOK /\ Newest /\ OneHolder /\ [Next]_vars => Newest' /\ OneHolder'
<1> SUFFICES ASSUME TypeOK, Newest, OneHolder, [Next]_vars
             PROVE  Newest' /\ OneHolder'
  OBVIOUS
<1>1. CASE UNCHANGED <<ledger, since, pc, unwritten>>
  BY <1>1 DEF Newest, OneHolder, Placed, LockFree
<1>2. ASSUME NEW m \in Monitor, Claim(m)
      PROVE  Newest' /\ OneHolder'
  BY <1>2, NewestClaim
<1>3. ASSUME NEW m \in Monitor,
             Arm(m) \/ Poll(m) \/ Expire(m) \/ TooLate(m) \/ Wake(m)
      PROVE  Newest' /\ OneHolder'
  <2>1. UNCHANGED <<ledger, since>>
    BY <1>3 DEF Arm, Poll, Expire, TooLate, Wake, ghosts
  <2>2. /\ pc[m] # "cutting" /\ pc'[m] # "cutting"
        /\ \A n \in Monitor \ {m} : pc'[n] = pc[n]
    BY <1>3 DEF Arm, Poll, Expire, TooLate, Wake, Disarm, TypeOK
  <2>3. \A n \in Monitor \ {m} : unwritten'[n] = unwritten[n]
    BY <1>3 DEF Arm, Poll, Expire, TooLate, Wake, Disarm, TypeOK
  <2>4. QED
    BY <2>1, <2>2, <2>3, NewestBeside
<1>4. ASSUME NEW m \in Monitor, Kill(m)
      PROVE  Newest' /\ OneHolder'
  <2>1. /\ pc'[m] # "cutting" /\ ledger' = ledger
        /\ \A n \in Monitor \ {m} : pc'[n] = pc[n]
    BY <1>4 DEF Kill, Disarm, TypeOK
  <2>2. \A n \in Monitor \ {m} : unwritten'[n] = unwritten[n]
    BY <1>4 DEF Kill, Disarm, TypeOK
  <2>3. CASE pc[m] = "cutting"
    <3>1. OneHolder'
      BY <2>1 DEF OneHolder
    <3>2. QED
      BY <1>4, <2>3, <3>1, NewestOfNothing DEF Kill
  <2>4. CASE pc[m] # "cutting"
    <3>1. since' = since
      BY <1>4, <2>4 DEF Kill
    <3>2. QED
      BY <2>1, <2>2, <2>4, <3>1, NewestBeside
  <2>5. QED
    BY <2>3, <2>4
<1>5. ASSUME NEW m \in Monitor, WriteBack(m)
      PROVE  Newest' /\ OneHolder'
  <2>1. /\ pc[m] = "cutting" /\ pc' = [pc EXCEPT ![m] = "waking"]
        /\ ledger' = ledger \o unwritten[m] /\ since' = since
    BY <1>5 DEF WriteBack, ghosts
  <2>2. \A n \in Monitor : pc'[n] # "cutting"
    BY <2>1 DEF OneHolder, TypeOK
  <2>3. \A d \in Mail : since[d] < TrimTo => Placed(ledger \o unwritten[m], d)
    BY <2>1 DEF Newest
  <2>4. QED
    BY <2>1, <2>2, <2>3 DEF Newest, OneHolder, Placed
<1>6. ASSUME NEW m \in Monitor, UnlockEarly(m) \/ Close(m)
      PROVE  Newest' /\ OneHolder'
  <2>1. since' = Nothing
    BY <1>6 DEF UnlockEarly, Close
  <2>2. \A n \in Monitor : pc'[n] = "cutting" => pc[n] = "cutting"
    BY <1>6 DEF UnlockEarly, Close, TypeOK
  <2>3. QED
    BY <2>1, <2>2, NewestOfNothing DEF OneHolder
<1>7. QED
  BY <1>1, <1>2, <1>3, <1>4, <1>5, <1>6
     DEF Next, PollInVain, Step, Cut, Arrive, Read, vars, mail, monitors, ghosts

(* Claims are exclusive for any number of monitors: a key is claimed again *)
(* only after TrimTo others, or when a cut was not completed with the lock *)
(* held.                                                                   *)
THEOREM WokenOnceCorrect == Spec => WokenOncePerLedger
<1>1. Init => Newest /\ OneHolder
  BY RewakeAssumption DEF RewakeAssumption, Init, Newest, OneHolder
<1>2. TypeOK /\ Newest /\ [Next]_vars
        => [\A m \in Monitor, d \in Mail :
              d \in claimed'[m] \ claimed[m] => since[d] = TrimTo]_vars
  <2> SUFFICES ASSUME TypeOK, Newest, [Next]_vars,
                      NEW m \in Monitor, NEW d \in Mail,
                      d \in claimed'[m] \ claimed[m]
               PROVE  since[d] = TrimTo
    OBVIOUS
  <2> USE DEF TypeOK
  <2>1. CASE UNCHANGED claimed
    BY <2>1
  <2>2. ASSUME NEW n \in Monitor, Disarm(n)
        PROVE  FALSE
    BY <2>2 DEF Disarm
  <2>3. ASSUME NEW n \in Monitor, Claim(n)
        PROVE  since[d] = TrimTo
    <3>1. d \in Unclaimed(n) /\ LockFree
      BY <2>3 DEF Claim
    <3>2. d \notin ToSet(ledger)
      BY <3>1 DEF Unclaimed
    <3>3. ~(since[d] < TrimTo)
      <4> SUFFICES ASSUME since[d] < TrimTo
                   PROVE  FALSE
        OBVIOUS
      <4>1. since[d] < Len(ledger) /\ ledger[Len(ledger) - since[d]] = d
        BY <3>1 DEF Newest, Placed
      <4>2. Len(ledger) - since[d] \in 1..Len(ledger)
        BY <4>1, RewakeAssumption DEF RewakeAssumption
      <4>3. QED
        BY <3>2, <4>1, <4>2 DEF ToSet
    <3>4. QED
      BY <3>3, RewakeAssumption DEF RewakeAssumption
  <2>4. QED
    BY <2>1, <2>2, <2>3
       DEF Next, PollInVain, Step, Cut, Arrive, Read, Arm, Poll, Expire, TooLate, Wake, Kill,
           WriteBack, UnlockEarly, Close, vars, mail, monitors
<1>3. QED
  BY <1>1, <1>2, TypeCorrect, NewestStep, PTL DEF Spec, WokenOncePerLedger

-----------------------------------------------------------------------------
(* Nothing is lost between a claim and its wake, but by a kill.            *)

(* A monitor has claims to announce only after its claim.                  *)
ClaimsInHand ==
  \A m \in Monitor : pc[m] \in {"off", "armed", "claiming"} => claimed[m] = {}

Accounted(d) == d \in woken \union forgone \/ \E m \in Monitor : d \in claimed[m]

(* The lines on their way back into the file count as well.                *)
Account ==
  /\ \A d \in ToSet(ledger) : Accounted(d)
  /\ \A m \in Monitor : \A d \in ToSet(unwritten[m]) : Accounted(d)

LEMMA AccountClaim ==
  ASSUME TypeOK, ClaimsInHand, Account, NEW m \in Monitor, Claim(m)
  PROVE  ClaimsInHand' /\ Account'
<1>1. PICK keys \in SetToSeqs(Unclaimed(m)) : Record(m, keys, ledger \o keys)
  BY DEF Claim
<1> DEFINE lines == ledger \o keys
<1>2. /\ claimed[m] = {} /\ claimed' = [claimed EXCEPT ![m] = Unclaimed(m)]
      /\ UNCHANGED <<woken, forgone>>
  BY DEF Claim, ClaimsInHand
<1>3. ledger \in Seq(Mail) /\ keys \in Seq(Mail) /\ lines \in Seq(Mail)
  BY KeysAppended DEF TypeOK
<1>4. ASSUME NEW d, Accounted(d) \/ d \in Unclaimed(m)
      PROVE  Accounted(d)'
  <2>1. \A n \in Monitor : claimed[n] \subseteq claimed'[n]
    BY <1>2 DEF TypeOK
  <2>2. Unclaimed(m) \subseteq claimed'[m]
    BY <1>2 DEF TypeOK
  <2>3. QED
    BY <1>2, <1>4, <2>1, <2>2 DEF Accounted
<1>5. \A d \in ToSet(lines) : Accounted(d)'
  <2>1. ToSet(keys) \subseteq Unclaimed(m)
    BY KeysAppended DEF ToSet
  <2>2. ToSet(lines) \subseteq ToSet(ledger) \union ToSet(keys)
    BY <1>3, ToSetConcat
  <2>3. QED
    BY <1>4, <2>1, <2>2 DEF Account
<1> HIDE DEF lines
<1>6. pc' \in {[pc EXCEPT ![m] = "cutting"], [pc EXCEPT ![m] = "waking"]}
  BY <1>1 DEF Record
<1>7. ClaimsInHand'
  BY <1>2, <1>6 DEF ClaimsInHand, TypeOK
<1>8. \A n \in Monitor : \A d \in ToSet(unwritten[n]) : Accounted(d)'
  BY <1>4 DEF Account
<1>9. CASE Len(lines) > TrimAt
  <2>1. ledger' = <<>> /\ unwritten' = [unwritten EXCEPT ![m] = NewestOf(lines)]
    BY <1>1, <1>9 DEF Record, lines
  <2>2. ToSet(ledger') = {}
    BY <2>1 DEF ToSet
  <2>3. ToSet(NewestOf(lines)) \subseteq ToSet(lines)
    BY <1>3, <1>9, NewestWasThere
  <2>4. ASSUME NEW n \in Monitor, NEW d \in ToSet(unwritten'[n])
        PROVE  Accounted(d)'
    <3>1. CASE n = m
      <4>1. unwritten'[n] = NewestOf(lines)
        BY <2>1, <3>1 DEF TypeOK
      <4>2. QED
        BY <1>5, <2>3, <2>4, <4>1
    <3>2. CASE n # m
      BY <1>8, <2>1, <2>4, <3>2 DEF TypeOK
    <3>3. QED
      BY <3>1, <3>2
  <2>5. QED
    BY <1>7, <2>2, <2>4 DEF Account
<1>10. CASE ~(Len(lines) > TrimAt)
  <2>1. ledger' = lines /\ unwritten' = unwritten
    BY <1>1, <1>10 DEF Record, lines
  <2>2. QED
    BY <1>5, <1>7, <1>8, <2>1 DEF Account
<1>11. QED
  BY <1>9, <1>10

(* The end of a monitor: it has announced its claims, or forgoes them.     *)
LEMMA AccountEnd ==
  ASSUME TypeOK, ClaimsInHand, Account, NEW m \in Monitor, Disarm(m),
         ledger' = ledger,
         woken' \union forgone' = woken \union forgone \union claimed[m]
  PROVE  ClaimsInHand' /\ Account'
<1>1. ClaimsInHand'
  BY DEF ClaimsInHand, Disarm, TypeOK
<1>2. ASSUME NEW d, Accounted(d)
      PROVE  Accounted(d)'
  <2>1. CASE d \in woken \union forgone \union claimed[m]
    BY <2>1 DEF Accounted
  <2>2. CASE \E n \in Monitor \ {m} : d \in claimed[n]
    <3>1. \A n \in Monitor \ {m} : claimed'[n] = claimed[n]
      BY DEF Disarm, TypeOK
    <3>2. QED
      BY <2>2, <3>1 DEF Accounted
  <2>3. QED
    BY <1>2, <2>1, <2>2 DEF Accounted
<1>3. ASSUME NEW n \in Monitor
      PROVE  ToSet(unwritten'[n]) \subseteq ToSet(unwritten[n])
  <2>1. unwritten'[n] = unwritten[n] \/ unwritten'[n] = <<>>
    BY DEF Disarm, TypeOK
  <2>2. QED
    BY <2>1 DEF ToSet
<1>4. QED
  BY <1>1, <1>2, <1>3 DEF Account

LEMMA AccountStep ==
  TypeOK /\ ClaimsInHand /\ Account /\ [Next]_vars => ClaimsInHand' /\ Account'
<1> SUFFICES ASSUME TypeOK, ClaimsInHand, Account, [Next]_vars
             PROVE  ClaimsInHand' /\ Account'
  OBVIOUS
<1>1. ASSUME NEW m \in Monitor, Claim(m)
      PROVE  ClaimsInHand' /\ Account'
  BY <1>1, AccountClaim
<1>2. ASSUME NEW m \in Monitor, Expire(m) \/ Wake(m) \/ Kill(m)
      PROVE  ClaimsInHand' /\ Account'
  <2>1. /\ Disarm(m) /\ ledger' = ledger
        /\ woken' \union forgone' = woken \union forgone \union claimed[m]
    <3>1. CASE Expire(m)
      BY <3>1 DEF Expire, ClaimsInHand, ghosts
    <3>2. CASE Wake(m) \/ Kill(m)
      BY <3>2 DEF Wake, Kill
    <3>3. QED
      BY <1>2, <3>1, <3>2
  <2>2. QED
    BY <2>1, AccountEnd
<1>3. ASSUME NEW m \in Monitor, Arm(m) \/ Poll(m) \/ TooLate(m)
      PROVE  ClaimsInHand' /\ Account'
  <2>1. UNCHANGED <<ledger, claimed, unwritten, woken, forgone>>
    BY <1>3 DEF Arm, Poll, TooLate, ghosts
  <2>2. \A n \in Monitor : pc'[n] \in {"off", "armed", "claiming"}
          => pc[n] \in {"off", "armed", "claiming"}
    BY <1>3 DEF Arm, Poll, TooLate, TypeOK
  <2>3. QED
    BY <2>1, <2>2 DEF ClaimsInHand, Account, Accounted
<1>4. ASSUME NEW m \in Monitor, WriteBack(m) \/ Close(m)
      PROVE  ClaimsInHand' /\ Account'
  <2>1. /\ ledger' = ledger \o unwritten[m]
        /\ unwritten' = [unwritten EXCEPT ![m] = <<>>]
        /\ pc' = [pc EXCEPT ![m] = "waking"]
        /\ UNCHANGED <<claimed, woken, forgone>>
    BY <1>4 DEF WriteBack, Close, ghosts
  <2>2. ClaimsInHand'
    BY <2>1 DEF ClaimsInHand, TypeOK
  <2>3. ToSet(ledger') \subseteq ToSet(ledger) \union ToSet(unwritten[m])
    BY <2>1, ToSetConcat DEF TypeOK
  <2>4. ASSUME NEW n \in Monitor
        PROVE  ToSet(unwritten'[n]) \subseteq ToSet(unwritten[n])
    <3>1. unwritten'[n] = unwritten[n] \/ unwritten'[n] = <<>>
      BY <2>1 DEF TypeOK
    <3>2. QED
      BY <3>1 DEF ToSet
  <2>5. \A d : Accounted(d) => Accounted(d)'
    BY <2>1 DEF Accounted
  <2>6. QED
    BY <2>2, <2>3, <2>4, <2>5 DEF Account
<1>5. ASSUME NEW m \in Monitor, UnlockEarly(m)
      PROVE  ClaimsInHand' /\ Account'
  BY <1>5 DEF UnlockEarly, ClaimsInHand, Account, Accounted, TypeOK
<1>6. CASE UNCHANGED <<ledger, pc, claimed, unwritten, woken, forgone>>
  BY <1>6 DEF ClaimsInHand, Account, Accounted
<1>7. QED
  BY <1>1, <1>2, <1>3, <1>4, <1>5, <1>6
     DEF Next, PollInVain, Step, Cut, Arrive, Read, vars, mail, monitors, ghosts

(* Whatever the ledger says was claimed has woken the session, is about    *)
(* to, or was claimed by a monitor that was killed.                        *)
THEOREM AccountCorrect == Spec => []ClaimedIsAccountedFor
<1>1. Init => ClaimsInHand /\ Account
  BY DEF Init, ClaimsInHand, Account, ToSet
<1>2. Account => ClaimedIsAccountedFor
  BY DEF Account, Accounted, ClaimedIsAccountedFor
<1>3. QED
  BY <1>1, <1>2, TypeCorrect, AccountStep, PTL DEF Spec

-----------------------------------------------------------------------------
(* The self-tests beside the monitors: what they do to the mailbox a peer  *)
(* and the session may do, and what they do to the ledger is nothing.      *)

DoctorNext == Meanwhile \/ Examine

LEMMA DoctorStep ==
  ASSUME TypeOK, [DoctorNext]_doctorVars
  PROVE  [Next]_vars
<1>1. CASE Meanwhile
  BY <1>1 DEF Meanwhile, ArmBeside, Next
<1>2. CASE ProbeArrives
  BY <1>2 DEF ProbeArrives, Next, Arrive
<1>3. CASE ReadProbe
  <2>1. CASE doc.probe \in unread /\ unread' = unread \ {doc.probe}
    <3>1. doc.probe \in Mail
      <4>1. unread \subseteq Mail
        BY RewakeAssumption DEF RewakeAssumption, TypeOK, Mail
      <4>2. QED
        BY <2>1, <4>1
    <3>2. Read(doc.probe)
      BY <1>3, <2>1 DEF ReadProbe, Read
    <3>3. QED
      BY <3>1, <3>2 DEF Next
  <2>2. CASE ~(doc.probe \in unread /\ unread' = unread \ {doc.probe})
    <3>1. unread' = unread
      BY <1>3, <2>2 DEF ReadProbe
    <3>2. QED
      BY <1>3, <3>1 DEF ReadProbe, vars, mail
  <2>3. QED
    BY <2>1, <2>2
<1>4. CASE Surface \/ Again
  <2>1. ledger' = ledger
    BY <1>4 DEF Surface, Again, Pass, ClaimedIn
  <2>2. QED
    BY <1>4, <2>1 DEF Surface, Again, vars
<1>5. CASE \/ StartWake \/ List \/ Compare \/ StartLoop \/ Scan \/ Look \/ Ack
           \/ SendProbe \/ Leave \/ UNCHANGED doctorVars
  BY <1>5 DEF StartWake, List, Compare, StartLoop, Scan, Look, Ack, SendProbe, Leave, doctorVars
<1>6. QED
  BY <1>1, <1>2, <1>3, <1>4, <1>5 DEF DoctorNext, Examine

LEMMA DoctorTypeStep == TypeOK /\ [DoctorNext]_doctorVars => TypeOK'
BY DoctorStep, TypeStep

(* A machine with a doctor at work is a machine where monitors and mail do *)
(* what they do without one.                                               *)
THEOREM DoctorIsAPeer == DoctorSpec => Spec
<1>1. DoctorInit => Init /\ TypeOK
  BY TypeInit DEF DoctorInit
<1>2. TypeOK /\ [DoctorNext]_doctorVars => [Next]_vars
  BY DoctorStep
<1>3. DoctorSpec => DoctorInit /\ [][DoctorNext]_doctorVars
  BY DEF DoctorSpec, DoctorNext
<1>4. QED
  BY <1>1, <1>2, <1>3, DoctorTypeStep, PTL DEF Spec

(* Claims stay exclusive beside a doctor, whose re-waker claims in a       *)
(* ledger of its own.                                                      *)
THEOREM DoctorWokenOnce == DoctorSpec => WokenOncePerLedger
BY DoctorIsAPeer, WokenOnceCorrect

(* A doctor takes nothing from the account of the ledger.                  *)
THEOREM DoctorAccount == DoctorSpec => []ClaimedIsAccountedFor
BY DoctorIsAPeer, AccountCorrect

-----------------------------------------------------------------------------
(* What a doctor knows, step by step.                                      *)

Lines == {"surfaced", "silent", "untouched", "late", "arrived"}
DoctorRecord ==
  [kind : {"wake", "loop"},
   pc : {"scan", "send", "list", "look", "surface", "read", "again", "compare", "ack", "verdict"},
   cursor : Nat, probe : Nat, listed : BOOLEAN, before : Seq(Mail),
   scratch : SUBSET Mail, said : SUBSET Lines, calm : BOOLEAN, noise : Nat]

(* Besides the probe, no more is unread than leaves it a place on the page. *)
FitsThePage ==
  IF doc.probe = NoMail THEN Cardinality(unread) < PageLimit
  ELSE doc.probe \in unread /\ Cardinality(unread \ {doc.probe}) < PageLimit

(* doctor --wake: unless something has misled it, its first pass shows all *)
(* that is unread, which the second then finds in its ledger.              *)
WakeTest ==
  /\ doc.pc \in {"send", "list", "surface", "read", "again", "compare", "verdict"}
  /\ doc.pc # "verdict" => doc.before = ledger
  /\ "late" \notin doc.said
  /\ doc.pc = "send" => doc.probe = NoMail
  /\ doc.calm =>
       /\ doc.pc \in {"send", "list", "surface"} =>
            doc.said = {} /\ doc.scratch = {} /\ FitsThePage
       /\ doc.pc = "surface" => doc.listed
       /\ doc.pc \in {"surface", "read", "again"} => doc.probe # NoMail
       /\ doc.pc \in {"read", "again"} => doc.said = {"surfaced"} /\ unread \subseteq doc.scratch
       /\ doc.pc = "compare" => doc.said = {"surfaced", "silent"}
       /\ doc.pc = "verdict" => doc.said = {"surfaced", "silent", "untouched"}

(* doctor: between the end of the inbox, as it found it, and the probe is  *)
(* only what has come since.                                               *)
LoopTest ==
  /\ doc.pc \in {"scan", "send", "look", "read", "ack", "verdict"}
  /\ doc.pc # "verdict" => doc.said = {}
  /\ doc.pc \in {"scan", "send"} => doc.probe = NoMail
  /\ doc.cursor <= arrived
  /\ (doc.pc \in {"send", "look"} /\ doc.probe = NoMail) => arrived <= doc.cursor + doc.noise
  /\ (doc.pc = "look" /\ doc.probe # NoMail) =>
       doc.cursor < doc.probe /\ doc.probe <= doc.cursor + doc.noise + 1
  /\ "late" \in doc.said => doc.probe = NoMail \/ doc.noise >= ScanLimit

DoctorAtWork ==
  /\ Quiet
  /\ doc \in DoctorRecord
  /\ doc.kind = "wake" => WakeTest
  /\ doc.kind = "loop" => LoopTest

DoctorInv == doc = NoDoctor \/ DoctorAtWork

LEMMA UnreadIsFinite ==
  ASSUME TypeOK
  PROVE  /\ unread \subseteq Mail
         /\ \A S \in SUBSET unread : IsFiniteSet(S) /\ Cardinality(S) \in Nat
<1>1. unread \subseteq Mail
  BY RewakeAssumption DEF RewakeAssumption, TypeOK, Mail
<1>2. IsFiniteSet(Mail)
  BY FS_Interval, RewakeAssumption DEF RewakeAssumption, Mail
<1>3. QED
  BY <1>1, <1>2, FS_Subset, FS_CardinalityType

(* When the probe and what fits on the page with it is all that is unread, *)
(* the page is all that is unread.                                         *)
LEMMA ShowsAll ==
  ASSUME TypeOK, NEW p \in unread, Cardinality(unread \ {p}) < PageLimit
  PROVE  Page = unread /\ Cardinality(Older(p)) < ListLimit
<1>1. IsFiniteSet(unread) /\ Cardinality(unread) \in Nat
  BY UnreadIsFinite
<1>2. ASSUME NEW d \in unread
      PROVE  Cardinality(Older(d)) < PageLimit
  <2>1. Older(d) \subseteq unread \ {d}
    <3>1. \A e \in unread : e \in Int
      BY DEF TypeOK
    <3>2. QED
      BY <3>1 DEF Older
  <2>2. /\ Cardinality(unread \ {d}) = Cardinality(unread) - 1
        /\ Cardinality(unread \ {p}) = Cardinality(unread) - 1
    BY <1>1, FS_RemoveElement
  <2>3. IsFiniteSet(unread \ {d})
    BY UnreadIsFinite
  <2>4. Cardinality(Older(d)) <= Cardinality(unread \ {d}) /\ Cardinality(Older(d)) \in Nat
    BY <2>1, <2>3, FS_Subset, FS_CardinalityType
  <2>5. QED
    BY <1>1, <2>2, <2>4, RewakeAssumption DEF RewakeAssumption
<1>3. Page = unread
  BY <1>2 DEF Page
<1>4. Cardinality(Older(p)) \in Nat
  <2>1. Older(p) \in SUBSET unread
    BY DEF Older
  <2>2. QED
    BY <2>1, UnreadIsFinite
<1>5. QED
  BY <1>2, <1>3, <1>4, RewakeAssumption, WakeDoctorAssumption
     DEF RewakeAssumption, WakeDoctorAssumption

(* What is unread still fits when the probe has come, ...                  *)
LEMMA FitsWithTheProbe ==
  ASSUME TypeOK, doc.probe = NoMail, FitsThePage,
         arrived' = arrived + 1, unread' = unread \union {arrived + 1},
         doc'.probe = arrived + 1
  PROVE  FitsThePage'
<1>1. arrived \in Nat /\ arrived + 1 \notin unread /\ arrived + 1 # NoMail
  BY RewakeAssumption DEF RewakeAssumption, TypeOK, NoMail
<1>2. unread' \ {arrived + 1} = unread
  BY <1>1
<1>3. QED
  BY <1>1, <1>2 DEF FitsThePage

(* ... and when the session has read another delivery.                     *)
LEMMA FitsWithLess ==
  ASSUME TypeOK, FitsThePage, NEW d \in Mail, d # doc.probe,
         unread' = unread \ {d}, doc'.probe = doc.probe
  PROVE  FitsThePage'
<1>1. IsFiniteSet(unread) /\ IsFiniteSet(unread \ {doc.probe})
  BY UnreadIsFinite
<1>2. /\ Cardinality(unread \ {d}) <= Cardinality(unread)
      /\ Cardinality(unread \ {d}) \in Nat /\ Cardinality(unread) \in Nat
  BY <1>1, UnreadIsFinite, FS_Subset
<1>3. /\ Cardinality((unread \ {d}) \ {doc.probe}) <= Cardinality(unread \ {doc.probe})
      /\ Cardinality((unread \ {d}) \ {doc.probe}) \in Nat
      /\ Cardinality(unread \ {doc.probe}) \in Nat
  <2>1. (unread \ {d}) \ {doc.probe} \subseteq unread \ {doc.probe}
    OBVIOUS
  <2>2. QED
    BY <1>1, <2>1, FS_Subset, FS_CardinalityType
<1>4. QED
  BY <1>2, <1>3, RewakeAssumption DEF RewakeAssumption, FitsThePage

(* The step of one that goes on.                                           *)
LEMMA GoesOn ==
  ASSUME pc' = pc, Quiet, doc' \in DoctorRecord,
         doc'.kind = "wake" => WakeTest', doc'.kind = "loop" => LoopTest'
  PROVE  DoctorInv'
BY DEF DoctorInv, DoctorAtWork, Quiet

LEMMA NewDoctor ==
  ASSUME NEW kind \in {"wake", "loop"}, NEW at \in {"scan", "send", "verdict"}
  PROVE  LET d == Doctor(kind, at) IN
         /\ d \in DoctorRecord /\ d.kind = kind /\ d.pc = at
         /\ d.cursor = NoMail /\ d.probe = NoMail /\ d.listed = FALSE
         /\ d.before = <<>> /\ d.scratch = {} /\ d.said = {} /\ d.calm = TRUE /\ d.noise = 0
<1>1. NoMail \in Nat /\ 0 \in Nat /\ <<>> \in Seq(Mail)
  BY DEF NoMail
<1>2. Doctor(kind, at) \in DoctorRecord
  BY <1>1, Zenon DEF Doctor, DoctorRecord
<1>3. QED
  BY <1>2 DEF Doctor

LEMMA StartsRight ==
  ASSUME TypeOK, StartWake \/ StartLoop
  PROVE  DoctorInv'
<1>1. pc' = pc /\ Quiet /\ ledger' = ledger /\ unread' = unread /\ arrived' = arrived
  BY DEF StartWake, StartLoop, vars, mail, monitors
<1>2. ledger \in Seq(Mail) /\ arrived \in Nat
  BY RewakeAssumption DEF RewakeAssumption, TypeOK
<1>3. CASE StartWake
  <2> DEFINE fits == Cardinality(unread) < PageLimit
             d == Doctor("wake", "send")
             n == [d EXCEPT !.before = ledger, !.calm = fits]
  <2>1. doc' = n /\ fits \in BOOLEAN
    BY <1>3 DEF StartWake
  <2>2. /\ d \in DoctorRecord /\ d.kind = "wake" /\ d.pc = "send" /\ d.probe = NoMail
        /\ d.said = {} /\ d.scratch = {}
    BY NewDoctor
  <2> HIDE DEF d, fits
  <2>3. /\ n \in DoctorRecord /\ n.kind = "wake" /\ n.pc = "send" /\ n.probe = NoMail
        /\ n.said = {} /\ n.scratch = {} /\ n.before = ledger /\ n.calm = fits
    BY <1>2, <2>1, <2>2 DEF DoctorRecord
  <2> HIDE DEF n
  <2>4. WakeTest'
    BY <1>1, <2>1, <2>3 DEF WakeTest, FitsThePage, fits
  <2>5. QED
    BY <1>1, <2>1, <2>3, <2>4, GoesOn
<1>4. CASE StartLoop
  <2>1. /\ doc' \in DoctorRecord /\ doc'.kind = "loop" /\ doc'.pc = "scan" /\ doc'.said = {}
        /\ doc'.probe = NoMail /\ doc'.cursor = NoMail
    BY <1>4, NewDoctor DEF StartLoop
  <2>2. LoopTest'
    BY <1>1, <1>2, <2>1 DEF LoopTest, NoMail
  <2>3. QED
    BY <1>1, <2>1, <2>2, GoesOn
<1>5. QED
  BY <1>3, <1>4

LEMMA SendRight ==
  ASSUME DoctorAtWork, SendProbe
  PROVE  DoctorInv'
<1> DEFINE n == [doc EXCEPT !.pc = IF doc.kind = "wake" THEN "list" ELSE "look"]
<1>1. CASE CallFails
  BY <1>1 DEF CallFails, DoctorInv
<1>2. CASE doc' = n
  <2>1. /\ n \in DoctorRecord /\ n.kind = doc.kind /\ n.probe = doc.probe /\ n.said = doc.said
        /\ n.before = doc.before /\ n.calm = doc.calm /\ n.scratch = doc.scratch
        /\ n.cursor = doc.cursor /\ n.noise = doc.noise
        /\ n.pc = IF doc.kind = "wake" THEN "list" ELSE "look"
    BY DEF DoctorAtWork, DoctorRecord
  <2> HIDE DEF n
  <2>2. doc.pc = "send" /\ UNCHANGED <<pc, ledger, unread, arrived>>
    BY DEF SendProbe, At, vars, mail, monitors
  <2>3. doc.kind = "wake" => WakeTest'
    BY <1>2, <2>1, <2>2 DEF DoctorAtWork, WakeTest, FitsThePage
  <2>4. doc.kind = "loop" => LoopTest'
    BY <1>2, <2>1, <2>2 DEF DoctorAtWork, LoopTest
  <2>5. QED
    BY <1>2, <2>1, <2>2, <2>3, <2>4, GoesOn DEF DoctorAtWork
<1>3. QED
  BY <1>1, <1>2 DEF SendProbe

LEMMA ListRight ==
  ASSUME TypeOK, DoctorAtWork, List
  PROVE  DoctorInv'
<1> DEFINE found == doc.probe \in unread /\ Cardinality(Older(doc.probe)) < ListLimit
           n == [doc EXCEPT !.pc = "surface", !.listed = found,
                            !.calm = @ /\ doc.probe # NoMail]
<1>1. CASE CallFails
  BY <1>1 DEF CallFails, DoctorInv
<1>2. CASE doc' = n
  <2>1. doc.pc = "list" /\ UNCHANGED <<pc, ledger, unread, arrived>>
    BY DEF List, At, vars, mail, monitors
  <2>2. doc.kind = "wake" /\ WakeTest /\ doc \in DoctorRecord
    BY <2>1 DEF DoctorAtWork, LoopTest, DoctorRecord
  <2>3. /\ n \in DoctorRecord /\ n.kind = "wake" /\ n.probe = doc.probe /\ n.said = doc.said
        /\ n.before = doc.before /\ n.calm = (doc.calm /\ doc.probe # NoMail)
        /\ n.scratch = doc.scratch /\ n.pc = "surface" /\ n.listed = found
    BY <2>2 DEF DoctorRecord
  <2>4. (doc.calm /\ doc.probe # NoMail) => found
    <3>1. (doc.calm /\ doc.probe # NoMail) =>
            doc.probe \in unread /\ Cardinality(unread \ {doc.probe}) < PageLimit
      BY <2>1, <2>2 DEF WakeTest, FitsThePage
    <3>2. QED
      BY <3>1, ShowsAll
  <2> HIDE DEF n, found
  <2>5. WakeTest'
    BY <1>2, <2>1, <2>2, <2>3, <2>4 DEF WakeTest, FitsThePage
  <2>6. QED
    BY <1>2, <2>1, <2>3, <2>5, GoesOn DEF DoctorAtWork
<1>3. QED
  BY <1>1, <1>2 DEF List

(* A pass of the re-waker claims in the ledger it was given.               *)
LEMMA PassRecord ==
  ASSUME doc \in DoctorRecord, NEW shown \in SUBSET Mail, NEW polled \in BOOLEAN,
         NEW line \in Lines, NEW good \in BOOLEAN,
         NEW at \in {"read", "compare"}, Pass(shown, polled, line, good, at)
  PROVE  /\ ledger' = ledger /\ doc' \in DoctorRecord
         /\ doc'.kind = doc.kind /\ doc'.pc = at /\ doc'.probe = doc.probe
         /\ doc'.before = doc.before /\ doc'.calm = (doc.calm /\ polled)
         /\ doc'.scratch = doc.scratch \union shown
         /\ doc'.said = IF good THEN doc.said \union {line} ELSE doc.said
<1> DEFINE said == IF good THEN doc.said \union {line} ELSE doc.said
           r == [doc EXCEPT !.said = said]
           n == [r EXCEPT !.pc = at, !.scratch = doc.scratch \union shown,
                          !.calm = @ /\ polled]
<1>1. ledger' = ledger /\ doc' = n
  BY DEF Pass, Says, ClaimedIn
<1>2. /\ r \in DoctorRecord /\ r.kind = doc.kind /\ r.probe = doc.probe /\ r.said = said
      /\ r.before = doc.before /\ r.calm = doc.calm
  BY DEF DoctorRecord
<1> HIDE DEF r, said
<1>3. /\ n \in DoctorRecord /\ n.kind = r.kind /\ n.pc = at /\ n.probe = r.probe
      /\ n.before = r.before /\ n.calm = (r.calm /\ polled) /\ n.said = r.said
      /\ n.scratch = doc.scratch \union shown
  BY <1>2 DEF DoctorRecord
<1>4. QED
  BY <1>1, <1>2, <1>3 DEF said

LEMMA SurfaceRight ==
  ASSUME TypeOK, DoctorAtWork, Surface
  PROVE  DoctorInv'
<1>1. doc.pc = "surface" /\ UNCHANGED <<pc, unread, arrived>>
  BY DEF Surface, At, mail, monitors
<1>2. doc.kind = "wake" /\ WakeTest /\ doc \in DoctorRecord /\ Quiet
  BY <1>1 DEF DoctorAtWork, LoopTest, DoctorRecord
<1>3. Shown \in SUBSET Mail
  BY UnreadIsFinite DEF Shown, Page
<1>4. CASE CallFails
  BY <1>4 DEF CallFails, DoctorInv
<1>5. CASE Pass({}, FALSE, "surfaced", FALSE, "read")
  <2>1. /\ ledger' = ledger /\ doc' \in DoctorRecord /\ doc'.kind = "wake"
        /\ doc'.pc = "read" /\ doc'.before = doc.before /\ ~doc'.calm /\ doc'.said = doc.said
    BY <1>2, <1>5, PassRecord DEF Lines
  <2>2. WakeTest'
    BY <1>1, <1>2, <2>1 DEF WakeTest
  <2>3. QED
    BY <1>1, <1>2, <2>1, <2>2, GoesOn
<1>6. CASE Pass(Shown, TRUE, "surfaced", doc.listed /\ doc.probe \in Shown, "read")
  <2> DEFINE good == doc.listed /\ doc.probe \in Shown
  <2>1. good \in BOOLEAN
    OBVIOUS
  <2>2. /\ ledger' = ledger /\ doc' \in DoctorRecord /\ doc'.kind = "wake"
        /\ doc'.pc = "read" /\ doc'.before = doc.before /\ doc'.probe = doc.probe
        /\ doc'.calm = doc.calm /\ doc'.scratch = doc.scratch \union Shown
        /\ doc'.said = IF good THEN doc.said \union {"surfaced"} ELSE doc.said
    <3> HIDE DEF good
    <3>1. Pass(Shown, TRUE, "surfaced", good, "read")
      BY <1>6 DEF good
    <3>2. doc.calm \in BOOLEAN
      BY <1>2 DEF DoctorRecord
    <3>3. QED
      BY <1>2, <1>3, <2>1, <3>1, <3>2, PassRecord DEF Lines
  <2>3. doc.calm => good /\ Shown = unread /\ doc.said = {} /\ doc.probe # NoMail
    <3> SUFFICES ASSUME doc.calm
                 PROVE  good /\ Shown = unread /\ doc.said = {} /\ doc.probe # NoMail
      OBVIOUS
    <3>1. /\ doc.listed /\ doc.said = {} /\ doc.scratch = {} /\ doc.probe # NoMail
          /\ doc.probe \in unread /\ Cardinality(unread \ {doc.probe}) < PageLimit
      BY <1>1, <1>2 DEF WakeTest, FitsThePage
    <3>2. Page = unread
      BY <3>1, ShowsAll
    <3>3. Shown = unread
      BY <3>1, <3>2 DEF Shown
    <3>4. QED
      BY <3>1, <3>3
  <2> HIDE DEF good
  <2>4. WakeTest'
    BY <1>1, <1>2, <2>2, <2>3 DEF WakeTest
  <2>5. QED
    BY <1>1, <1>2, <2>2, <2>4, GoesOn
<1>7. QED
  BY <1>4, <1>5, <1>6 DEF Surface

LEMMA AgainRight ==
  ASSUME TypeOK, DoctorAtWork, Again
  PROVE  DoctorInv'
<1>1. doc.pc = "again" /\ UNCHANGED <<pc, unread, arrived>>
  BY DEF Again, At, mail, monitors
<1>2. doc.kind = "wake" /\ WakeTest /\ doc \in DoctorRecord /\ Quiet
  BY <1>1 DEF DoctorAtWork, LoopTest, DoctorRecord
<1>3. Shown \in SUBSET Mail
  BY UnreadIsFinite DEF Shown, Page
<1>4. CASE CallFails
  BY <1>4 DEF CallFails, DoctorInv
<1>5. CASE Pass({}, FALSE, "silent", TRUE, "compare")
  <2>1. /\ ledger' = ledger /\ doc' \in DoctorRecord /\ doc'.kind = "wake"
        /\ doc'.pc = "compare" /\ doc'.before = doc.before /\ ~doc'.calm
        /\ doc'.said = doc.said \union {"silent"}
    BY <1>2, <1>5, PassRecord DEF Lines
  <2>2. WakeTest'
    BY <1>1, <1>2, <2>1 DEF WakeTest
  <2>3. QED
    BY <1>1, <1>2, <2>1, <2>2, GoesOn
<1>6. CASE Pass(Shown, TRUE, "silent", Shown = {}, "compare")
  <2> DEFINE good == Shown = {}
  <2>1. /\ ledger' = ledger /\ doc' \in DoctorRecord /\ doc'.kind = "wake"
        /\ doc'.pc = "compare" /\ doc'.before = doc.before /\ doc'.calm = doc.calm
        /\ doc'.said = IF good THEN doc.said \union {"silent"} ELSE doc.said
    <3>1. good \in BOOLEAN
      OBVIOUS
    <3> HIDE DEF good
    <3>2. Pass(Shown, TRUE, "silent", good, "compare")
      BY <1>6 DEF good
    <3>3. doc.calm \in BOOLEAN
      BY <1>2 DEF DoctorRecord
    <3>4. QED
      BY <1>2, <1>3, <3>1, <3>2, <3>3, PassRecord DEF Lines
  <2>2. doc.calm => good /\ doc.said = {"surfaced"}
    <3>1. doc.calm => unread \subseteq doc.scratch /\ doc.said = {"surfaced"}
      BY <1>1, <1>2 DEF WakeTest
    <3>2. Page \subseteq unread
      BY DEF Page
    <3>3. QED
      BY <3>1, <3>2 DEF Shown
  <2> HIDE DEF good
  <2>3. WakeTest'
    BY <1>1, <1>2, <2>1, <2>2 DEF WakeTest
  <2>4. QED
    BY <1>1, <1>2, <2>1, <2>3, GoesOn
<1>7. QED
  BY <1>4, <1>5, <1>6 DEF Again

LEMMA CompareRight ==
  ASSUME DoctorAtWork, Compare
  PROVE  DoctorInv'
<1>1. doc.pc = "compare" /\ UNCHANGED <<pc, unread, arrived, ledger>>
  BY DEF Compare, At, vars, mail, monitors
<1>2. doc.kind = "wake" /\ WakeTest /\ doc \in DoctorRecord /\ Quiet
  BY <1>1 DEF DoctorAtWork, LoopTest, DoctorRecord
<1> DEFINE d == Doctor("wake", "verdict")
           lines == Says("untouched", ledger = doc.before).said
           n == [d EXCEPT !.said = lines, !.calm = doc.calm]
<1>3. lines = doc.said \union {"untouched"}
  BY <1>1, <1>2 DEF WakeTest, Says, DoctorRecord
<1>4. /\ lines \in SUBSET Lines /\ "late" \notin lines /\ doc.calm \in BOOLEAN
      /\ doc.calm => lines = {"surfaced", "silent", "untouched"}
  BY <1>1, <1>2, <1>3 DEF WakeTest, Lines, DoctorRecord
<1>5. d \in DoctorRecord /\ d.kind = "wake" /\ d.pc = "verdict"
  BY NewDoctor
<1>6. doc' = n
  BY DEF Compare
<1> HIDE DEF d, lines
<1>7. /\ n \in DoctorRecord /\ n.kind = "wake" /\ n.pc = "verdict"
      /\ n.said = lines /\ n.calm = doc.calm
  BY <1>4, <1>5 DEF DoctorRecord
<1> HIDE DEF n
<1>8. WakeTest'
  BY <1>4, <1>6, <1>7 DEF WakeTest
<1>9. QED
  BY <1>1, <1>2, <1>6, <1>7, <1>8, GoesOn

LEMMA ScanRight ==
  ASSUME TypeOK, DoctorAtWork, Scan
  PROVE  DoctorInv'
<1>1. doc.pc = "scan" /\ UNCHANGED <<pc, unread, arrived, ledger>>
  BY DEF Scan, At, vars, mail, monitors
<1>2. doc.kind = "loop" /\ LoopTest /\ doc \in DoctorRecord /\ Quiet
  BY <1>1 DEF DoctorAtWork, WakeTest, DoctorRecord
<1>3. CASE CallFails
  BY <1>3 DEF CallFails, DoctorInv
<1>4. CASE doc' = [doc EXCEPT !.pc = "send"] /\ doc.cursor = arrived
  <2> DEFINE n == [doc EXCEPT !.pc = "send"]
  <2>1. /\ n \in DoctorRecord /\ n.kind = "loop" /\ n.pc = "send" /\ n.said = doc.said
        /\ n.probe = doc.probe /\ n.cursor = doc.cursor /\ n.noise = doc.noise
    BY <1>2 DEF DoctorRecord
  <2>2. doc' = n /\ doc.noise \in Nat /\ arrived \in Nat
    BY <1>2, <1>4, RewakeAssumption DEF RewakeAssumption, TypeOK, DoctorRecord
  <2> HIDE DEF n
  <2>3. LoopTest'
    BY <1>1, <1>2, <1>4, <2>1, <2>2 DEF LoopTest
  <2>4. QED
    BY <1>1, <1>2, <2>1, <2>2, <2>3, GoesOn
<1>5. CASE /\ doc' = [doc EXCEPT !.cursor = IF doc.cursor + ScanLimit < arrived
                                            THEN doc.cursor + ScanLimit ELSE arrived]
  <2> DEFINE to == IF doc.cursor + ScanLimit < arrived THEN doc.cursor + ScanLimit ELSE arrived
             n == [doc EXCEPT !.cursor = to]
  <2>1. to \in Nat /\ to <= arrived
    BY <1>2, RewakeAssumption, WakeDoctorAssumption
       DEF RewakeAssumption, WakeDoctorAssumption, TypeOK, DoctorRecord
  <2> HIDE DEF to
  <2>2. /\ n \in DoctorRecord /\ n.kind = "loop" /\ n.pc = "scan" /\ n.said = doc.said
        /\ n.probe = doc.probe /\ n.cursor = to
    BY <1>1, <1>2, <2>1 DEF DoctorRecord
  <2>3. doc' = n
    BY <1>5 DEF to
  <2> HIDE DEF n
  <2>4. LoopTest'
    BY <1>1, <1>2, <2>1, <2>2, <2>3 DEF LoopTest
  <2>5. QED
    BY <1>1, <1>2, <2>2, <2>3, <2>4, GoesOn
<1>6. QED
  BY <1>3, <1>4, <1>5 DEF Scan, AfterPage

(* A probe that is behind the first page has more than a page before it.   *)
LEMMA LookRight ==
  ASSUME TypeOK, DoctorAtWork, Look
  PROVE  DoctorInv'
<1>1. doc.pc = "look" /\ UNCHANGED <<pc, unread, arrived, ledger>>
  BY DEF Look, At, vars, mail, monitors
<1>2. doc.kind = "loop" /\ LoopTest /\ doc \in DoctorRecord /\ Quiet
  BY <1>1 DEF DoctorAtWork, WakeTest, DoctorRecord
<1>3. CASE CallFails
  BY <1>3 DEF CallFails, DoctorInv
<1>4. CASE doc' = [doc EXCEPT !.pc = "read", !.listed = TRUE]
  <2> DEFINE n == [doc EXCEPT !.pc = "read", !.listed = TRUE]
  <2>1. /\ n \in DoctorRecord /\ n.kind = "loop" /\ n.pc = "read" /\ n.said = doc.said
        /\ n.probe = doc.probe /\ n.cursor = doc.cursor /\ n.noise = doc.noise
    BY <1>2 DEF DoctorRecord
  <2>2. doc' = n
    BY <1>4
  <2> HIDE DEF n
  <2>3. LoopTest'
    BY <1>1, <1>2, <2>1, <2>2 DEF LoopTest
  <2>4. QED
    BY <1>1, <1>2, <2>1, <2>2, <2>3, GoesOn
<1>5. CASE ~InSight /\ doc' = [Says("late", TRUE) EXCEPT !.pc = "verdict"]
  <2> DEFINE r == [doc EXCEPT !.said = doc.said \union {"late"}]
             n == [r EXCEPT !.pc = "verdict"]
  <2>1. /\ r \in DoctorRecord /\ r.kind = "loop"
        /\ r.probe = doc.probe /\ r.cursor = doc.cursor /\ r.noise = doc.noise
    BY <1>2 DEF DoctorRecord, Lines
  <2>2. doc' = n
    BY <1>5 DEF Says
  <2> HIDE DEF r
  <2>3. /\ n \in DoctorRecord /\ n.kind = "loop" /\ n.pc = "verdict"
        /\ n.probe = doc.probe /\ n.cursor = doc.cursor /\ n.noise = doc.noise
    BY <2>1 DEF DoctorRecord
  <2> HIDE DEF n
  <2>4. doc.probe = NoMail \/ doc.noise >= ScanLimit
    <3> SUFFICES ASSUME doc.probe # NoMail
                 PROVE  doc.noise >= ScanLimit
      OBVIOUS
    <3>1. doc.probe \in Nat /\ doc.cursor \in Nat /\ doc.noise \in Nat /\ ScanLimit \in Nat
      BY <1>2, WakeDoctorAssumption DEF DoctorRecord, WakeDoctorAssumption
    <3>2. doc.cursor < doc.probe /\ doc.probe <= doc.cursor + doc.noise + 1
      BY <1>1, <1>2 DEF LoopTest
    <3>3. doc.probe > doc.cursor + ScanLimit
      BY <1>5, <3>1, <3>2 DEF InSight
    <3>4. QED
      BY <3>1, <3>2, <3>3
  <2>5. LoopTest'
    BY <1>1, <1>2, <2>2, <2>3, <2>4 DEF LoopTest
  <2>6. QED
    BY <1>1, <1>2, <2>2, <2>3, <2>5, GoesOn
<1>6. QED
  BY <1>3, <1>4, <1>5 DEF Look

LEMMA AckRight ==
  ASSUME TypeOK, DoctorAtWork, Ack
  PROVE  DoctorInv'
<1>1. doc.pc = "ack" /\ UNCHANGED <<pc, unread, arrived, ledger>>
  BY DEF Ack, At, vars, mail, monitors
<1>2. Quiet /\ arrived \in Nat
  BY RewakeAssumption DEF DoctorAtWork, RewakeAssumption, TypeOK
<1>3. CASE CallFails
  BY <1>3 DEF CallFails, DoctorInv
<1>4. CASE doc' = [Doctor("loop", "verdict") EXCEPT !.said = {"arrived"}]
  <2> DEFINE d == Doctor("loop", "verdict")
             n == [d EXCEPT !.said = {"arrived"}]
  <2>1. d \in DoctorRecord /\ d.kind = "loop" /\ d.pc = "verdict" /\ d.cursor = NoMail
    BY NewDoctor
  <2>2. doc' = n
    BY <1>4
  <2> HIDE DEF d
  <2>3. /\ n \in DoctorRecord /\ n.kind = "loop" /\ n.pc = "verdict"
        /\ n.said = {"arrived"} /\ n.cursor = NoMail
    BY <2>1 DEF DoctorRecord, Lines
  <2> HIDE DEF n
  <2>4. LoopTest'
    BY <1>1, <1>2, <2>2, <2>3 DEF LoopTest, NoMail
  <2>5. QED
    BY <1>1, <1>2, <2>2, <2>3, <2>4, GoesOn
<1>5. QED
  BY <1>3, <1>4 DEF Ack

LEMMA ProbeArrivesRight ==
  ASSUME TypeOK, DoctorAtWork, ProbeArrives
  PROVE  DoctorInv'
<1> DEFINE n == [doc EXCEPT !.probe = arrived + 1]
<1>1. /\ doc.pc \in {"list", "look", "surface", "read", "again", "compare"}
      /\ doc.probe = NoMail /\ arrived' = arrived + 1 /\ unread' = unread \union {arrived + 1}
      /\ pc' = pc /\ ledger' = ledger /\ doc' = n
  BY DEF ProbeArrives, monitors
<1>2. doc \in DoctorRecord /\ Quiet /\ arrived \in Nat
  BY RewakeAssumption DEF RewakeAssumption, TypeOK, DoctorAtWork
<1>3. /\ n \in DoctorRecord /\ n.kind = doc.kind /\ n.pc = doc.pc /\ n.said = doc.said
      /\ n.cursor = doc.cursor /\ n.noise = doc.noise /\ n.before = doc.before
      /\ n.calm = doc.calm /\ n.scratch = doc.scratch /\ n.listed = doc.listed
      /\ n.probe = arrived + 1
  BY <1>2 DEF DoctorRecord
<1> HIDE DEF n
<1>4. ASSUME doc.kind = "wake" PROVE WakeTest'
  <2>1. FitsThePage => FitsThePage'
    BY <1>1, <1>3, FitsWithTheProbe
  <2>2. WakeTest
    BY <1>4 DEF DoctorAtWork
  <2>3. doc.pc \in {"surface", "read", "again"} => ~doc.calm
    BY <1>1, <2>2 DEF WakeTest
  <2>4. QED
    BY <1>1, <1>3, <2>1, <2>2, <2>3 DEF WakeTest
<1>5. ASSUME doc.kind = "loop" PROVE LoopTest'
  <2>1. LoopTest /\ doc.cursor \in Nat /\ doc.noise \in Nat
    BY <1>2, <1>5 DEF DoctorAtWork, DoctorRecord
  <2>2. QED
    BY <1>1, <1>2, <1>3, <2>1 DEF LoopTest, NoMail
<1>6. QED
  BY <1>1, <1>2, <1>3, <1>4, <1>5, GoesOn

LEMMA ReadProbeRight ==
  ASSUME TypeOK, DoctorAtWork, ReadProbe
  PROVE  DoctorInv'
<1> DEFINE at == IF doc.kind = "wake" THEN "again" ELSE "ack"
           n == [doc EXCEPT !.pc = at]
<1>1. doc.pc = "read" /\ pc' = pc /\ ledger' = ledger /\ arrived' = arrived
  BY DEF ReadProbe, At, monitors
<1>2. doc \in DoctorRecord /\ Quiet
  BY DEF DoctorAtWork
<1>3. CASE CallFails
  BY <1>3 DEF CallFails, DoctorInv
<1>4. CASE doc' = n /\ unread' \subseteq unread
  <2>1. /\ n \in DoctorRecord /\ n.kind = doc.kind /\ n.pc = at /\ n.said = doc.said
        /\ n.cursor = doc.cursor /\ n.noise = doc.noise /\ n.before = doc.before
        /\ n.calm = doc.calm /\ n.scratch = doc.scratch /\ n.probe = doc.probe
    BY <1>2 DEF DoctorRecord
  <2> HIDE DEF n
  <2>2. doc.kind = "wake" => WakeTest'
    BY <1>1, <1>4, <2>1 DEF DoctorAtWork, WakeTest
  <2>3. doc.kind = "loop" => LoopTest'
    BY <1>1, <1>4, <2>1 DEF DoctorAtWork, LoopTest
  <2>4. QED
    BY <1>1, <1>2, <1>4, <2>1, <2>2, <2>3, GoesOn
<1>5. QED
  BY <1>3, <1>4 DEF ReadProbe

LEMMA NoiseRight ==
  ASSUME TypeOK, DoctorAtWork, Arrive, doc' = Noisier
  PROVE  DoctorInv'
<1>1. /\ arrived' = arrived + 1 /\ unread' = unread \union {arrived + 1}
      /\ pc' = pc /\ ledger' = ledger
  BY DEF Arrive, monitors
<1>2. /\ doc \in DoctorRecord /\ Quiet /\ arrived \in Nat
      /\ doc.noise \in Nat /\ doc.cursor \in Nat /\ doc.calm \in BOOLEAN
  BY RewakeAssumption DEF RewakeAssumption, TypeOK, DoctorAtWork, DoctorRecord
<1>3. CASE doc.kind = "wake"
  <2> DEFINE n == [doc EXCEPT !.calm = @ /\ ~TRUE]
  <2>1. doc' = n
    BY <1>3 DEF Noisier, Misled
  <2>2. /\ n \in DoctorRecord /\ n.kind = "wake" /\ n.pc = doc.pc /\ n.said = doc.said
        /\ n.before = doc.before /\ ~n.calm /\ n.probe = doc.probe
    BY <1>2, <1>3 DEF DoctorRecord
  <2> HIDE DEF n
  <2>3. WakeTest'
    BY <1>1, <1>3, <2>1, <2>2 DEF DoctorAtWork, WakeTest
  <2>4. QED
    BY <1>1, <1>2, <2>1, <2>2, <2>3, GoesOn
<1>4. CASE doc.kind = "loop" /\ doc.pc # "scan"
  <2> DEFINE n == [doc EXCEPT !.noise = @ + 1]
  <2>1. doc' = n
    BY <1>4 DEF Noisier, At
  <2>2. /\ n \in DoctorRecord /\ n.kind = "loop" /\ n.pc = doc.pc /\ n.said = doc.said
        /\ n.probe = doc.probe /\ n.cursor = doc.cursor /\ n.noise = doc.noise + 1
    BY <1>2, <1>4 DEF DoctorRecord
  <2>3. LoopTest /\ doc.probe \in Nat /\ ScanLimit \in Nat
    BY <1>2, <1>4, WakeDoctorAssumption DEF DoctorAtWork, DoctorRecord, WakeDoctorAssumption
  <2> HIDE DEF n
  <2>4. LoopTest'
    BY <1>1, <1>2, <1>4, <2>1, <2>2, <2>3 DEF LoopTest
  <2>5. QED
    BY <1>1, <1>2, <2>1, <2>2, <2>4, GoesOn
<1>5. CASE doc.kind = "loop" /\ doc.pc = "scan"
  <2>1. doc' = doc /\ LoopTest
    BY <1>5 DEF Noisier, Misled, At, DoctorAtWork
  <2>2. LoopTest'
    BY <1>1, <1>2, <1>5, <2>1 DEF LoopTest
  <2>3. QED
    BY <1>1, <1>2, <1>5, <2>1, <2>2, GoesOn
<1>6. QED
  BY <1>2, <1>3, <1>4, <1>5 DEF DoctorRecord

LEMMA ReadRight ==
  ASSUME TypeOK, DoctorAtWork, NEW d \in Mail, Read(d), doc' = Misled(d = doc.probe)
  PROVE  DoctorInv'
<1>1. unread' = unread \ {d} /\ arrived' = arrived /\ pc' = pc /\ ledger' = ledger
  BY DEF Read, monitors
<1>2. doc \in DoctorRecord /\ Quiet /\ doc.calm \in BOOLEAN
  BY DEF DoctorAtWork, DoctorRecord
<1>3. CASE doc.kind = "wake"
  <2> DEFINE its == d = doc.probe
             n == [doc EXCEPT !.calm = @ /\ ~its]
  <2>1. doc' = n /\ WakeTest
    BY <1>3 DEF Misled, DoctorAtWork
  <2>2. /\ n \in DoctorRecord /\ n.kind = "wake" /\ n.pc = doc.pc /\ n.said = doc.said
        /\ n.before = doc.before /\ n.calm = (doc.calm /\ ~its) /\ n.probe = doc.probe
        /\ n.scratch = doc.scratch /\ n.listed = doc.listed
    BY <1>2, <1>3 DEF DoctorRecord
  <2> HIDE DEF n
  <2>3. (~its /\ FitsThePage) => FitsThePage'
    BY <1>1, <2>1, <2>2, FitsWithLess
  <2> HIDE DEF its
  <2>4. WakeTest'
    BY <1>1, <2>1, <2>2, <2>3 DEF WakeTest
  <2>5. QED
    BY <1>1, <1>2, <2>1, <2>2, <2>4, GoesOn
<1>4. CASE doc.kind = "loop"
  <2>1. doc' = doc /\ LoopTest
    BY <1>4 DEF Misled, DoctorAtWork
  <2>2. LoopTest'
    BY <1>1, <2>1 DEF LoopTest
  <2>3. QED
    BY <1>1, <1>2, <1>4, <2>1, <2>2, GoesOn
<1>5. QED
  BY <1>2, <1>3, <1>4 DEF DoctorRecord

LEMMA DoctorRight == TypeOK /\ DoctorInv /\ [DoctorNext]_doctorVars => DoctorInv'
<1> SUFFICES ASSUME TypeOK, DoctorInv, [DoctorNext]_doctorVars
             PROVE  DoctorInv'
  OBVIOUS
<1>1. CASE UNCHANGED doctorVars
  BY <1>1 DEF doctorVars, vars, mail, monitors, DoctorInv, DoctorAtWork, Quiet, WakeTest,
              LoopTest, FitsThePage
<1>2. CASE doc = NoDoctor /\ DoctorNext
  <2>1. doc.kind = "none" /\ doc.pc = "off"
    BY <1>2 DEF NoDoctor, Doctor
  <2>2. CASE Meanwhile
    <3>1. doc' = NoDoctor
      BY <1>2, <2>1, <2>2 DEF Meanwhile, Noisier, Misled, ArmBeside
    <3>2. QED
      BY <3>1 DEF DoctorInv
  <2>3. CASE Examine
    <3>1. StartWake \/ StartLoop
      BY <2>1, <2>3 DEF Examine, List, Surface, Again, Compare, Scan, Look, Ack, SendProbe,
                        ProbeArrives, ReadProbe, Leave, At
    <3>2. QED
      BY <3>1, StartsRight
  <2>4. QED
    BY <1>2, <2>2, <2>3 DEF DoctorNext
<1>3. CASE DoctorAtWork /\ Meanwhile
  <2>1. ASSUME NEW m \in Monitor, Step(m) \/ PollInVain(m) \/ Expire(m) \/ Kill(m)
        PROVE  FALSE
    <3>1. pc[m] = "off"
      BY <1>3 DEF DoctorAtWork, Quiet
    <3>2. QED
      BY <2>1, <3>1 DEF Step, Poll, Claim, TooLate, Cut, WriteBack, UnlockEarly, Close, Wake,
                        PollInVain, Expire, Kill
  <2>2. ASSUME NEW m \in Monitor, ArmBeside(m)
        PROVE  DoctorInv'
    BY <2>2 DEF ArmBeside, DoctorInv
  <2>3. QED
    BY <1>3, <2>1, <2>2, NoiseRight, ReadRight DEF Meanwhile
<1>4. CASE DoctorAtWork /\ Examine
  <2>1. doc.pc # "off"
    BY <1>4 DEF DoctorAtWork, DoctorRecord
  <2>2. ASSUME Leave
        PROVE  DoctorInv'
    BY <2>2 DEF Leave, DoctorInv
  <2>3. ~StartWake /\ ~StartLoop
    BY <2>1 DEF StartWake, StartLoop, At
  <2>4. QED
    BY <1>4, <2>2, <2>3, SendRight, ListRight, SurfaceRight, AgainRight, CompareRight,
       ScanRight, LookRight, AckRight, ProbeArrivesRight, ReadProbeRight DEF Examine
<1>5. QED
  BY <1>1, <1>2, <1>3, <1>4 DEF DoctorInv, DoctorNext

(* What either doctor reports is so, whatever the peers, the session and   *)
(* the mail do meanwhile.                                                  *)
THEOREM DoctorsAreRight == DoctorSpec => []DoctorIsRight
<1>1. DoctorInit => TypeOK /\ DoctorInv
  BY TypeInit DEF DoctorInit, DoctorInv
<1>2. DoctorInv => DoctorIsRight
  <2>1. CASE doc = NoDoctor
    BY <2>1 DEF NoDoctor, Doctor, DoctorIsRight, At
  <2>2. CASE DoctorAtWork
    <3>1. doc.pc = "verdict" /\ doc.kind = "wake" /\ doc.calm
            => doc.said = {"surfaced", "silent", "untouched"}
      BY <2>2 DEF DoctorAtWork, WakeTest
    <3>2. "late" \in doc.said => doc.probe = NoMail \/ doc.noise >= ScanLimit
      BY <2>2 DEF DoctorAtWork, WakeTest, LoopTest, DoctorRecord
    <3>3. QED
      BY <3>1, <3>2 DEF DoctorIsRight, At
  <2>3. QED
    BY <2>1, <2>2 DEF DoctorInv
<1>3. DoctorSpec => DoctorInit /\ [][DoctorNext]_doctorVars
  BY DEF DoctorSpec, DoctorNext
<1>4. QED
  BY <1>1, <1>2, <1>3, DoctorTypeStep, DoctorRight, PTL
=============================================================================
