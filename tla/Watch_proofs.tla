---------------------------- MODULE Watch_proofs ----------------------------
(***************************************************************************)
(* Theorems about two parts of `agentbus watch` that stand beside the      *)
(* watcher itself: the burst coalescer (Coalescer), for every window,      *)
(* quiet time and number of messages, and the registrations of running     *)
(* watchers (WatchRegistry), for all agents, states, processes and         *)
(* commands.  They share no variable.                                      *)
(***************************************************************************)
EXTENDS Coalescer, WatchRegistry, SequenceTheorems, FiniteSetTheorems, TLAPS

-----------------------------------------------------------------------------
(* The coalescer.                                                          *)

(* Type correctness: deadlines and timer stay within the window and never  *)
(* run below zero.                                                         *)
THEOREM TypeCorrect == Spec => []TypeOK
<1> USE CoalescerAssumption DEF CoalescerAssumption, TypeOK, Unset
<1>1. Init => TypeOK
  <2> SUFFICES ASSUME Init
               PROVE  TypeOK
    OBVIOUS
  <2>1. /\ sent \in Nat /\ waiting \in Nat /\ heldFor \in Nat
        /\ hardLeft \in Unset..Window /\ quietLeft \in Unset..Quiet
        /\ timerLeft \in Unset..Window
    BY DEF Init
  <2>2. /\ call \in [msg : Nat, urgent : BOOLEAN] /\ closed \in BOOLEAN
        /\ closing \in BOOLEAN /\ passed \subseteq Nat
    BY DEF Init, Idle
  <2>3. buffer \in Seq(Nat) /\ accepted \in Seq(Nat) /\ sunk \in Seq(Nat)
    BY DEF Init
  <2>4. QED
    BY <2>1, <2>2, <2>3
<1>2. TypeOK /\ [Next]_vars => TypeOK'
  <2> SUFFICES ASSUME TypeOK, [Next]_vars
               PROVE  TypeOK'
    OBVIOUS
  <2>1. CASE HandleAfterClose
    BY <2>1 DEF HandleAfterClose, window, shutdown
  <2>2. ASSUME NEW urgent \in BOOLEAN, HandleEnter(urgent)
        PROVE  TypeOK'
    BY <2>2 DEF HandleEnter, window, shutdown
  <2>3. CASE HandleLocked
    <3>1. CASE HandleUrgent
      BY <2>3, <3>1 DEF HandleLocked, HandleUrgent, Flush, Idle, shutdown
    <3>2. CASE HandleLeading
      BY <2>3, <3>2 DEF HandleLocked, HandleLeading, Arm, Shorter, Idle, shutdown
    <3>3. CASE HandleTrailing
      BY <2>3, <3>3 DEF HandleLocked, HandleTrailing, Arm, Shorter, Idle, shutdown
    <3>4. QED
      BY <2>3, <3>1, <3>2, <3>3 DEF HandleLocked
  <2>4. CASE Close
    BY <2>4 DEF Close, window
  <2>5. CASE CloseFlush
    <3>1. sunk' \in Seq(Nat)
      BY <2>5, ConcatProperties DEF CloseFlush
    <3>2. closing' = FALSE /\ closed' = closed
      BY <2>5 DEF CloseFlush
    <3>3. /\ buffer' \in Seq(Nat) /\ heldFor' \in Nat
          /\ hardLeft' \in Unset..Window /\ quietLeft' \in Unset..Quiet
          /\ timerLeft' \in Unset..Window
      BY <2>5 DEF CloseFlush, Flush
    <3>4. UNCHANGED <<sent, call, waiting, accepted, passed>>
      BY <2>5 DEF CloseFlush
    <3>5. QED
      BY <3>1, <3>2, <3>3, <3>4
  <2>6. CASE TimerFires
    BY <2>6 DEF TimerFires, shutdown
  <2>7. CASE OnTimerStale
    BY <2>7 DEF OnTimerStale, window, shutdown
  <2>8. CASE OnTimerRearm
    BY <2>8 DEF OnTimerRearm, Arm, Shorter, shutdown
  <2>9. CASE OnTimerFlush
    BY <2>9 DEF OnTimerFlush, Flush, shutdown
  <2>10. CASE Tick
    BY <2>10 DEF Tick, Later, shutdown
  <2>11. CASE UNCHANGED vars
    BY <2>11 DEF vars, window, shutdown
  <2>12. QED
    BY <2>1, <2>2, <2>3, <2>4, <2>5, <2>6, <2>7, <2>8, <2>9, <2>10, <2>11
       DEF Next, OnTimer
<1>3. QED
  BY <1>1, <1>2, PTL DEF Spec

-----------------------------------------------------------------------------
(* The messages 1 to n, each once, in `out`; out of order only those that  *)
(* are in `late`.                                                          *)
OnceEach(out, n, late) ==
  /\ out \in Seq(Nat) /\ Len(out) = n
  /\ \A i \in 1..n : out[i] \in 1..n
  /\ \A m \in 1..n : \E i \in 1..n : out[i] = m
  /\ \A i, j \in 1..n : i < j => out[i] < out[j] \/ out[i] \in late

(* Why nothing is lost or repeated, and nothing reordered by the timers or *)
(* an urgent message: a message is buffered only inside a window, and once *)
(* close() is through the one call that may still be on its way finds no   *)
(* window open, so it wakes at once.                                       *)
BufferDiscipline ==
  /\ OnceEach(Announced, Len(accepted), passed)
  /\ Len(accepted) = IF call = Idle THEN sent ELSE call.msg - 1
  /\ call # Idle => call.msg = sent
  /\ ClosedHoldsNothing
  /\ closing => closed
  /\ buffer # <<>> => hardLeft # Unset
  /\ closed /\ ~closing /\ call # Idle => hardLeft = Unset

LEMMA AppendToConcat ==
  ASSUME NEW s \in Seq(Nat), NEW t \in Seq(Nat), NEW e \in Nat
  PROVE  s \o Append(t, e) = Append(s \o t, e)
<1>1. Append(t, e) = t \o <<e>>
  BY AppendIsConcat
<1>2. s \o t \in Seq(Nat) /\ <<e>> \in Seq(Nat)
  BY ConcatProperties
<1>3. Append(s \o t, e) = (s \o t) \o <<e>>
  BY <1>2, AppendIsConcat
<1>4. QED
  BY <1>1, <1>2, <1>3, ConcatAssociative

LEMMA NilRight ==
  ASSUME NEW s \in Seq(Nat)
  PROVE  s \o <<>> = s
BY ConcatEmptySeq

(* The next message at the end keeps the order.                            *)
LEMMA AtTheEnd ==
  ASSUME NEW out, NEW n \in Nat, NEW late, OnceEach(out, n, late)
  PROVE  OnceEach(Append(out, n + 1), n + 1, late)
<1> DEFINE new == Append(out, n + 1)
<1> USE DEF OnceEach
<1>1. /\ new \in Seq(Nat) /\ Len(new) = n + 1 /\ new[n + 1] = n + 1
      /\ \A i \in 1..n : new[i] = out[i]
  BY AppendProperties
<1> HIDE DEF new
<1>2. \A i \in 1..(n + 1) : new[i] \in 1..(n + 1)
  <2> TAKE i \in 1..(n + 1)
  <2>1. CASE i = n + 1
    BY <1>1, <2>1
  <2>2. CASE i # n + 1
    <3>1. i \in 1..n
      BY <2>2
    <3>2. new[i] = out[i] /\ out[i] \in 1..n
      BY <1>1, <3>1
    <3>3. QED
      BY <3>2
  <2>3. QED
    BY <2>1, <2>2
<1>3. \A m \in 1..(n + 1) : \E i \in 1..(n + 1) : new[i] = m
  <2> TAKE m \in 1..(n + 1)
  <2>1. CASE m = n + 1
    BY <1>1, <2>1
  <2>2. CASE m # n + 1
    <3>1. PICK i \in 1..n : out[i] = m
      BY <2>2
    <3>2. i \in 1..(n + 1) /\ new[i] = m
      BY <1>1, <3>1
    <3>3. QED
      BY <3>2
  <2>3. QED
    BY <2>1, <2>2
<1>4. \A i, j \in 1..(n + 1) : i < j => new[i] < new[j] \/ new[i] \in late
  <2> TAKE i, j \in 1..(n + 1)
  <2>1. CASE i < j /\ j = n + 1
    <3>1. i \in 1..n /\ out[i] \in 1..n
      BY <2>1
    <3>2. QED
      BY <1>1, <2>1, <3>1
  <2>2. CASE i < j /\ j # n + 1
    BY <1>1, <2>2
  <2>3. QED
    BY <2>1, <2>2
<1>5. QED
  BY <1>1, <1>2, <1>3, <1>4 DEF new

(* One that goes ahead of a held tail is the only new one out of order.    *)
LEMMA AheadOfTheTail ==
  ASSUME NEW s \in Seq(Nat), NEW t \in Seq(Nat), NEW n \in Nat, NEW late,
         OnceEach(s \o t, n, late)
  PROVE  OnceEach(Append(s, n + 1) \o t, n + 1, late \cup {n + 1})
<1> DEFINE out == s \o t
           k == Len(s)
           new == Append(s, n + 1) \o t
<1>1. /\ out \in Seq(Nat) /\ Len(out) = n /\ n = k + Len(t)
      /\ k \in Nat /\ Len(t) \in Nat
      /\ \A i \in 1..n : out[i] = IF i <= k THEN s[i] ELSE t[i - k]
  BY ConcatProperties, LenProperties DEF OnceEach
<1>2. /\ Append(s, n + 1) \in Seq(Nat) /\ Len(Append(s, n + 1)) = k + 1
      /\ \A i \in 1..k : Append(s, n + 1)[i] = s[i]
      /\ Append(s, n + 1)[k + 1] = n + 1
  BY AppendProperties
<1>3. /\ new \in Seq(Nat) /\ Len(new) = n + 1
      /\ \A i \in 1..(n + 1) :
           new[i] = IF i <= k + 1 THEN Append(s, n + 1)[i] ELSE t[i - (k + 1)]
  BY <1>1, <1>2, ConcatProperties
<1>4. /\ new[k + 1] = n + 1
      /\ \A i \in 1..k : new[i] = out[i]
      /\ \A i \in (k + 2)..(n + 1) : new[i] = out[i - 1]
  <2>1. new[k + 1] = n + 1 /\ \A i \in 1..k : new[i] = out[i]
    BY <1>1, <1>2, <1>3
  <2>2. ASSUME NEW i \in (k + 2)..(n + 1)
        PROVE  new[i] = out[i - 1]
    <3>1. i \in 1..(n + 1) /\ i - 1 \in 1..n /\ ~(i <= k + 1) /\ ~(i - 1 <= k)
          /\ (i - 1) - k = i - (k + 1)
      BY <1>1
    <3>2. new[i] = t[i - (k + 1)] /\ out[i - 1] = t[(i - 1) - k]
      BY <1>1, <1>3, <3>1
    <3>3. QED
      BY <3>1, <3>2
  <2>3. QED
    BY <2>1, <2>2
<1>5. /\ \A i \in 1..n : out[i] \in 1..n
      /\ \A m \in 1..n : \E i \in 1..n : out[i] = m
      /\ \A i, j \in 1..n : i < j => out[i] < out[j] \/ out[i] \in late
  BY DEF OnceEach
<1> HIDE DEF out, k, new
<1>6. \A i \in 1..(n + 1) : new[i] \in 1..(n + 1)
  <2> TAKE i \in 1..(n + 1)
  <2>1. CASE i \in 1..k
    <3>1. i \in 1..n
      BY <1>1, <2>1
    <3>2. new[i] = out[i] /\ out[i] \in 1..n
      BY <1>4, <1>5, <2>1, <3>1
    <3>3. QED
      BY <3>2
  <2>2. CASE i = k + 1
    BY <1>4, <2>2
  <2>3. CASE i \in (k + 2)..(n + 1)
    <3>1. i - 1 \in 1..n
      BY <1>1, <2>3
    <3>2. new[i] = out[i - 1] /\ out[i - 1] \in 1..n
      BY <1>4, <1>5, <2>3, <3>1
    <3>3. QED
      BY <3>2
  <2>4. QED
    BY <1>1, <2>1, <2>2, <2>3
<1>7. \A m \in 1..(n + 1) : \E i \in 1..(n + 1) : new[i] = m
  <2> TAKE m \in 1..(n + 1)
  <2>1. CASE m = n + 1
    <3>1. k + 1 \in 1..(n + 1)
      BY <1>1
    <3>2. QED
      BY <1>4, <2>1, <3>1
  <2>2. CASE m # n + 1
    <3>0. m \in 1..n
      BY <2>2
    <3>1. PICK i \in 1..n : out[i] = m
      BY <1>5, <3>0
    <3>2. CASE i <= k
      <4>1. i \in 1..k /\ i \in 1..(n + 1)
        BY <1>1, <3>2
      <4>2. QED
        BY <1>4, <3>1, <4>1
    <3>3. CASE i > k
      <4>1. i + 1 \in (k + 2)..(n + 1) /\ (i + 1) - 1 = i
        BY <1>1, <3>3
      <4>2. new[i + 1] = m /\ i + 1 \in 1..(n + 1)
        BY <1>4, <3>1, <4>1
      <4>3. QED
        BY <4>2
    <3>4. QED
      BY <1>1, <3>2, <3>3
  <2>3. QED
    BY <2>1, <2>2
<1>8. ASSUME NEW i \in 1..(n + 1), NEW j \in 1..(n + 1), i < j
      PROVE  new[i] < new[j] \/ new[i] \in late \cup {n + 1}
  <2>1. CASE i = k + 1
    BY <1>4, <2>1
  <2>2. CASE j = k + 1
    <3>1. i \in 1..k /\ i \in 1..n
      BY <1>1, <1>8, <2>2
    <3>2. new[i] \in 1..n
      BY <1>4, <1>5, <3>1
    <3>3. QED
      BY <1>4, <2>2, <3>2
  <2>3. CASE i \in 1..k /\ j \in 1..k
    <3>1. i \in 1..n /\ j \in 1..n
      BY <1>1, <2>3
    <3>2. new[i] = out[i] /\ new[j] = out[j]
      BY <1>4, <2>3
    <3>3. out[i] < out[j] \/ out[i] \in late
      BY <1>5, <1>8, <3>1
    <3>4. QED
      BY <3>2, <3>3
  <2>4. CASE i \in 1..k /\ j \in (k + 2)..(n + 1)
    <3>1. i \in 1..n /\ j - 1 \in 1..n /\ i < j - 1
      BY <1>1, <2>4
    <3>2. new[i] = out[i] /\ new[j] = out[j - 1]
      BY <1>4, <2>4
    <3>3. out[i] < out[j - 1] \/ out[i] \in late
      BY <1>5, <3>1
    <3>4. QED
      BY <3>2, <3>3
  <2>5. CASE i \in (k + 2)..(n + 1) /\ j \in (k + 2)..(n + 1)
    <3>1. i - 1 \in 1..n /\ j - 1 \in 1..n /\ i - 1 < j - 1
      BY <1>1, <1>8, <2>5
    <3>2. new[i] = out[i - 1] /\ new[j] = out[j - 1]
      BY <1>4, <2>5
    <3>3. out[i - 1] < out[j - 1] \/ out[i - 1] \in late
      BY <1>5, <3>1
    <3>4. QED
      BY <3>2, <3>3
  <2>6. QED
    BY <1>1, <1>8, <2>1, <2>2, <2>3, <2>4, <2>5
<1>9. QED
  BY <1>3, <1>6, <1>7, <1>8 DEF OnceEach, new

LEMMA BufferDisciplineInit == Init => BufferDiscipline
<1>1. <<>> \o <<>> = <<>> /\ <<>> \in Seq(Nat)
  BY NilRight
<1>2. QED
  BY <1>1 DEF Init, BufferDiscipline, OnceEach, Announced, ClosedHoldsNothing

LEMMA BufferDisciplineStep ==
  TypeOK /\ BufferDiscipline /\ [Next]_vars => BufferDiscipline'
<1> SUFFICES ASSUME TypeOK, BufferDiscipline, [Next]_vars
             PROVE  BufferDiscipline'
  OBVIOUS
<1> USE DEF BufferDiscipline, ClosedHoldsNothing, Unset
<1>0. /\ sunk \in Seq(Nat) /\ buffer \in Seq(Nat) /\ accepted \in Seq(Nat)
      /\ Announced \in Seq(Nat) /\ Len(accepted) \in Nat
      /\ call.msg \in Nat /\ sent \in Nat
  BY ConcatProperties DEF TypeOK, Announced
<1>a. \A e \in Nat : Len(Append(accepted, e)) = Len(accepted) + 1
  BY <1>0, AppendProperties
<1>b. Idle.msg = 0
  BY DEF Idle
(* The order is looked after first: a step leaves it, puts the next        *)
(* message at the end, or lets it pass.                                    *)
<1>c. ASSUME Announced' = Announced, UNCHANGED <<accepted, passed>>
      PROVE  OnceEach(Announced, Len(accepted), passed)'
  BY <1>c
<1>d. ASSUME Announced' = Append(Announced, Len(accepted) + 1),
             accepted' = Append(accepted, Len(accepted) + 1),
             UNCHANGED passed
      PROVE  OnceEach(Announced, Len(accepted), passed)'
  <2>1. OnceEach(Append(Announced, Len(accepted) + 1), Len(accepted) + 1, passed)
    BY <1>0, AtTheEnd
  <2>2. Len(accepted') = Len(accepted) + 1
    <3>1. Len(accepted) + 1 \in Nat
      BY <1>0
    <3>2. QED
      BY <1>a, <1>d, <3>1
  <2>3. QED
    BY <1>d, <2>1, <2>2
<1>1. CASE HandleAfterClose
  <2>0. /\ sent = Len(accepted) /\ sent + 1 \in Nat
        /\ accepted' = Append(accepted, Len(accepted) + 1)
        /\ sunk' = Append(sunk, Len(accepted) + 1) /\ buffer' = buffer
        /\ Len(accepted') = sent'
    BY <1>0, <1>1, <1>a DEF HandleAfterClose
  <2>1. CASE closing
    <3>1. OnceEach(Append(sunk, Len(accepted) + 1) \o buffer, Len(accepted) + 1,
                   passed \cup {Len(accepted) + 1})
      BY <1>0, AheadOfTheTail DEF Announced
    <3>2. passed' = passed \cup {Len(accepted) + 1}
      BY <1>1, <2>0, <2>1 DEF HandleAfterClose
    <3>3. OnceEach(Announced, Len(accepted), passed)'
      BY <1>0, <1>a, <2>0, <3>1, <3>2 DEF Announced
    <3>4. QED
      BY <1>1, <2>0, <3>3 DEF HandleAfterClose, window, shutdown
  <2>2. CASE ~closing
    <3>1. buffer = <<>>
      BY <1>1, <2>2 DEF HandleAfterClose
    <3>2. Append(sunk, Len(accepted) + 1) \in Seq(Nat)
      BY <1>0, AppendProperties
    <3>3. Announced' = Append(Announced, Len(accepted) + 1)
      BY <1>0, <2>0, <3>1, <3>2, NilRight DEF Announced
    <3>4. OnceEach(Announced, Len(accepted), passed)'
      BY <1>1, <1>d, <2>0, <2>2, <3>3 DEF HandleAfterClose
    <3>5. QED
      BY <1>1, <2>0, <3>4 DEF HandleAfterClose, window, shutdown
  <2>3. QED
    BY <2>1, <2>2
<1>2. ASSUME NEW urgent \in BOOLEAN, HandleEnter(urgent)
      PROVE  BufferDiscipline'
  <2>1. Announced' = Announced /\ UNCHANGED <<accepted, passed>>
    BY <1>2 DEF HandleEnter, Announced
  <2>2. OnceEach(Announced, Len(accepted), passed)'
    BY <1>c, <2>1
  <2>3. call'.msg = sent + 1 /\ call' # Idle
    BY <1>0, <1>2, <1>b DEF HandleEnter
  <2>4. QED
    BY <1>0, <1>2, <2>2, <2>3 DEF HandleEnter, window, shutdown
<1>3. CASE HandleLocked
  <2> USE <1>3 DEF HandleLocked
  <2>0. /\ call.msg = Len(accepted) + 1 /\ call.msg = sent
        /\ Len(accepted') = sent' /\ call' = Idle /\ ~closing
        /\ UNCHANGED <<closed, closing, passed>>
    BY <1>0, <1>a DEF shutdown
  <2>1. CASE HandleUrgent
    <3>1. Append(Announced, call.msg) \in Seq(Nat)
      BY <1>0, AppendProperties
    <3>2. Announced' = Append(Announced, call.msg)
      BY <2>1, <3>1, NilRight DEF HandleUrgent, Flush, Announced
    <3>3. OnceEach(Announced, Len(accepted), passed)'
      BY <1>d, <2>0, <3>2
    <3>4. QED
      BY <2>0, <2>1, <3>3 DEF HandleUrgent, Flush
  <2>2. CASE HandleLeading
    <3>1. buffer = <<>> /\ buffer' = <<>>
      BY <2>2 DEF HandleLeading
    <3>2. Append(sunk, call.msg) \in Seq(Nat)
      BY <1>0, AppendProperties
    <3>3. Announced' = Append(Announced, call.msg)
      BY <1>0, <2>2, <3>1, <3>2, NilRight DEF HandleLeading, Announced
    <3>4. OnceEach(Announced, Len(accepted), passed)'
      BY <1>d, <2>0, <3>3
    <3>5. QED
      BY <2>0, <3>1, <3>4
  <2>3. CASE HandleTrailing
    <3>1. Announced' = Append(Announced, call.msg)
      BY <1>0, <2>3, AppendToConcat DEF HandleTrailing, Announced
    <3>2. ~closed
      BY <2>0, <2>3 DEF HandleTrailing
    <3>3. OnceEach(Announced, Len(accepted), passed)'
      BY <1>d, <2>0, <3>1
    <3>4. QED
      BY <2>0, <2>3, <3>2, <3>3 DEF HandleTrailing
  <2>4. QED
    BY <2>1, <2>2, <2>3
<1>4. CASE Close
  <2>1. OnceEach(Announced, Len(accepted), passed)'
    BY <1>4, <1>c DEF Close, Announced
  <2>2. QED
    BY <1>4, <2>1 DEF Close, window
<1>5. ASSUME sunk' = sunk \o buffer, Flush, UNCHANGED <<accepted, passed>>
      PROVE  OnceEach(Announced, Len(accepted), passed)'
  <2>1. Announced' = Announced
    BY <1>0, <1>5, NilRight DEF Announced, Flush
  <2>2. QED
    BY <1>5, <1>c, <2>1
<1>6. CASE CloseFlush
  <2>1. OnceEach(Announced, Len(accepted), passed)'
    BY <1>5, <1>6 DEF CloseFlush
  <2>2. QED
    BY <1>6, <2>1 DEF CloseFlush, Flush
<1>7. CASE OnTimerFlush
  <2>1. OnceEach(Announced, Len(accepted), passed)'
    BY <1>5, <1>7 DEF OnTimerFlush
  <2>2. QED
    BY <1>7, <2>1 DEF OnTimerFlush, Flush, shutdown
<1>8. ASSUME UNCHANGED <<sent, call, buffer, shutdown, accepted, sunk, passed>>,
             hardLeft = Unset <=> hardLeft' = Unset
      PROVE  BufferDiscipline'
  <2>1. OnceEach(Announced, Len(accepted), passed)'
    BY <1>8, <1>c DEF Announced
  <2>2. QED
    BY <1>8, <2>1 DEF shutdown
<1>9. CASE TimerFires
  BY <1>8, <1>9 DEF TimerFires
<1>10. CASE OnTimerStale
  BY <1>8, <1>10 DEF OnTimerStale, window
<1>11. CASE OnTimerRearm
  BY <1>8, <1>11 DEF OnTimerRearm
<1>12. CASE Tick
  <2>1. hardLeft \in -1..Window
    BY DEF TypeOK
  <2>2. hardLeft = Unset <=> hardLeft' = Unset
    BY <1>12, <2>1, CoalescerAssumption DEF Tick, Later, CoalescerAssumption
  <2>3. QED
    BY <1>8, <1>12, <2>2 DEF Tick
<1>13. CASE UNCHANGED vars
  BY <1>8, <1>13 DEF vars, window
<1>14. QED
  BY <1>1, <1>2, <1>3, <1>4, <1>6, <1>7, <1>9, <1>10, <1>11, <1>12, <1>13
     DEF Next, OnTimer

LEMMA BufferDisciplineInvariant == Spec => []BufferDiscipline
BY BufferDisciplineInit, BufferDisciplineStep, TypeCorrect, PTL DEF Spec

(* Whatever the interleaving of the drain thread, the timer threads and    *)
(* close(): every message reaches the sink once, and in arrival order but  *)
(* for those that pass a close() at its flush.                             *)
THEOREM FifoCorrect == Spec => []FifoExactlyOnce
<1>1. TypeOK /\ BufferDiscipline => FifoExactlyOnce
  <2> SUFFICES ASSUME TypeOK, BufferDiscipline
               PROVE  FifoExactlyOnce
    OBVIOUS
  <2>1. OnceEach(Announced, Len(accepted), passed)
    BY DEF BufferDiscipline
  <2>2. DOMAIN Announced = 1..Len(accepted)
    BY <2>1 DEF OnceEach
  <2>3. QED
    BY <2>1, <2>2 DEF OnceEach, FifoExactlyOnce
<1>2. QED
  BY <1>1, TypeCorrect, BufferDisciplineInvariant, PTL

(* Once close() is through the buffer stays empty, for a call already on   *)
(* its way to the lock too.                                                *)
THEOREM ClosedCorrect == Spec => []ClosedHoldsNothing
<1>1. BufferDiscipline => ClosedHoldsNothing
  BY DEF BufferDiscipline
<1>2. QED
  BY <1>1, BufferDisciplineInvariant, PTL

-----------------------------------------------------------------------------
(* Why a buffered message always has a timer coming and is never held for  *)
(* longer than the window: every arrival re-arms, a timer that expires     *)
(* joins the queue for the lock, and only a flush empties that queue       *)
(* without arming another.                                                 *)
HoldDiscipline ==
  /\ TailHasAlarm
  /\ HoldIsBounded
  /\ buffer = <<>> => heldFor = 0

LEMMA HoldDisciplineInit == Init => HoldDiscipline
BY DEF Init, HoldDiscipline, TailHasAlarm, HoldIsBounded

LEMMA HoldDisciplineStep ==
  TypeOK /\ BufferDiscipline /\ HoldDiscipline /\ [Next]_vars
    => HoldDiscipline'
<1> SUFFICES ASSUME TypeOK, BufferDiscipline, HoldDiscipline, [Next]_vars
             PROVE  HoldDiscipline'
  OBVIOUS
<1> USE CoalescerAssumption
        DEF CoalescerAssumption, HoldDiscipline, TailHasAlarm, HoldIsBounded,
            Unset
<1>0. /\ Window \in Nat /\ Quiet \in Nat
      /\ hardLeft \in -1..Window /\ quietLeft \in -1..Quiet
      /\ timerLeft \in -1..Window /\ waiting \in Nat /\ heldFor \in Nat
  BY DEF TypeOK
<1>1. CASE HandleAfterClose
  BY <1>1 DEF HandleAfterClose, window
<1>2. ASSUME NEW urgent \in BOOLEAN, HandleEnter(urgent)
      PROVE  HoldDiscipline'
  BY <1>2 DEF HandleEnter, window
<1>3. CASE HandleLocked
  <2> USE <1>3 DEF HandleLocked
  <2>1. CASE HandleUrgent
    BY <2>1 DEF HandleUrgent, Flush
  <2>2. CASE HandleLeading
    <3>1. buffer = <<>>
      BY <2>2 DEF HandleLeading, BufferDiscipline
    <3>2. QED
      BY <2>2, <3>1 DEF HandleLeading
  <2>3. CASE HandleTrailing
    <3>1. hardLeft \in 0..Window /\ hardLeft' = hardLeft /\ heldFor' = heldFor
      BY <1>0, <2>3 DEF HandleTrailing
    <3>2. timerLeft' \in 0..hardLeft
      BY <1>0, <2>3, <3>1 DEF HandleTrailing, Arm, Shorter
    <3>3. hardLeft > 0 => heldFor + hardLeft <= Window
      BY <1>0, <3>1
    <3>4. buffer \in Seq(Nat) /\ call.msg \in Nat
      BY DEF TypeOK
    <3>5. Append(buffer, call.msg) # <<>>
      BY <3>4, AppendProperties
    <3>6. buffer' # <<>>
      BY <2>3, <3>5 DEF HandleTrailing
    <3>7. QED
      BY <3>1, <3>2, <3>3, <3>6
  <2>4. QED
    BY <2>1, <2>2, <2>3
<1>4. CASE Close \/ CloseFlush
  BY <1>4 DEF Close, CloseFlush, Flush, window
<1>5. CASE TimerFires
  BY <1>0, <1>5 DEF TimerFires
<1>6. CASE OnTimerStale
  <2>1. buffer = <<>>
    BY <1>6 DEF OnTimerStale, BufferDiscipline, ClosedHoldsNothing
  <2>2. QED
    BY <1>6, <2>1 DEF OnTimerStale, window
<1>7. CASE OnTimerRearm
  <2>1. timerLeft' \in 0..hardLeft
    BY <1>0, <1>7 DEF OnTimerRearm, Arm, Shorter
  <2>2. QED
    BY <1>7, <2>1 DEF OnTimerRearm
<1>8. CASE OnTimerFlush
  BY <1>8 DEF OnTimerFlush, Flush
<1>9. CASE Tick
  <2>1. CASE buffer = <<>>
    BY <1>9, <2>1 DEF Tick
  <2>2. CASE buffer # <<>>
    <3>1. TailHasAlarm'
      BY <1>0, <1>9, <2>2 DEF Tick, Later
    <3>2. HoldIsBounded'
      BY <1>0, <1>9, <2>2 DEF Tick, Later
    <3>3. buffer' # <<>>
      BY <1>9, <2>2 DEF Tick
    <3>4. QED
      BY <3>1, <3>2, <3>3
  <2>3. QED
    BY <2>1, <2>2
<1>10. CASE UNCHANGED vars
  BY <1>10 DEF vars, window
<1>11. QED
  BY <1>1, <1>2, <1>3, <1>4, <1>5, <1>6, <1>7, <1>8, <1>9, <1>10
     DEF Next, OnTimer

LEMMA HoldDisciplineInvariant == Spec => []HoldDiscipline
BY HoldDisciplineInit, HoldDisciplineStep, BufferDisciplineInvariant,
   TypeCorrect, PTL DEF Spec

(* A tail is never left without a timer that will flush it, whatever timer *)
(* expired while the lock was held or was replaced by a later arrival.     *)
THEOREM TailCorrect == Spec => []TailHasAlarm
<1>1. HoldDiscipline => TailHasAlarm
  BY DEF HoldDiscipline
<1>2. QED
  BY <1>1, HoldDisciplineInvariant, PTL

(* A sender that never falls silent cannot hold the tail past the window.  *)
THEOREM HoldCorrect == Spec => []HoldIsBounded
<1>1. HoldDiscipline => HoldIsBounded
  BY DEF HoldDiscipline
<1>2. QED
  BY <1>1, HoldDisciplineInvariant, PTL

-----------------------------------------------------------------------------
(* The call on its way to the lock carries the last message handed over.   *)
CallInOrder ==
  /\ sent <= MaxMessages
  /\ call # Idle => call.msg \in 1..MaxMessages

LEMMA CallInOrderInvariant == Spec => []CallInOrder
<1> USE CoalescerAssumption DEF CoalescerAssumption, CallInOrder
<1>1. Init => CallInOrder
  BY DEF Init
<1>2. TypeOK /\ CallInOrder /\ [Next]_vars => CallInOrder'
  <2> SUFFICES ASSUME TypeOK, CallInOrder, [Next]_vars
               PROVE  CallInOrder'
    OBVIOUS
  <2>1. CASE HandleAfterClose
    BY <2>1 DEF HandleAfterClose, TypeOK
  <2>2. ASSUME NEW urgent \in BOOLEAN, HandleEnter(urgent)
        PROVE  CallInOrder'
    BY <2>2 DEF HandleEnter, TypeOK
  <2>3. CASE HandleLocked
    BY <2>3 DEF HandleLocked
  <2>4. CASE UNCHANGED <<sent, call>>
    BY <2>4
  <2>5. QED
    BY <2>1, <2>2, <2>3, <2>4
       DEF Next, OnTimer, Close, CloseFlush, TimerFires, OnTimerStale, OnTimerRearm,
           OnTimerFlush, Tick, vars
<1>3. QED
  BY <1>1, <1>2, TypeCorrect, PTL DEF Spec

(* Every step of the coalescer is a step of the abstract queue: it wakes   *)
(* for everything taken so far, holds one more message, lets one pass after*)
(* it was shut, releases what it holds, shuts, or changes nothing.         *)
LEMMA QueueStep ==
  TypeOK /\ BufferDiscipline /\ CallInOrder /\ [Next]_vars
    => [Queue!Next]_(Queue!queueVars)
<1> SUFFICES ASSUME TypeOK, BufferDiscipline, CallInOrder, [Next]_vars
             PROVE  [Queue!Next]_(Queue!queueVars)
  OBVIOUS
<1> USE CoalescerAssumption
        DEF CoalescerAssumption, Queue!Next, Queue!queueVars, Queue!WakeNow,
            Queue!Hold, Queue!Release, Queue!Pass, Queue!Shut, shutdown
<1>0. sunk \in Seq(Nat) /\ buffer \in Seq(Nat)
  BY DEF TypeOK
<1>1. CASE HandleAfterClose
  <2>1. sent + 1 \in 1..MaxMessages
    BY <1>1 DEF HandleAfterClose, TypeOK
  <2>2. Queue!Pass(sent + 1)
    BY <1>1 DEF HandleAfterClose
  <2>3. QED
    BY <2>1, <2>2
<1>2. CASE HandleLocked
  <2> USE <1>2 DEF HandleLocked
  <2>0. call.msg \in 1..MaxMessages
    BY DEF CallInOrder
  <2>1. CASE HandleUrgent
    <3>1. Queue!WakeNow(call.msg)
      BY <2>1 DEF HandleUrgent, Flush
    <3>2. QED
      BY <2>0, <3>1
  <2>2. CASE HandleLeading
    <3>1. buffer = <<>> /\ sunk \o buffer = sunk
      BY <1>0, <2>2, NilRight DEF HandleLeading, BufferDiscipline
    <3>2. Queue!WakeNow(call.msg)
      BY <2>2, <3>1 DEF HandleLeading
    <3>3. QED
      BY <2>0, <3>2
  <2>3. CASE HandleTrailing
    <3>1. ~closed
      BY <2>3 DEF HandleTrailing, BufferDiscipline
    <3>2. Queue!Hold(call.msg)
      BY <2>3, <3>1 DEF HandleTrailing
    <3>3. QED
      BY <2>0, <3>2
  <2>4. QED
    BY <2>1, <2>2, <2>3
<1>3. ASSUME sunk' = sunk \o buffer, Flush, UNCHANGED <<accepted, closed>>
      PROVE  [Queue!Next]_(Queue!queueVars)
  <2>1. CASE buffer = <<>>
    BY <1>0, <1>3, <2>1, NilRight DEF Flush
  <2>2. CASE buffer # <<>>
    BY <1>3, <2>2 DEF Flush
  <2>3. QED
    BY <2>1, <2>2
<1>4. CASE Close
  BY <1>4 DEF Close
<1>5. CASE CloseFlush
  BY <1>3, <1>5 DEF CloseFlush
<1>6. CASE OnTimerFlush
  BY <1>3, <1>6 DEF OnTimerFlush
<1>7. CASE UNCHANGED <<accepted, buffer, sunk, closed>>
  BY <1>7
<1>8. QED
  BY <1>1, <1>2, <1>4, <1>5, <1>6, <1>7
     DEF Next, OnTimer, HandleEnter, TimerFires, OnTimerStale, OnTimerRearm,
         Tick, vars

(* The coalescer implements the safety part of WakeQueue; that it also     *)
(* keeps the promise of release is model-checked.                          *)
THEOREM CoalescerImplementsQueue == Spec => Queue!Safety
<1>1. Init => Queue!Init
  BY DEF Init, Queue!Init
<1>2. QED
  BY <1>1, QueueStep, TypeCorrect, BufferDisciplineInvariant,
     CallInOrderInvariant, PTL DEF Spec, Queue!Safety

-----------------------------------------------------------------------------
(* The registrations.                                                      *)

(* What a process's record may hold in each phase.                         *)
ProcessShape(r) ==
  /\ r.phase = "free" => r = Free
  /\ r.phase = "stranger" => r = Stranger
  /\ r.phase = "boot" => r.agent \in Agent /\ r.key \in Explicit \cup {None}
  /\ r.phase \in {"run", "closing", "leaving"} =>
       r.agent \in Agent /\ r.key \in State \cup {Legacy}

(* What a command's record may hold: a start has one slot of its own agent *)
(* throughout, and from the spawn on the child's pid; a scan looks at the  *)
(* slots of its agent and of those named after it.                         *)
CommandShape(r) ==
  /\ r.op = "none" => r = NoCommand
  /\ r.op = "start" =>
       /\ r.step \in {"read", "judge", "spawn", "record"}
       /\ r.slot \in Agent \X State /\ r.slot[1] = r.agent
       /\ r.step = "record" => r.pid \in Pid
       /\ r.found = {}
  /\ r.op = "scan" =>
       /\ r.step \in {"scan", "judge", "act"} /\ r.agent \in Agent
       /\ \A s \in r.todo : s[1] \in {r.agent} \cup NamedAfter[r.agent]
       /\ r.step = "judge" => r.slot \in r.todo
  /\ r.op = "stop" => r.step = "act" /\ r.agent \in Agent

Shapes == /\ \A p \in Pid : ProcessShape(proc[p])
          /\ \A c \in Cmd : CommandShape(cmd[c])

(* A pid that a scan took for its agent's watcher is that watcher or has   *)
(* not been handed out since.                                              *)
FoundIsOwn ==
  \A c \in Cmd : \A f \in cmd[c].found :
    proc[f[2]] = Free \/ proc[f[2]].agent = cmd[c].agent

(* Nobody writes the file of a legacy slot: what was read there is what it *)
(* names, if there still is one.                                           *)
LegacyOnlyGoes ==
  \A c \in Cmd :
    /\ \A f \in cmd[c].found : f[1][2] = Legacy => reg[f[1]] \in {None, f[2]}
    /\ (cmd[c].op = "scan" /\ cmd[c].step = "judge" /\ cmd[c].slot[2] = Legacy /\ cmd[c].pid \in Pid)
         => reg[cmd[c].slot] \in {None, cmd[c].pid}

(* In a slot without an excuse, whoever serves it is the one registered,   *)
(* at most one start is under way, and since it read the file nobody else  *)
(* has registered.                                                         *)
Registered(s) == \A q \in Serving(s) : reg[s] = q
LoneStart(s) == \A c, d \in Cmd :
  (cmd[c].op = "start" /\ cmd[d].op = "start" /\ cmd[c].slot = s /\ cmd[d].slot = s) => c = d
StartIsCurrent(s) == \A c \in Cmd :
  (cmd[c].op = "start" /\ cmd[c].slot = s) =>
    /\ cmd[c].step = "judge" => cmd[c].pid # Torn /\ reg[s] \in {None, cmd[c].pid}
    /\ cmd[c].step = "spawn" => reg[s] = None
    /\ cmd[c].step = "record" => reg[s] \in {None, cmd[c].pid}
Unexcused == \A s \in Slot \ excuse : Registered(s) /\ LoneStart(s) /\ StartIsCurrent(s)

RegistryInv == RegistryTypeOK /\ Shapes /\ FoundIsOwn /\ LegacyOnlyGoes /\ Unexcused

-----------------------------------------------------------------------------
(* Slots are pairs; the legacy key is no state.                            *)
LEMMA SlotIsAPair == \A s \in Slot : /\ s = <<s[1], s[2]>> /\ s[1] \in Agent
                                     /\ s[2] \in State \cup {Legacy}
  BY DEF Slot

LEMMA PairIsASlot == \A a \in Agent, k \in State \cup {Legacy} :
                        <<a, k>> \in Slot /\ <<a, k>>[1] = a /\ <<a, k>>[2] = k
  BY DEF Slot

(* A command takes a new record.                                           *)
LEMMA CommandTakes ==
  ASSUME cmd \in [Cmd -> CommandRecord], \A c \in Cmd : CommandShape(cmd[c]),
         NEW c \in Cmd, NEW r \in CommandRecord, CommandShape(r),
         cmd' = [cmd EXCEPT ![c] = r]
  PROVE  /\ cmd' \in [Cmd -> CommandRecord]
         /\ \A d \in Cmd : CommandShape(cmd'[d])
         /\ cmd'[c] = r /\ \A d \in Cmd \ {c} : cmd'[d] = cmd[d]
  OBVIOUS

LEMMA NoCommandFits == NoCommand \in CommandRecord /\ CommandShape(NoCommand)
  BY DEF NoCommand, CommandRecord, CommandShape, Steps

(* A process takes a new record.                                           *)
LEMMA ProcessTakes ==
  ASSUME proc \in [Pid -> ProcessRecord], \A p \in Pid : ProcessShape(proc[p]),
         NEW p \in Pid, NEW r \in ProcessRecord, ProcessShape(r),
         proc' = [proc EXCEPT ![p] = r]
  PROVE  /\ proc' \in [Pid -> ProcessRecord]
         /\ \A q \in Pid : ProcessShape(proc'[q])
         /\ proc'[p] = r /\ \A q \in Pid \ {p} : proc'[q] = proc[q]
  OBVIOUS

LEMMA FreeFits == /\ Free \in ProcessRecord /\ ProcessShape(Free)
                  /\ Stranger \in ProcessRecord /\ ProcessShape(Stranger)
  BY DEF Free, Stranger, ProcessRecord, ProcessShape, Phases

(* A process that has registered stands in a slot.                         *)
LEMMA SlotOfAShape ==
  ASSUME Shapes
  PROVE  \A p \in Pid : proc[p].phase \in {"run", "closing", "leaving"}
                           => SlotOf(p) \in Slot
  BY PairIsASlot DEF Shapes, ProcessShape, SlotOf

LEMMA RegistryInitTypes == RegistryInit => RegistryTypeOK /\ Shapes
<1> SUFFICES ASSUME RegistryInit
             PROVE  RegistryTypeOK /\ Shapes
  OBVIOUS
<1> USE RegistryAssumption DEF RegistryAssumption
<1>1. PICK old \in SUBSET (Agent \X Pid), named \in BOOLEAN :
          /\ Cardinality(old) <= 1
          /\ reg = [s \in Slot |-> IF s[2] = Legacy /\ \E o \in old : o[1] = s[1]
                                   THEN (CHOOSE o \in old : TRUE)[2] ELSE None]
          /\ proc = [p \in Pid |-> IF \E o \in old : o[2] = p
                                   THEN [agent |-> (CHOOSE o \in old : TRUE)[1],
                                         key |-> Legacy, phase |-> "run",
                                         named |-> named]
                                   ELSE Free]
          /\ spawned = Cardinality(old)
  BY DEF RegistryInit
<1>2. IsFiniteSet(old)
  BY FS_Product, FS_Subset
<1>3. Cardinality(old) \in {0, 1}
  BY <1>1, <1>2, FS_CardinalityType
<1>4. \A p \in Pid : proc[p] = Free \/
         \E o \in old : proc[p] = [agent |-> o[1], key |-> Legacy, phase |-> "run",
                                    named |-> named]
  <2>1. \A o \in old : (CHOOSE x \in old : TRUE) \in old
    OBVIOUS
  <2>2. QED
    BY <1>1, <2>1
<1>5. proc \in [Pid -> ProcessRecord] /\ \A p \in Pid : ProcessShape(proc[p])
  <2>1. \A o \in old : o[1] \in Agent
    OBVIOUS
  <2>2. ASSUME NEW a \in Agent, NEW r,
               r = [agent |-> a, key |-> Legacy, phase |-> "run", named |-> named]
        PROVE  r \in ProcessRecord /\ ProcessShape(r)
    BY <2>2 DEF ProcessRecord, ProcessShape, Phases
  <2>3. \A p \in Pid : proc[p] \in ProcessRecord /\ ProcessShape(proc[p])
    BY <1>4, <2>1, <2>2, FreeFits
  <2>4. QED
    BY <1>1, <2>3
<1>6. cmd \in [Cmd -> CommandRecord] /\ \A c \in Cmd : CommandShape(cmd[c])
  BY NoCommandFits DEF RegistryInit
<1>7. reg \in [Slot -> Pid \cup {None}]
  <2>1. \A o \in old : (CHOOSE x \in old : TRUE) \in Agent \X Pid
    OBVIOUS
  <2>2. QED
    BY <1>1, <2>1
<1>8. Shapes
  BY <1>5, <1>6 DEF Shapes
<1>9. QED
  BY <1>1, <1>3, <1>5, <1>6, <1>7, <1>8, SlotOfAShape DEF RegistryInit, RegistryTypeOK

(* What the steps of a command leave in its record, and those of a process *)
(* in its own.                                                             *)
Commanded(c, r) == /\ r \in CommandRecord /\ CommandShape(r)
                   /\ cmd' = [cmd EXCEPT ![c] = r]
Run(p, r) == /\ r \in ProcessRecord /\ ProcessShape(r)
             /\ proc' = [proc EXCEPT ![p] = r]

LEMMA StartRecords ==
  ASSUME RegistryTypeOK, Shapes, NEW c \in Cmd
  PROVE  /\ \A a \in Agent, k \in State : StartDaemon(c, a, k) => \E r : Commanded(c, r)
         /\ ReadSlot(c) => \E r : Commanded(c, r)
         /\ JudgeStart(c) => \E r : Commanded(c, r)
         /\ SpawnDaemon(c) => \E r : Commanded(c, r)
         /\ RecordDaemon(c) => Commanded(c, NoCommand)
<1> USE RegistryAssumption DEF RegistryAssumption
<1>1. cmd[c] \in CommandRecord /\ CommandShape(cmd[c])
  BY DEF RegistryTypeOK, Shapes
<1>2. ASSUME NEW a \in Agent, NEW k \in State, StartDaemon(c, a, k)
      PROVE  \E r : Commanded(c, r)
  <2> DEFINE r == [NoCommand EXCEPT !.op = "start", !.agent = a,
                                    !.step = "read", !.slot = <<a, k>>]
  <2>1. <<a, k>> \in Slot /\ <<a, k>> \in Agent \X State
    BY DEF Slot
  <2>2. r \in CommandRecord /\ CommandShape(r)
    BY <2>1 DEF NoCommand, CommandRecord, CommandShape, Steps
  <2>3. cmd' = [cmd EXCEPT ![c] = r]
    BY <1>2 DEF StartDaemon
  <2>4. QED
    BY <2>2, <2>3 DEF Commanded
<1>3. ASSUME ReadSlot(c)
      PROVE  \E r : Commanded(c, r)
  <2>1. PICK v \in ReadFile(cmd[c].slot) :
          cmd' = [cmd EXCEPT ![c].pid = v, ![c].step = "judge"]
    BY <1>3 DEF ReadSlot
  <2>2. cmd[c].step = "read" /\ cmd[c].op = "start" /\ cmd[c].slot \in Slot
    BY <1>1, <1>3 DEF ReadSlot, CommandShape, CommandRecord, NoCommand, Slot
  <2>3. v \in Pid \cup {None, Torn}
    BY <2>2 DEF ReadFile, RegistryTypeOK
  <2> DEFINE r == [cmd[c] EXCEPT !.pid = v, !.step = "judge"]
  <2>4. r \in CommandRecord /\ CommandShape(r)
    BY <1>1, <2>2, <2>3 DEF CommandRecord, CommandShape, Steps
  <2>5. QED
    BY <2>1, <2>4 DEF Commanded, RegistryTypeOK
<1>4. ASSUME JudgeStart(c)
      PROVE  \E r : Commanded(c, r)
  <2> DEFINE r == [cmd[c] EXCEPT !.step = "spawn"]
  <2>1. cmd' = [cmd EXCEPT ![c] = r] \/ cmd' = [cmd EXCEPT ![c] = NoCommand]
    BY <1>4 DEF JudgeStart, RegistryTypeOK
  <2>2. r \in CommandRecord /\ CommandShape(r)
    BY <1>1, <1>4 DEF JudgeStart, CommandRecord, CommandShape, Steps
  <2>3. QED
    BY <2>1, <2>2, NoCommandFits DEF Commanded
<1>5. ASSUME SpawnDaemon(c)
      PROVE  \E r : Commanded(c, r)
  <2>1. PICK p \in Pid : cmd' = [cmd EXCEPT ![c].pid = p, ![c].step = "record"]
    BY <1>5 DEF SpawnDaemon, Spare
  <2>2. cmd[c].op = "start"
    BY <1>1, <1>5 DEF SpawnDaemon, CommandShape, CommandRecord, NoCommand
  <2> DEFINE r == [cmd[c] EXCEPT !.pid = p, !.step = "record"]
  <2>3. r \in CommandRecord /\ CommandShape(r)
    BY <1>1, <2>2 DEF CommandRecord, CommandShape, Steps
  <2>4. QED
    BY <2>1, <2>3 DEF Commanded, RegistryTypeOK
<1>6. ASSUME RecordDaemon(c)
      PROVE  Commanded(c, NoCommand)
  BY <1>6, NoCommandFits DEF RecordDaemon, Commanded
<1>7. QED
  BY <1>2, <1>3, <1>4, <1>5, <1>6

LEMMA ScanRecords ==
  ASSUME RegistryTypeOK, Shapes, NEW c \in Cmd
  PROVE  /\ \A a \in Agent : StartScan(c, a) => \E r : Commanded(c, r)
         /\ ScanRead(c) => \E r : Commanded(c, r)
         /\ ScanJudge(c) => \E r : Commanded(c, r)
         /\ Status(c) => Commanded(c, NoCommand)
         /\ \A scope \in State \cup {None} : Stop(c, scope) => \E r : Commanded(c, r)
         /\ StopOne(c) => \E r : Commanded(c, r)
         /\ Abort(c) => Commanded(c, NoCommand)
<1> USE RegistryAssumption DEF RegistryAssumption
<1>1. cmd[c] \in CommandRecord /\ CommandShape(cmd[c])
  BY DEF RegistryTypeOK, Shapes
<1>2. ASSUME NEW a \in Agent, StartScan(c, a)
      PROVE  \E r : Commanded(c, r)
  <2> DEFINE todo == Globbed(a) \cup {<<a, Legacy>>}
             r == [NoCommand EXCEPT !.op = "scan", !.agent = a, !.step = "scan",
                                    !.todo = todo]
  <2>1. todo \subseteq Slot /\ \A s \in todo : s[1] \in {a} \cup NamedAfter[a]
    BY PairIsASlot DEF Globbed
  <2> HIDE DEF todo
  <2>2. r \in CommandRecord /\ CommandShape(r)
    BY <2>1 DEF NoCommand, CommandRecord, CommandShape, Steps
  <2>3. cmd' = [cmd EXCEPT ![c] = r]
    BY <1>2 DEF StartScan, todo
  <2>4. QED
    BY <2>2, <2>3 DEF Commanded
<1>3. ASSUME ScanRead(c)
      PROVE  \E r : Commanded(c, r)
  <2>0. PICK s \in cmd[c].todo : \E v \in ReadFile(s) :
          cmd' = [cmd EXCEPT ![c].slot = s, ![c].pid = v, ![c].step = "judge"]
    BY <1>3 DEF ScanRead
  <2>1. PICK v \in ReadFile(s) :
          cmd' = [cmd EXCEPT ![c].slot = s, ![c].pid = v, ![c].step = "judge"]
    BY <2>0
  <2>2. cmd[c].step = "scan" /\ cmd[c].op = "scan" /\ s \in Slot
    BY <1>1, <1>3 DEF ScanRead, CommandShape, CommandRecord, NoCommand
  <2>3. v \in Pid \cup {None, Torn}
    BY <2>2 DEF ReadFile, RegistryTypeOK
  <2> DEFINE r == [cmd[c] EXCEPT !.slot = s, !.pid = v, !.step = "judge"]
  <2>4. r \in CommandRecord /\ CommandShape(r)
    BY <1>1, <2>2, <2>3 DEF CommandRecord, CommandShape, Steps
  <2>5. QED
    BY <2>1, <2>4 DEF Commanded, RegistryTypeOK
<1>4. ASSUME ScanJudge(c)
      PROVE  \E r : Commanded(c, r)
  <2> DEFINE next == [cmd[c] EXCEPT !.todo = @ \ {cmd[c].slot}, !.slot = None, !.pid = None,
                        !.step = IF cmd[c].todo = {cmd[c].slot} THEN "act" ELSE "scan"]
             more == [next EXCEPT !.found = @ \cup {<<cmd[c].slot, cmd[c].pid>>}]
  <2>1. cmd[c].op = "scan" /\ cmd[c].step = "judge" /\ cmd[c].slot \in Slot
    BY <1>1, <1>4 DEF ScanJudge, CommandShape, CommandRecord
  <2>2. next \in CommandRecord /\ CommandShape(next)
    BY <1>1, <2>1 DEF CommandRecord, CommandShape, Steps
  <2>3. cmd[c].pid \in Pid => more \in CommandRecord /\ CommandShape(more)
    <3>1. cmd[c].pid \in Pid => <<cmd[c].slot, cmd[c].pid>> \in Slot \X Pid
      BY <2>1
    <3>2. QED
      BY <1>1, <2>1, <3>1 DEF CommandRecord, CommandShape, Steps
  <2>4. \/ cmd' = [cmd EXCEPT ![c] = next]
        \/ cmd[c].pid \in Pid /\ cmd' = [cmd EXCEPT ![c] = more]
    BY <1>4 DEF ScanJudge
  <2>5. QED
    BY <2>2, <2>3, <2>4 DEF Commanded
<1>5. ASSUME Status(c)
      PROVE  Commanded(c, NoCommand)
  BY <1>5, NoCommandFits DEF Status, Commanded
<1>6. ASSUME NEW scope \in State \cup {None}, Stop(c, scope)
      PROVE  \E r : Commanded(c, r)
  <2> DEFINE chosen == Selected(cmd[c].found, scope)
             r == [cmd[c] EXCEPT !.op = "stop", !.found = chosen]
  <2>1. chosen \subseteq cmd[c].found
    BY DEF Selected
  <2>2. cmd' = [cmd EXCEPT ![c] = r] \/ cmd' = [cmd EXCEPT ![c] = NoCommand]
    BY <1>6 DEF Stop
  <2> HIDE DEF chosen
  <2>3. r \in CommandRecord /\ CommandShape(r)
    BY <1>1, <1>6, <2>1 DEF Stop, CommandRecord, CommandShape, Steps
  <2>4. QED
    BY <2>2, <2>3, NoCommandFits DEF Commanded
<1>7. ASSUME StopOne(c)
      PROVE  \E r : Commanded(c, r)
  <2>1. PICK f \in cmd[c].found :
          \/ cmd' = [cmd EXCEPT ![c] = NoCommand]
          \/ cmd' = [cmd EXCEPT ![c] = [cmd[c] EXCEPT !.found = @ \ {f}]]
    BY <1>7 DEF StopOne, RegistryTypeOK
  <2>2. cmd[c].op = "stop"
    BY <1>7 DEF StopOne
  <2> DEFINE r == [cmd[c] EXCEPT !.found = @ \ {f}]
  <2>3. r \in CommandRecord /\ CommandShape(r)
    BY <1>1, <2>2 DEF CommandRecord, CommandShape, Steps
  <2>4. QED
    BY <2>1, <2>3, NoCommandFits DEF Commanded
<1>8. ASSUME Abort(c)
      PROVE  Commanded(c, NoCommand)
  BY <1>8, NoCommandFits DEF Abort, Commanded
<1>9. QED
  BY <1>2, <1>3, <1>4, <1>5, <1>6, <1>7, <1>8

(* The record a start's child begins with.                                 *)
LEMMA ChildFits ==
  ASSUME NEW a \in Agent, NEW k \in State, NEW named \in BOOLEAN
  PROVE  LET r == [agent |-> a, key |-> ChildKey(k), phase |-> "boot", named |-> named]
         IN  r \in ProcessRecord /\ ProcessShape(r)
<1>1. ChildKey(k) \in Explicit \cup {None}
  BY DEF ChildKey, State
<1> DEFINE r == [agent |-> a, key |-> ChildKey(k), phase |-> "boot", named |-> named]
<1>2. ChildKey(k) \in State \cup {Legacy, None}
  BY <1>1 DEF State
<1>3. r \in ProcessRecord /\ ProcessShape(r)
  BY <1>1, <1>2 DEF ProcessRecord, ProcessShape, Phases
<1>4. QED
  BY <1>3

LEMMA ProcessRecords ==
  ASSUME RegistryTypeOK, Shapes, NEW p \in Pid
  PROVE  /\ Register(p) => \E r : Run(p, r)
         /\ Finish(p) => \E r : Run(p, r)
         /\ LeaveRead(p) => \E r : Run(p, r)
         /\ LeaveUnlink(p) => Run(p, Free)
         /\ Crash(p) => Run(p, Free)
         /\ OtherProgram(p) => \E r : Run(p, r)
<1> USE RegistryAssumption DEF RegistryAssumption
<1>1. proc[p] \in ProcessRecord /\ ProcessShape(proc[p])
  BY DEF RegistryTypeOK, Shapes
<1>2. ASSUME Register(p)
      PROVE  \E r : Run(p, r)
  <2>1. PICK k \in IF proc[p].key = None THEN Implicit ELSE {proc[p].key} :
           proc' = [proc EXCEPT ![p].key = k, ![p].phase = "run"]
    BY <1>2 DEF Register
  <2> DEFINE r == [proc[p] EXCEPT !.key = k, !.phase = "run"]
  <2>2. proc[p].phase = "boot"
    BY <1>2 DEF Register
  <2>3. proc[p].agent \in Agent /\ k \in State
    BY <1>1, <2>1, <2>2 DEF ProcessShape, State
  <2>4. r \in ProcessRecord /\ ProcessShape(r)
    BY <1>1, <2>3 DEF ProcessRecord, ProcessShape, Phases
  <2>5. QED
    BY <2>1, <2>4 DEF Run, RegistryTypeOK
<1>3. ASSUME Finish(p)
      PROVE  \E r : Run(p, r)
  <2> DEFINE r == [proc[p] EXCEPT !.phase = "closing"]
  <2>1. r \in ProcessRecord /\ ProcessShape(r)
    BY <1>1, <1>3 DEF Finish, ProcessRecord, ProcessShape, Phases
  <2>2. QED
    BY <1>3, <2>1 DEF Finish, Run, RegistryTypeOK
<1>4. ASSUME LeaveRead(p)
      PROVE  \E r : Run(p, r)
  <2> DEFINE r == [proc[p] EXCEPT !.phase = "leaving"]
  <2>1. r \in ProcessRecord /\ ProcessShape(r)
    BY <1>1, <1>4 DEF LeaveRead, ProcessRecord, ProcessShape, Phases
  <2>2. proc' = [proc EXCEPT ![p] = r] \/ proc' = [proc EXCEPT ![p] = Free]
    BY <1>4 DEF LeaveRead
  <2>3. QED
    BY <2>1, <2>2, FreeFits DEF Run
<1>5. ASSUME LeaveUnlink(p)
      PROVE  Run(p, Free)
  BY <1>5, FreeFits DEF LeaveUnlink, Run
<1>6. ASSUME Crash(p)
      PROVE  Run(p, Free)
  BY <1>6, FreeFits DEF Crash, Run
<1>7. ASSUME OtherProgram(p)
      PROVE  \E r : Run(p, r)
  BY <1>7, FreeFits DEF OtherProgram, Run
<1>8. QED
  BY <1>2, <1>3, <1>4, <1>5, <1>6, <1>7

(* A stop's SIGTERM, and a spawn, leave records that fit.                  *)
LEMMA SigtermFits ==
  ASSUME RegistryTypeOK, Shapes, NEW p \in Pid
  PROVE  AfterSigterm(p) \in ProcessRecord /\ ProcessShape(AfterSigterm(p))
<1>1. proc[p] \in ProcessRecord /\ ProcessShape(proc[p])
  BY DEF RegistryTypeOK, Shapes
<1>2. QED
  BY <1>1, FreeFits DEF AfterSigterm, ProcessRecord, ProcessShape, Phases

LEMMA ShapeHasSlot ==
  ASSUME NEW r, ProcessShape(r), r.phase \in {"run", "closing", "leaving"}
  PROVE  <<r.agent, r.key>> \in Slot
  BY DEF ProcessShape, Slot

(* What a command's step does to the processes.                            *)
LEMMA CommandProcs ==
  ASSUME RegistryTypeOK, Shapes, NEW c \in Cmd, Command(c)
  PROVE  UNCHANGED proc \/ \E p \in Pid : \E r : Run(p, r)
<1>1. CASE SpawnDaemon(c)
  <2>1. PICK p \in Spare :
          proc' = [proc EXCEPT ![p] = [agent |-> cmd[c].agent, phase |-> "boot",
                                       key |-> ChildKey(cmd[c].slot[2]),
                                       named |-> TRUE]]
    BY <1>1 DEF SpawnDaemon
  <2>2. cmd[c].agent \in Agent /\ cmd[c].slot[2] \in State
    <3>1. cmd[c] \in CommandRecord /\ CommandShape(cmd[c]) /\ cmd[c].step = "spawn"
      BY <1>1 DEF RegistryTypeOK, Shapes, SpawnDaemon
    <3>2. cmd[c].op = "start"
      BY <3>1 DEF CommandShape, CommandRecord, NoCommand
    <3>3. QED
      BY <3>1, <3>2 DEF CommandShape
  <2>3. p \in Pid
    BY DEF Spare
  <2>4. QED
    BY <2>1, <2>2, <2>3, ChildFits DEF Run
<1>2. CASE StopOne(c)
  <2>1. PICK f \in cmd[c].found :
          UNCHANGED proc \/ proc' = [proc EXCEPT ![f[2]] = AfterSigterm(f[2])]
    BY <1>2 DEF StopOne
  <2>2. f[2] \in Pid
    BY DEF RegistryTypeOK, CommandRecord
  <2>3. QED
    BY <2>1, <2>2, SigtermFits DEF Run
<1>3. QED
  BY <1>1, <1>2 DEF Command, StartDaemon, StartScan, ReadSlot, JudgeStart, RecordDaemon,
       ScanRead, ScanJudge, Status, Stop, Abort

LEMMA CommandRegs ==
  ASSUME RegistryTypeOK, Shapes, NEW c \in Cmd, Command(c)
  PROVE  reg' \in [Slot -> Pid \cup {None}] /\ excuse' \subseteq Slot
<1>1. cmd[c] \in CommandRecord /\ CommandShape(cmd[c])
  BY DEF RegistryTypeOK, Shapes
<1>2. CASE RecordDaemon(c)
  <2>1. cmd[c].op = "start" /\ cmd[c].pid \in Pid
    BY <1>1, <1>2 DEF RecordDaemon, CommandShape, CommandRecord, NoCommand
  <2>2. QED
    BY <1>2, <2>1 DEF RecordDaemon, RegistryTypeOK
<1>3. CASE JudgeStart(c)
  <2>1. cmd[c].slot \in Slot
    BY <1>1, <1>3 DEF JudgeStart, CommandShape, Slot
  <2>2. QED
    BY <1>3, <2>1 DEF JudgeStart, RegistryTypeOK
<1>4. CASE ScanJudge(c)
  <2>1. cmd[c].slot \in Slot
    BY <1>1, <1>4 DEF ScanJudge, CommandShape, CommandRecord
  <2>2. QED
    BY <1>4, <2>1 DEF ScanJudge, RegistryTypeOK
<1>5. CASE ReadSlot(c)
  <2>1. cmd[c].op = "start"
    BY <1>1, <1>5 DEF ReadSlot, CommandShape, CommandRecord, NoCommand
  <2>2. cmd[c].slot \in Slot
    BY <1>1, <2>1 DEF CommandShape, Slot
  <2>3. QED
    BY <1>5, <2>2 DEF ReadSlot, RegistryTypeOK
<1>6. ASSUME NEW a \in Agent, NEW k \in State, StartDaemon(c, a, k)
      PROVE  reg' \in [Slot -> Pid \cup {None}] /\ excuse' \subseteq Slot
  <2>1. <<a, k>> \in Slot
    BY DEF Slot
  <2>2. QED
    BY <1>6, <2>1 DEF StartDaemon, RegistryTypeOK
<1>7. CASE StopOne(c)
  BY <1>7 DEF StopOne, RegistryTypeOK
<1>8. QED
  BY <1>2, <1>3, <1>4, <1>5, <1>6, <1>7
     DEF Command, StartScan, SpawnDaemon, ScanRead, Status, Stop, Abort, RegistryTypeOK

LEMMA ProcessRegs ==
  ASSUME RegistryTypeOK, Shapes, NEW p \in Pid, Process(p)
  PROVE  reg' \in [Slot -> Pid \cup {None}] /\ excuse' \subseteq Slot
<1>1. CASE Register(p)
  <2>1. PICK k \in IF proc[p].key = None THEN Implicit ELSE {proc[p].key} :
          LET s == <<proc[p].agent, k>> IN
          /\ reg' = [reg EXCEPT ![s] = p]
          /\ excuse' = IF Uninvited(p, s) THEN excuse \cup {s} ELSE excuse
    BY <1>1 DEF Register
  <2>2. <<proc[p].agent, k>> \in Slot
    BY <1>1, <2>1 DEF Register, Shapes, ProcessShape, Slot, State
  <2>3. QED
    BY <2>1, <2>2 DEF RegistryTypeOK
<1>2. CASE LeaveUnlink(p)
  <2>1. SlotOf(p) \in Slot
    BY <1>2 DEF LeaveUnlink, RegistryTypeOK
  <2>2. QED
    BY <1>2, <2>1 DEF LeaveUnlink, RegistryTypeOK
<1>3. QED
  BY <1>1, <1>2 DEF Process, Finish, LeaveRead, Crash, OtherProgram, RegistryTypeOK

LEMMA RegistryStepTypes == RegistryTypeOK /\ Shapes /\ [RegistryNext]_registryVars
                             => RegistryTypeOK' /\ Shapes'
<1> SUFFICES ASSUME RegistryTypeOK, Shapes, [RegistryNext]_registryVars
             PROVE  RegistryTypeOK' /\ Shapes'
  OBVIOUS
<1> USE RegistryAssumption DEF RegistryAssumption
<1>1. ASSUME NEW c \in Cmd, Command(c)
      PROVE  RegistryTypeOK' /\ Shapes'
  <2>1. \E r : Commanded(c, r)
    BY <1>1, StartRecords, ScanRecords DEF Command
  <2>2. cmd' \in [Cmd -> CommandRecord] /\ \A d \in Cmd : CommandShape(cmd'[d])
    BY <2>1, CommandTakes DEF Commanded, RegistryTypeOK, Shapes
  <2>3. proc' \in [Pid -> ProcessRecord] /\ \A p \in Pid : ProcessShape(proc'[p])
    BY <1>1, CommandProcs, ProcessTakes DEF Run, RegistryTypeOK, Shapes
  <2> DEFINE more == spawned < MaxSpawns /\ spawned' = spawned + 1
             again == typed < MaxCommands /\ typed' = typed + 1
  <2>4. (more \/ spawned' = spawned) /\ (again \/ typed' = typed)
    <3>1. (\E a \in Agent, k \in State : StartDaemon(c, a, k)) => again /\ spawned' = spawned
      BY DEF StartDaemon
    <3>2. (\E a \in Agent : StartScan(c, a)) => again /\ spawned' = spawned
      BY DEF StartScan
    <3>3. SpawnDaemon(c) => more /\ typed' = typed
      BY DEF SpawnDaemon
    <3>4. (\/ ReadSlot(c) \/ JudgeStart(c) \/ RecordDaemon(c)
           \/ ScanRead(c) \/ ScanJudge(c) \/ Status(c) \/ StopOne(c) \/ Abort(c)
           \/ \E scope \in State \cup {None} : Stop(c, scope))
             => spawned' = spawned /\ typed' = typed
      BY DEF ReadSlot, JudgeStart, RecordDaemon, ScanRead, ScanJudge, Status, Stop,
         StopOne, Abort
    <3> HIDE DEF more, again
    <3>5. QED
      BY <1>1, <3>1, <3>2, <3>3, <3>4 DEF Command
  <2>5. spawned' \in 0..MaxSpawns /\ typed' \in 0..MaxCommands
    BY <2>4 DEF RegistryTypeOK
  <2>6. Shapes'
    BY <2>2, <2>3 DEF Shapes
  <2>7. \A p \in Pid : proc'[p].phase \in {"run", "closing", "leaving"} => SlotOf(p)' \in Slot
    BY <2>3, ShapeHasSlot DEF SlotOf
  <2>8. QED
    BY <1>1, <2>2, <2>3, <2>5, <2>6, <2>7, CommandRegs DEF RegistryTypeOK
<1>2. ASSUME NEW a \in Agent, NEW k \in State, Foreground(a, k)
      PROVE  RegistryTypeOK' /\ Shapes'
  <2>1. PICK p \in Spare, named \in BOOLEAN :
          proc' = [proc EXCEPT ![p] = [agent |-> a, phase |-> "boot",
                                       key |-> ChildKey(k), named |-> named]]
    BY <1>2 DEF Foreground
  <2> DEFINE r == [agent |-> a, phase |-> "boot", key |-> ChildKey(k), named |-> named]
  <2>0. Run(p, r)
    BY <2>1, ChildFits DEF Run
  <2>2. p \in Pid
    BY DEF Spare
  <2>3. proc' \in [Pid -> ProcessRecord] /\ \A q \in Pid : ProcessShape(proc'[q])
    BY <2>0, <2>2, ProcessTakes DEF Run, RegistryTypeOK, Shapes
  <2>4. Shapes'
    BY <1>2, <2>3 DEF Shapes, Foreground
  <2>5. \A q \in Pid : proc'[q].phase \in {"run", "closing", "leaving"} => SlotOf(q)' \in Slot
    BY <2>3, ShapeHasSlot DEF SlotOf
  <2>6. QED
    BY <1>2, <2>3, <2>4, <2>5 DEF Foreground, RegistryTypeOK
<1>3. ASSUME NEW p \in Pid, Process(p)
      PROVE  RegistryTypeOK' /\ Shapes'
  <2>1. UNCHANGED <<cmd, spawned, typed>>
    BY <1>3 DEF Process, Register, Finish, LeaveRead, LeaveUnlink, Crash, OtherProgram
  <2>2. \E r : Run(p, r)
    BY <1>3, ProcessRecords DEF Process
  <2>3. proc' \in [Pid -> ProcessRecord] /\ \A q \in Pid : ProcessShape(proc'[q])
    BY <2>2, ProcessTakes DEF Run, RegistryTypeOK, Shapes
  <2>4. Shapes'
    BY <2>1, <2>3 DEF Shapes
  <2>5. \A q \in Pid : proc'[q].phase \in {"run", "closing", "leaving"} => SlotOf(q)' \in Slot
    BY <2>3, ShapeHasSlot DEF SlotOf
  <2>6. QED
    BY <1>3, <2>1, <2>3, <2>4, <2>5, ProcessRegs DEF RegistryTypeOK
<1>4. CASE UNCHANGED registryVars
  BY <1>4 DEF registryVars, RegistryTypeOK, Shapes, SlotOf
<1>5. QED
  BY <1>1, <1>2, <1>3, <1>4 DEF RegistryNext

(* Type correctness, and the shapes the steps rest on: a start keeps one   *)
(* slot of its own agent, a registered watcher has a slot.                 *)
THEOREM RegistryTypeCorrect == RegistrySpec => [](RegistryTypeOK /\ Shapes)
  BY RegistryInitTypes, RegistryStepTypes, PTL DEF RegistrySpec

-----------------------------------------------------------------------------
(* What a command's step does to its own record, and that it touches no    *)
(* other.                                                                  *)
LEMMA OthersStay ==
  ASSUME RegistryTypeOK, Shapes, NEW c \in Cmd, Command(c), NEW d \in Cmd, d # c
  PROVE  cmd'[d] = cmd[d]
<1>1. \E r : Commanded(c, r)
  BY StartRecords, ScanRecords DEF Command
<1>2. QED
  BY <1>1 DEF Commanded, RegistryTypeOK

(* What is left of a scan's record when it has judged a slot.              *)
LEMMA Judged ==
  ASSUME RegistryTypeOK, Shapes, NEW c \in Cmd, ScanJudge(c)
  PROVE  /\ cmd'[c].op = "scan" /\ cmd'[c].step # "judge" /\ cmd'[c].agent = cmd[c].agent
         /\ \/ cmd'[c].found = cmd[c].found
            \/ /\ cmd[c].pid \in Pid /\ PidIsWatcher(cmd[c].pid, cmd[c].agent)
               /\ cmd'[c].found = cmd[c].found \cup {<<cmd[c].slot, cmd[c].pid>>}
               /\ UNCHANGED reg
<1> DEFINE after == [cmd[c] EXCEPT !.todo = @ \ {cmd[c].slot}, !.slot = None, !.pid = None,
                       !.step = IF cmd[c].todo = {cmd[c].slot} THEN "act" ELSE "scan"]
           more == [after EXCEPT !.found = @ \cup {<<cmd[c].slot, cmd[c].pid>>}]
<1>1. cmd[c] \in CommandRecord /\ DOMAIN cmd = Cmd
  BY DEF RegistryTypeOK
<1>2. cmd[c].op = "scan"
  BY DEF ScanJudge
<1>3. \/ cmd' = [cmd EXCEPT ![c] = after]
      \/ /\ cmd[c].pid \in Pid /\ PidIsWatcher(cmd[c].pid, cmd[c].agent)
         /\ cmd' = [cmd EXCEPT ![c] = more] /\ UNCHANGED reg
  BY DEF ScanJudge
<1>4. /\ after.op = "scan" /\ after.step # "judge" /\ after.agent = cmd[c].agent
      /\ after.found = cmd[c].found
      /\ more.op = "scan" /\ more.step # "judge" /\ more.agent = cmd[c].agent
      /\ more.found = cmd[c].found \cup {<<cmd[c].slot, cmd[c].pid>>}
  BY <1>1, <1>2 DEF CommandRecord
<1> HIDE DEF after, more
<1>5. QED
  BY <1>1, <1>3, <1>4

(* Where the pids that a scan found come from.                             *)
Finds(c) ==
  /\ ScanJudge(c) /\ cmd[c].pid \in Pid /\ PidIsWatcher(cmd[c].pid, cmd[c].agent)
  /\ cmd'[c].found = cmd[c].found \cup {<<cmd[c].slot, cmd[c].pid>>}
  /\ cmd'[c].agent = cmd[c].agent /\ UNCHANGED reg

LEMMA FoundSteps ==
  ASSUME RegistryTypeOK, Shapes, NEW c \in Cmd, Command(c)
  PROVE  \/ Finds(c)
         \/ cmd'[c].found \subseteq cmd[c].found /\ cmd'[c].agent = cmd[c].agent
         \/ cmd'[c].found = {}
<1>1. cmd[c] \in CommandRecord /\ DOMAIN cmd = Cmd
  BY DEF RegistryTypeOK
<1>2. CASE \E a \in Agent, k \in State : StartDaemon(c, a, k)
  BY <1>1, <1>2 DEF StartDaemon, NoCommand
<1>3. CASE \E a \in Agent : StartScan(c, a)
  BY <1>1, <1>3 DEF StartScan, NoCommand
<1>4. CASE ReadSlot(c) \/ JudgeStart(c) \/ SpawnDaemon(c) \/ RecordDaemon(c)
  <2>1. CASE ReadSlot(c)
    BY <1>1, <2>1 DEF ReadSlot, CommandRecord
  <2>2. CASE JudgeStart(c)
    BY <1>1, <2>2 DEF JudgeStart, CommandRecord, NoCommand
  <2>3. CASE SpawnDaemon(c)
    BY <1>1, <2>3 DEF SpawnDaemon, CommandRecord
  <2>4. CASE RecordDaemon(c)
    BY <1>1, <2>4 DEF RecordDaemon, NoCommand
  <2>5. QED
    BY <1>4, <2>1, <2>2, <2>3, <2>4
<1>5. CASE ScanRead(c)
  BY <1>1, <1>5 DEF ScanRead, CommandRecord
<1>6. CASE ScanJudge(c)
  BY <1>6, Judged DEF Finds
<1>7. CASE \E scope \in State \cup {None} : Stop(c, scope)
  BY <1>1, <1>7 DEF Stop, Selected, CommandRecord, NoCommand
<1>8. CASE StopOne(c)
  BY <1>1, <1>8 DEF StopOne, CommandRecord, NoCommand
<1>9. CASE Status(c) \/ Abort(c)
  BY <1>1, <1>9 DEF Status, Abort, NoCommand
<1>10. QED
  BY <1>2, <1>3, <1>4, <1>5, <1>6, <1>7, <1>8, <1>9 DEF Command

(* A scan that judges has just read, and nothing was written meanwhile in  *)
(* that step.                                                              *)
LEMMA ScanSteps ==
  ASSUME RegistryTypeOK, Shapes, NEW c \in Cmd, Command(c),
         cmd'[c].op = "scan", cmd'[c].step = "judge"
  PROVE  cmd'[c].slot \in Slot /\ cmd'[c].pid \in ReadFile(cmd'[c].slot) /\ UNCHANGED reg
<1>1. cmd[c] \in CommandRecord /\ DOMAIN cmd = Cmd /\ CommandShape(cmd[c])
  BY DEF RegistryTypeOK, Shapes
<1>2. CASE \E a \in Agent, k \in State : StartDaemon(c, a, k)
  BY <1>1, <1>2 DEF StartDaemon, NoCommand
<1>3. CASE \E a \in Agent : StartScan(c, a)
  BY <1>1, <1>3 DEF StartScan, NoCommand
<1>4. CASE ReadSlot(c) \/ JudgeStart(c) \/ SpawnDaemon(c) \/ RecordDaemon(c)
  <2>1. cmd[c].op # "scan"
    BY <1>1, <1>4 DEF ReadSlot, JudgeStart, SpawnDaemon, RecordDaemon, CommandShape
  <2>2. CASE ReadSlot(c)
    BY <1>1, <2>1, <2>2 DEF ReadSlot, CommandRecord
  <2>3. CASE JudgeStart(c)
    BY <1>1, <2>1, <2>3 DEF JudgeStart, CommandRecord, NoCommand
  <2>4. CASE SpawnDaemon(c)
    BY <1>1, <2>1, <2>4 DEF SpawnDaemon, CommandRecord
  <2>5. CASE RecordDaemon(c)
    BY <1>1, <2>5 DEF RecordDaemon, NoCommand
  <2>6. QED
    BY <1>4, <2>2, <2>3, <2>4, <2>5
<1>5. CASE ScanRead(c)
  BY <1>1, <1>5 DEF ScanRead, CommandRecord
<1>6. ~ScanJudge(c)
  BY Judged
<1>7. CASE \E scope \in State \cup {None} : Stop(c, scope)
  BY <1>1, <1>7 DEF Stop, CommandRecord, NoCommand
<1>8. CASE StopOne(c)
  BY <1>1, <1>8 DEF StopOne, CommandRecord, NoCommand
<1>9. CASE Status(c) \/ Abort(c)
  BY <1>1, <1>9 DEF Status, Abort, NoCommand
<1>10. QED
  BY <1>2, <1>3, <1>4, <1>5, <1>6, <1>7, <1>8, <1>9 DEF Command

(* A start is new, or its record goes one step on in its slot.             *)
Goes(c, from, to) ==
  /\ cmd[c].op = "start" /\ cmd[c].step = from /\ cmd'[c].step = to
  /\ cmd'[c].slot = cmd[c].slot

LEMMA StartSteps ==
  ASSUME RegistryTypeOK, Shapes, NEW c \in Cmd, Command(c), cmd'[c].op = "start"
  PROVE  \/ cmd'[c].step = "read" /\ cmd[c] = NoCommand
            /\ \E a \in Agent, k \in State : StartDaemon(c, a, k) /\ cmd'[c].slot = <<a, k>>
         \/ ReadSlot(c) /\ Goes(c, "read", "judge")
            /\ cmd'[c].pid \in ReadFile(cmd[c].slot)
            /\ excuse' = excuse \cup {s \in {cmd[c].slot} : cmd'[c].pid = Torn}
         \/ JudgeStart(c) /\ Goes(c, "judge", "spawn")
         \/ SpawnDaemon(c) /\ Goes(c, "spawn", "record")
<1>1. cmd[c] \in CommandRecord /\ DOMAIN cmd = Cmd /\ CommandShape(cmd[c])
  BY DEF RegistryTypeOK, Shapes
<1>2. ASSUME NEW a \in Agent, NEW k \in State, StartDaemon(c, a, k)
      PROVE  cmd'[c].step = "read" /\ cmd[c] = NoCommand /\ cmd'[c].slot = <<a, k>>
  BY <1>1, <1>2 DEF StartDaemon, NoCommand
<1>3. ~\E a \in Agent : StartScan(c, a)
  BY <1>1 DEF StartScan, NoCommand
<1>4. CASE ReadSlot(c)
  <2>1. cmd[c].op = "start" /\ cmd[c].step = "read"
    BY <1>1, <1>4 DEF ReadSlot, CommandShape, CommandRecord, NoCommand
  <2>2. PICK v \in ReadFile(cmd[c].slot) :
          /\ cmd' = [cmd EXCEPT ![c].pid = v, ![c].step = "judge"]
          /\ excuse' = excuse \cup {s \in {cmd[c].slot} : v = Torn}
    BY <1>4 DEF ReadSlot
  <2>3. cmd'[c].pid = v /\ cmd'[c].step = "judge" /\ cmd'[c].slot = cmd[c].slot
    BY <1>1, <2>2 DEF CommandRecord
  <2>4. QED
    BY <1>4, <2>1, <2>2, <2>3 DEF Goes
<1>5. CASE JudgeStart(c)
  BY <1>1, <1>5 DEF JudgeStart, CommandRecord, NoCommand, Goes
<1>6. CASE SpawnDaemon(c)
  <2>1. cmd[c].op = "start" /\ cmd[c].step = "spawn"
    BY <1>1, <1>6 DEF SpawnDaemon, CommandShape, CommandRecord, NoCommand
  <2>2. PICK p \in Spare : cmd' = [cmd EXCEPT ![c].pid = p, ![c].step = "record"]
    BY <1>6 DEF SpawnDaemon
  <2>3. cmd'[c].step = "record" /\ cmd'[c].slot = cmd[c].slot
    BY <1>1, <2>2 DEF CommandRecord
  <2>4. QED
    BY <1>6, <2>1, <2>3 DEF Goes
<1>7. ~RecordDaemon(c) /\ ~Status(c) /\ ~Abort(c)
  BY <1>1 DEF RecordDaemon, Status, Abort, NoCommand
<1>8. ~ScanRead(c)
  <2>1. ScanRead(c) => cmd[c].op # "start"
    BY <1>1 DEF ScanRead, CommandShape
  <2>2. ScanRead(c) => cmd'[c].op = cmd[c].op
    BY <1>1 DEF ScanRead, CommandRecord
  <2>3. QED
    BY <2>1, <2>2
<1>9. ~ScanJudge(c)
  BY Judged
<1>10. ASSUME NEW scope \in State \cup {None}, Stop(c, scope)
       PROVE  FALSE
  <2>1. \/ cmd'[c] = NoCommand
        \/ cmd'[c] = [cmd[c] EXCEPT !.op = "stop", !.found = Selected(cmd[c].found, scope)]
    BY <1>1, <1>10 DEF Stop
  <2> DEFINE chosen == Selected(cmd[c].found, scope)
  <2> HIDE DEF chosen
  <2>2. [cmd[c] EXCEPT !.op = "stop", !.found = chosen].op = "stop"
    BY <1>1 DEF CommandRecord
  <2>3. NoCommand.op # "start"
    BY DEF NoCommand
  <2>4. QED
    BY <2>1, <2>2, <2>3 DEF chosen
<1>11. ~StopOne(c)
  BY <1>1 DEF StopOne, CommandRecord, NoCommand
<1>12. QED
  BY <1>2, <1>3, <1>4, <1>5, <1>6, <1>7, <1>8, <1>9, <1>10, <1>11 DEF Command

-----------------------------------------------------------------------------
(* A pid that a command holds changes hands in no step: what runs under it *)
(* stays the same agent's, or ends.                                        *)
LEMMA HeldPidsKeep ==
  ASSUME RegistryTypeOK, Shapes, [RegistryNext]_registryVars, NEW q \in Pid, q \in Held
  PROVE  proc'[q] = Free \/ (proc[q] # Free /\ proc'[q].agent = proc[q].agent)
<1> DEFINE Kept == proc'[q] = Free \/ (proc[q] # Free /\ proc'[q].agent = proc[q].agent)
<1>1. proc[q] \in ProcessRecord /\ DOMAIN proc = Pid /\ q \notin Spare
  BY DEF RegistryTypeOK, Spare
<1>2. UNCHANGED proc => Kept
  OBVIOUS
<1>3. ASSUME NEW c \in Cmd, Command(c)
      PROVE  Kept
  <2>1. CASE SpawnDaemon(c)
    BY <1>1, <1>2, <2>1 DEF SpawnDaemon
  <2>2. CASE StopOne(c)
    <3>1. UNCHANGED proc \/ \E f \in cmd[c].found :
            proc[f[2]] # Free /\ proc' = [proc EXCEPT ![f[2]] = AfterSigterm(f[2])]
      BY <2>2 DEF StopOne
    <3>2. AfterSigterm(q) = Free \/ AfterSigterm(q).agent = proc[q].agent
      BY <1>1 DEF AfterSigterm, ProcessRecord
    <3>3. QED
      BY <1>1, <3>1, <3>2
  <2>3. QED
    BY <1>2, <1>3, <2>1, <2>2 DEF Command, StartDaemon, StartScan, ReadSlot, JudgeStart,
       RecordDaemon, ScanRead, ScanJudge, Status, Stop, Abort
<1>4. ASSUME NEW a \in Agent, NEW k \in State, Foreground(a, k)
      PROVE  Kept
  BY <1>1, <1>2, <1>4 DEF Foreground
<1>5. ASSUME NEW p \in Pid, Process(p)
      PROVE  Kept
  <2>1. CASE Register(p)
    <3>1. PICK k : proc' = [proc EXCEPT ![p].key = k, ![p].phase = "run"]
      BY <2>1 DEF Register
    <3>2. p = q => proc[q] # Free
      BY <2>1 DEF Register, Free
    <3>3. QED
      BY <1>1, <3>1, <3>2 DEF ProcessRecord
  <2>2. CASE Finish(p)
    <3>1. p = q => proc[q] # Free
      BY <2>2 DEF Finish, Free
    <3>2. proc' = [proc EXCEPT ![p].phase = "closing"]
      BY <2>2 DEF Finish
    <3>3. QED
      BY <1>1, <3>1, <3>2 DEF ProcessRecord
  <2>3. CASE LeaveRead(p)
    <3>1. p = q => proc[q] # Free
      BY <2>3 DEF LeaveRead, Free
    <3>2. \/ proc' = [proc EXCEPT ![p] = Free]
          \/ proc' = [proc EXCEPT ![p] = [proc[p] EXCEPT !.phase = "leaving"]]
      BY <2>3 DEF LeaveRead
    <3>3. QED
      BY <1>1, <3>1, <3>2 DEF ProcessRecord
  <2>4. CASE LeaveUnlink(p) \/ Crash(p)
    BY <1>1, <2>4 DEF LeaveUnlink, Crash
  <2>5. CASE OtherProgram(p)
    BY <1>1, <2>5 DEF OtherProgram
  <2>6. QED
    BY <1>5, <2>1, <2>2, <2>3, <2>4, <2>5 DEF Process
<1>6. CASE UNCHANGED registryVars
  BY <1>2, <1>6 DEF registryVars
<1>7. QED
  BY <1>3, <1>4, <1>5, <1>6 DEF RegistryNext

(* Only a registration makes a process serve a slot.                       *)
LEMMA ServingShrinks ==
  ASSUME RegistryTypeOK, Shapes, [RegistryNext]_registryVars,
         ~\E p \in Pid : Register(p), NEW s \in Slot
  PROVE  Serving(s)' \subseteq Serving(s)
<1> DEFINE Shrinks == \A q \in Pid :
      proc'[q].phase \in {"run", "closing"} =>
         /\ proc[q].phase \in {"run", "closing"}
         /\ proc'[q].agent = proc[q].agent /\ proc'[q].key = proc[q].key
<1>1. proc \in [Pid -> ProcessRecord] /\ Free.phase = "free" /\ Stranger.phase = "stranger"
  BY DEF RegistryTypeOK, Free, Stranger
<1>2. UNCHANGED proc => Shrinks
  OBVIOUS
<1>3. ASSUME NEW c \in Cmd, Command(c)
      PROVE  Shrinks
  <2>1. CASE SpawnDaemon(c)
    BY <1>1, <2>1 DEF SpawnDaemon
  <2>2. CASE StopOne(c)
    <3>1. UNCHANGED proc \/ \E f \in cmd[c].found :
            proc' = [proc EXCEPT ![f[2]] = AfterSigterm(f[2])]
      BY <2>2 DEF StopOne
    <3>2. \A p \in Pid : AfterSigterm(p) = Free \/
             /\ proc[p].phase = "run"
             /\ AfterSigterm(p).agent = proc[p].agent /\ AfterSigterm(p).key = proc[p].key
      BY <1>1 DEF AfterSigterm, ProcessRecord
    <3>3. QED
      BY <1>1, <1>2, <3>1, <3>2
  <2>3. QED
    BY <1>2, <1>3, <2>1, <2>2 DEF Command, StartDaemon, StartScan, ReadSlot, JudgeStart,
       RecordDaemon, ScanRead, ScanJudge, Status, Stop, Abort
<1>4. ASSUME NEW a \in Agent, NEW k \in State, Foreground(a, k)
      PROVE  Shrinks
  BY <1>1, <1>4 DEF Foreground
<1>5. ASSUME NEW p \in Pid, Process(p)
      PROVE  Shrinks
  <2>2. CASE Finish(p)
    BY <1>1, <2>2 DEF Finish, ProcessRecord
  <2>3. CASE LeaveRead(p)
    BY <1>1, <2>3 DEF LeaveRead, ProcessRecord
  <2>4. CASE LeaveUnlink(p) \/ Crash(p)
    BY <1>1, <2>4 DEF LeaveUnlink, Crash
  <2>5. CASE OtherProgram(p)
    BY <1>1, <2>5 DEF OtherProgram
  <2>6. QED
    BY <1>5, <2>2, <2>3, <2>4, <2>5 DEF Process
<1>6. UNCHANGED registryVars => Shrinks
  BY <1>2 DEF registryVars
<1> HIDE DEF Shrinks
<1>7. Shrinks
  BY <1>3, <1>4, <1>5, <1>6 DEF RegistryNext
<1>8. QED
  BY <1>7 DEF Serving, SlotOf, Shrinks

(* Nobody writes a legacy slot's file.                                     *)
LEMMA LegacyRegs ==
  ASSUME RegistryTypeOK, Shapes, [RegistryNext]_registryVars, NEW s \in Slot, s[2] = Legacy
  PROVE  reg'[s] \in {None, reg[s]}
<1> USE RegistryAssumption DEF RegistryAssumption
<1>1. reg \in [Slot -> Pid \cup {None}]
  BY DEF RegistryTypeOK
<1>2. ASSUME NEW c \in Cmd, Command(c)
      PROVE  reg'[s] \in {None, reg[s]}
  <2>1. CASE RecordDaemon(c)
    <3>1. cmd[c].op = "start" /\ CommandShape(cmd[c])
      BY <2>1 DEF RecordDaemon, RegistryTypeOK, Shapes, CommandShape, CommandRecord, NoCommand
    <3>2. cmd[c].slot # s
      BY <3>1 DEF CommandShape
    <3>3. QED
      BY <1>1, <2>1, <3>2 DEF RecordDaemon
  <2>2. CASE JudgeStart(c)
    BY <1>1, <2>2 DEF JudgeStart
  <2>3. CASE ScanJudge(c)
    BY <1>1, <2>3 DEF ScanJudge
  <2>4. CASE StopOne(c)
    BY <1>1, <2>4 DEF StopOne
  <2>5. QED
    BY <1>2, <2>1, <2>2, <2>3, <2>4 DEF Command, StartDaemon, StartScan, ReadSlot, SpawnDaemon,
       ScanRead, Status, Stop, Abort
<1>3. ASSUME NEW p \in Pid, Process(p)
      PROVE  reg'[s] \in {None, reg[s]}
  <2>1. CASE Register(p)
    <3>1. PICK k \in IF proc[p].key = None THEN Implicit ELSE {proc[p].key} :
            reg' = [reg EXCEPT ![<<proc[p].agent, k>>] = p]
      BY <2>1 DEF Register
    <3>2. k \in State
      BY <2>1, <3>1 DEF Register, Shapes, ProcessShape, State
    <3>3. <<proc[p].agent, k>> # s
      BY <3>2
    <3>4. QED
      BY <1>1, <3>1, <3>3
  <2>2. CASE LeaveUnlink(p)
    BY <1>1, <2>2 DEF LeaveUnlink
  <2>3. QED
    BY <1>3, <2>1, <2>2 DEF Process, Finish, LeaveRead, Crash, OtherProgram
<1>4. QED
  BY <1>2, <1>3 DEF RegistryNext, Foreground, registryVars

LEMMA ExcuseGrows ==
  ASSUME [RegistryNext]_registryVars
  PROVE  excuse \subseteq excuse'
<1>1. ASSUME NEW c \in Cmd, Command(c)
      PROVE  excuse \subseteq excuse'
  <2>1. CASE \/ \E a \in Agent, k \in State : StartDaemon(c, a, k)
             \/ ReadSlot(c) \/ JudgeStart(c) \/ ScanJudge(c)
    BY <2>1 DEF StartDaemon, ReadSlot, JudgeStart, ScanJudge
  <2>2. QED
    BY <1>1, <2>1 DEF Command, StartScan, SpawnDaemon, RecordDaemon,
       ScanRead, Status, Stop, StopOne, Abort
<1>2. ASSUME NEW p \in Pid, Process(p)
      PROVE  excuse \subseteq excuse'
  BY <1>2 DEF Process, Register, LeaveUnlink, Finish, LeaveRead, Crash, OtherProgram
<1>3. QED
  BY <1>1, <1>2 DEF RegistryNext, Foreground, registryVars

-----------------------------------------------------------------------------
LEMMA FoundIsOwnStep ==
  ASSUME RegistryTypeOK, Shapes, FoundIsOwn, [RegistryNext]_registryVars
  PROVE  FoundIsOwn'
<1> SUFFICES ASSUME NEW d \in Cmd, NEW f \in cmd'[d].found
             PROVE  proc'[f[2]] = Free \/ proc'[f[2]].agent = cmd'[d].agent
  BY DEF FoundIsOwn
<1>1. ASSUME f \in cmd[d].found, cmd'[d].agent = cmd[d].agent
      PROVE  proc'[f[2]] = Free \/ proc'[f[2]].agent = cmd'[d].agent
  <2>1. f[2] \in Pid /\ f[2] \in Held
    BY <1>1 DEF RegistryTypeOK, CommandRecord, Held
  <2>2. QED
    BY <1>1, <2>1, HeldPidsKeep DEF FoundIsOwn
<1>2. ASSUME NEW c \in Cmd, Command(c)
      PROVE  proc'[f[2]] = Free \/ proc'[f[2]].agent = cmd'[d].agent
  <2>1. CASE d # c
    BY <1>1, <1>2, <2>1, OthersStay
  <2>2. CASE d = c /\ f \notin cmd[d].found
    <3>1. Finds(c)
      BY <1>2, <2>2, FoundSteps
    <3>2. f[2] = cmd[c].pid
      BY <2>2, <3>1 DEF Finds
    <3>3. UNCHANGED proc
      BY <3>1 DEF Finds, ScanJudge
    <3>4. QED
      BY <2>2, <3>1, <3>2, <3>3 DEF Finds, PidIsWatcher
  <2>3. CASE d = c /\ f \in cmd[d].found
    BY <1>1, <1>2, <2>3, FoundSteps DEF Finds
  <2>4. QED
    BY <2>1, <2>2, <2>3
<1>3. UNCHANGED cmd => f \in cmd[d].found /\ cmd'[d].agent = cmd[d].agent
  OBVIOUS
<1>4. QED
  BY <1>1, <1>2, <1>3 DEF RegistryNext, Foreground, Process, Register, Finish, LeaveRead,
     LeaveUnlink, Crash, OtherProgram, registryVars

LEMMA LegacyStep ==
  ASSUME RegistryTypeOK, Shapes, LegacyOnlyGoes, [RegistryNext]_registryVars
  PROVE  LegacyOnlyGoes'
<1> USE RegistryAssumption DEF RegistryAssumption
<1>1. ASSUME NEW d \in Cmd, UNCHANGED cmd[d]
      PROVE  /\ \A f \in cmd'[d].found : f[1][2] = Legacy => reg'[f[1]] \in {None, f[2]}
             /\ (/\ cmd'[d].op = "scan" /\ cmd'[d].step = "judge" /\ cmd'[d].slot[2] = Legacy
                 /\ cmd'[d].pid \in Pid) => reg'[cmd'[d].slot] \in {None, cmd'[d].pid}
  <2>1. cmd[d] \in CommandRecord /\ CommandShape(cmd[d])
    BY DEF RegistryTypeOK, Shapes
  <2>2. \A f \in cmd[d].found : f[1] \in Slot
    BY <2>1 DEF CommandRecord
  <2>3. cmd[d].op = "scan" /\ cmd[d].step = "judge" => cmd[d].slot \in Slot
    BY <2>1 DEF CommandRecord, CommandShape
  <2>4. QED
    BY <1>1, <2>2, <2>3, LegacyRegs DEF LegacyOnlyGoes
<1>2. ASSUME NEW c \in Cmd, Command(c)
      PROVE  LegacyOnlyGoes'
  <2>1. ASSUME NEW f \in cmd'[c].found, f[1][2] = Legacy
        PROVE  reg'[f[1]] \in {None, f[2]}
    <3>1. CASE f \in cmd[c].found
      <4>1. f[1] \in Slot
        BY <3>1 DEF RegistryTypeOK, CommandRecord
      <4>2. QED
        BY <2>1, <3>1, <4>1, LegacyRegs DEF LegacyOnlyGoes
    <3>2. CASE f \notin cmd[c].found
      <4>1. Finds(c) /\ f = <<cmd[c].slot, cmd[c].pid>>
        BY <1>2, <3>2, FoundSteps DEF Finds
      <4>2. cmd[c].op = "scan" /\ cmd[c].step = "judge"
        BY <4>1 DEF Finds, ScanJudge
      <4>3. QED
        BY <2>1, <4>1, <4>2 DEF Finds, LegacyOnlyGoes
    <3>3. QED
      BY <3>1, <3>2
  <2>2. ASSUME cmd'[c].op = "scan", cmd'[c].step = "judge", cmd'[c].pid \in Pid
        PROVE  reg'[cmd'[c].slot] \in {None, cmd'[c].pid}
    BY <1>2, <2>2, ScanSteps DEF ReadFile
  <2>3. QED
    BY <1>1, <1>2, <2>1, <2>2, OthersStay DEF LegacyOnlyGoes
<1>3. CASE UNCHANGED cmd
  BY <1>1, <1>3 DEF LegacyOnlyGoes
<1>4. QED
  BY <1>2, <1>3 DEF RegistryNext, Foreground, Process, Register, Finish, LeaveRead,
     LeaveUnlink, Crash, OtherProgram, registryVars

-----------------------------------------------------------------------------
(* A second start in a slot is an excuse.                                  *)
LEMMA SecondStartExcuses ==
  ASSUME RegistryTypeOK, Shapes, NEW s \in Slot \ excuse', LoneStart(s),
         NEW c \in Cmd, Command(c), cmd'[c].op = "start", cmd'[c].slot = s,
         NEW d \in Cmd \ {c}, cmd[d].op = "start", cmd[d].slot = s
  PROVE  FALSE
<1>1. CASE cmd[c].op = "start" /\ cmd[c].slot = s
  BY <1>1 DEF LoneStart
<1>2. ASSUME NEW a \in Agent, NEW k \in State, StartDaemon(c, a, k), s = <<a, k>>
      PROVE  FALSE
  BY <1>2 DEF StartDaemon
<1>3. QED
  BY <1>1, <1>2, StartSteps DEF Goes

LEMMA LoneStartStep ==
  ASSUME RegistryTypeOK, Shapes, [RegistryNext]_registryVars,
         NEW s \in Slot \ excuse', LoneStart(s)
  PROVE  LoneStart(s)'
<1> SUFFICES ASSUME NEW c \in Cmd, NEW d \in Cmd \ {c},
                    cmd'[c].op = "start", cmd'[d].op = "start",
                    cmd'[c].slot = s, cmd'[d].slot = s
             PROVE  FALSE
  BY DEF LoneStart
<1>1. ASSUME NEW e \in Cmd, Command(e)
      PROVE  FALSE
  <2>1. CASE e = c
    BY <1>1, <2>1, OthersStay, SecondStartExcuses
  <2>2. CASE e = d
    BY <1>1, <2>2, OthersStay, SecondStartExcuses
  <2>3. CASE e \notin {c, d}
    BY <1>1, <2>3, OthersStay DEF LoneStart
  <2>4. QED
    BY <2>1, <2>2, <2>3
<1>2. CASE UNCHANGED cmd
  BY <1>2 DEF LoneStart
<1>3. QED
  BY <1>1, <1>2 DEF RegistryNext, Foreground, Process, Register, Finish, LeaveRead,
     LeaveUnlink, Crash, OtherProgram, registryVars

(* Who serves a slot is a watcher of the slot's agent, under its key, and  *)
(* is recognised as one if its command line names the agent.               *)
LEMMA ServesItsSlot ==
  ASSUME NEW s \in Slot, NEW q \in Serving(s)
  PROVE  /\ q \in Pid /\ proc[q].phase \in {"run", "closing"}
         /\ proc[q].agent = s[1] /\ proc[q].key = s[2]
         /\ proc[q].named => PidIsWatcher(q, s[1])
  BY DEF Serving, SlotOf, PidIsWatcher

(* No command takes a serving watcher's file away without an excuse.       *)
LEMMA CommandKeepsServing ==
  ASSUME RegistryInv, NEW c \in Cmd, Command(c), NEW s \in Slot \ excuse', s \notin excuse,
         NEW q \in Serving(s), proc'[q] # Free, reg[s] = q
  PROVE  reg'[s] = q
<1> USE RegistryAssumption DEF RegistryAssumption
<1>1. /\ cmd[c] \in CommandRecord /\ CommandShape(cmd[c])
      /\ reg \in [Slot -> Pid \cup {None}] /\ DOMAIN proc = Pid /\ StartIsCurrent(s)
  BY DEF RegistryInv, RegistryTypeOK, Shapes, Unexcused
<1>2. /\ q \in Pid /\ q # None /\ proc[q].key = s[2]
      /\ proc[q].named => PidIsWatcher(q, s[1])
  BY ServesItsSlot
<1>3. CASE RecordDaemon(c)
  <2>1. cmd[c].op = "start" /\ cmd[c].step = "record"
    BY <1>1, <1>3 DEF RecordDaemon, CommandShape, CommandRecord, NoCommand
  <2>2. cmd[c].slot = s => cmd[c].pid = q
    BY <1>1, <1>2, <2>1 DEF StartIsCurrent
  <2>3. QED
    BY <1>1, <1>3, <2>2 DEF RecordDaemon
<1>4. CASE JudgeStart(c)
  <2>1. cmd[c].op = "start" /\ cmd[c].step = "judge"
    BY <1>4 DEF JudgeStart
  <2>2. cmd[c].slot = s => cmd[c].agent = s[1] /\ cmd[c].pid = q
    BY <1>1, <1>2, <2>1 DEF StartIsCurrent, CommandShape
  <2>3. reg' = reg \/ /\ reg' = [reg EXCEPT ![cmd[c].slot] = None]
                      /\ ~PidIsWatcher(cmd[c].pid, cmd[c].agent)
                      /\ Hides(cmd[c].slot, cmd[c].pid, cmd[c].agent)
                           => cmd[c].slot \in excuse'
    BY <1>4 DEF JudgeStart
  <2>4. cmd[c].slot = s /\ ~Hides(s, cmd[c].pid, cmd[c].agent) => proc[q].named
    BY <1>2 DEF Hides
  <2>5. QED
    BY <1>1, <1>2, <2>2, <2>3, <2>4
<1>5. CASE ScanJudge(c)
  <2>1. reg' = reg \/ /\ reg' = [reg EXCEPT ![cmd[c].slot] = None]
                      /\ ~PidIsWatcher(cmd[c].pid, cmd[c].agent)
                      /\ Hides(cmd[c].slot, cmd[c].pid, cmd[c].agent)
                           => cmd[c].slot \in excuse'
    BY <1>5 DEF ScanJudge
  <2>2. cmd[c].slot = s /\ ~Hides(s, cmd[c].pid, cmd[c].agent)
          => cmd[c].pid = q /\ cmd[c].agent = s[1] /\ proc[q].named
    BY <1>2 DEF Hides
  <2>3. QED
    BY <1>1, <1>2, <2>1, <2>2
<1>6. CASE StopOne(c)
  <2>1. reg' = reg \/ \E f \in cmd[c].found :
          /\ proc' = [proc EXCEPT ![f[2]] = AfterSigterm(f[2])]
          /\ reg' = [reg EXCEPT ![f[1]] = None] /\ f[1][2] = Legacy
    BY <1>6 DEF StopOne
  <2>2. ASSUME NEW f \in cmd[c].found, f[1] = s, s[2] = Legacy,
               proc' = [proc EXCEPT ![f[2]] = AfterSigterm(f[2])]
        PROVE  FALSE
    <3>1. f[2] = q
      BY <1>2, <2>2 DEF RegistryInv, LegacyOnlyGoes
    <3>2. proc'[q] = AfterSigterm(q)
      BY <1>1, <1>2, <2>2, <3>1
    <3>3. AfterSigterm(q) = Free
      BY <1>2, <2>2 DEF AfterSigterm
    <3>4. QED
      BY <3>2, <3>3
  <2>3. QED
    BY <1>1, <2>1, <2>2
<1>7. QED
  BY <1>3, <1>4, <1>5, <1>6 DEF Command, StartDaemon, StartScan, ReadSlot, SpawnDaemon,
     ScanRead, Status, Stop, Abort

(* A registration without an excuse was expected.                          *)
LEMMA RegisterExpected ==
  ASSUME RegistryInv, NEW p \in Pid, Register(p), NEW s \in Slot \ excuse', s \notin excuse,
         reg'[s] # reg[s]
  PROVE  /\ reg'[s] = p /\ s = SlotOf(p)'
         /\ \/ \E c \in Cmd : /\ cmd[c].op = "start" /\ cmd[c].step = "record"
                              /\ cmd[c].slot = s /\ cmd[c].pid = p
            \/ /\ Serving(s) = {}
               /\ \A c \in Cmd : cmd[c].op = "start" /\ cmd[c].slot = s => cmd[c].step = "read"
<1>1. PICK k \in IF proc[p].key = None THEN Implicit ELSE {proc[p].key} :
         LET t == <<proc[p].agent, k>> IN
          /\ proc' = [proc EXCEPT ![p].key = k, ![p].phase = "run"]
          /\ reg' = [reg EXCEPT ![t] = p]
          /\ excuse' = IF Uninvited(p, t) THEN excuse \cup {t} ELSE excuse
  BY DEF Register
<1>2. reg \in [Slot -> Pid \cup {None}] /\ proc \in [Pid -> ProcessRecord]
  BY DEF RegistryInv, RegistryTypeOK
<1>3. s = <<proc[p].agent, k>> /\ reg'[s] = p
  BY <1>1, <1>2
<1>4. SlotOf(p)' = <<proc[p].agent, k>>
  BY <1>1, <1>2 DEF SlotOf, ProcessRecord
<1>5. ~Uninvited(p, s) /\ reg[s] # p
  BY <1>1, <1>3
<1>6. \A c \in Cmd : cmd[c].step = "record" => cmd[c].op = "start"
  BY DEF RegistryInv, Shapes, CommandShape, RegistryTypeOK, CommandRecord, NoCommand
<1>7. QED
  BY <1>3, <1>4, <1>5, <1>6 DEF Uninvited

LEMMA RegisteredStep ==
  ASSUME RegistryInv, [RegistryNext]_registryVars, NEW s \in Slot \ excuse'
  PROVE  Registered(s)'
<1> USE RegistryAssumption DEF RegistryAssumption
<1>1. /\ RegistryTypeOK /\ Shapes /\ s \notin excuse
      /\ Registered(s) /\ StartIsCurrent(s)
      /\ reg \in [Slot -> Pid \cup {None}] /\ proc \in [Pid -> ProcessRecord]
  BY ExcuseGrows DEF RegistryInv, Unexcused, RegistryTypeOK
<1> SUFFICES ASSUME NEW q \in Serving(s)'
             PROVE  reg'[s] = q
  BY DEF Registered
<1>2. q \in Pid /\ q # None /\ proc'[q] # Free
  BY DEF Serving, Free
<1>3. ASSUME NEW p \in Pid, Register(p)
      PROVE  reg'[s] = q
  <2>1. PICK k \in IF proc[p].key = None THEN Implicit ELSE {proc[p].key} :
           /\ proc' = [proc EXCEPT ![p].key = k, ![p].phase = "run"]
           /\ reg' = [reg EXCEPT ![<<proc[p].agent, k>>] = p]
    BY <1>3 DEF Register
  <2>2. CASE q = p
    BY <1>1, <2>1, <2>2 DEF Serving, SlotOf, ProcessRecord
  <2>3. CASE q # p
    <3>1. q \in Serving(s) /\ reg[s] = q
      BY <1>1, <1>2, <2>1, <2>3 DEF Serving, SlotOf, Registered
    <3>2. CASE reg'[s] # reg[s]
      BY <1>1, <1>2, <1>3, <2>3, <3>1, <3>2, RegisterExpected DEF StartIsCurrent
    <3>3. QED
      BY <3>1, <3>2
  <2>4. QED
    BY <2>2, <2>3
<1>4. ASSUME ~\E p \in Pid : Register(p)
      PROVE  reg'[s] = q
  <2>1. q \in Serving(s) /\ reg[s] = q
    BY <1>1, <1>4, ServingShrinks DEF Registered
  <2>2. ASSUME NEW c \in Cmd, Command(c)
        PROVE  reg'[s] = q
    BY <1>1, <1>2, <2>1, <2>2, CommandKeepsServing
  <2>3. ASSUME NEW p \in Pid, LeaveUnlink(p)
        PROVE  reg'[s] = q
    <3>1. q # p
      BY <2>1, <2>3 DEF LeaveUnlink, Serving
    <3>2. SlotOf(p) # s
      BY <1>2, <2>1, <2>3, <3>1 DEF LeaveUnlink
    <3>3. QED
      BY <1>1, <2>1, <2>3, <3>2 DEF LeaveUnlink
  <2>4. QED
    BY <1>4, <2>1, <2>2, <2>3 DEF RegistryNext, Foreground, Process, Finish, LeaveRead,
       Crash, OtherProgram, registryVars
<1>5. QED
  BY <1>3, <1>4

(* What the file of a slot with a start may turn into meanwhile.           *)
LEMMA FileUnderStart ==
  ASSUME RegistryInv, [RegistryNext]_registryVars, NEW s \in Slot \ excuse',
         NEW d \in Cmd, cmd[d].op = "start", cmd[d].slot = s, UNCHANGED cmd[d]
  PROVE  \/ cmd[d].step = "read"
         \/ reg'[s] \in {None, reg[s]}
         \/ cmd[d].step = "record" /\ reg'[s] = cmd[d].pid
<1> DEFINE Goal == \/ cmd[d].step = "read"
                   \/ reg'[s] \in {None, reg[s]}
                   \/ cmd[d].step = "record" /\ reg'[s] = cmd[d].pid
<1>1. /\ RegistryTypeOK /\ Shapes /\ s \notin excuse /\ LoneStart(s)
      /\ reg \in [Slot -> Pid \cup {None}]
  BY ExcuseGrows DEF RegistryInv, Unexcused, RegistryTypeOK
<1>2. ASSUME NEW c \in Cmd, Command(c)
      PROVE  Goal
  <2>1. CASE RecordDaemon(c)
    <3>1. cmd[c].op = "start" /\ cmd[c].slot = s => c = d
      BY <1>1 DEF LoneStart
    <3>2. cmd[c].op = "start" /\ cmd[c].step = "record"
      BY <1>1, <2>1 DEF RecordDaemon, Shapes, CommandShape, RegistryTypeOK, CommandRecord, NoCommand
    <3>3. QED
      BY <1>1, <2>1, <3>1, <3>2 DEF RecordDaemon
  <2>2. CASE JudgeStart(c)
    BY <1>1, <2>2 DEF JudgeStart
  <2>3. CASE ScanJudge(c)
    BY <1>1, <2>3 DEF ScanJudge
  <2>4. CASE StopOne(c)
    BY <1>1, <2>4 DEF StopOne
  <2>5. QED
    BY <1>2, <2>1, <2>2, <2>3, <2>4 DEF Command, StartDaemon, StartScan, ReadSlot, SpawnDaemon,
       ScanRead, Status, Stop, Abort
<1>3. ASSUME NEW p \in Pid, Process(p)
      PROVE  Goal
  <2>1. CASE Register(p)
    <3>1. CASE reg'[s] # reg[s]
      BY <1>1, <2>1, <3>1, RegisterExpected DEF LoneStart
    <3>2. QED
      BY <3>1
  <2>2. CASE LeaveUnlink(p)
    BY <1>1, <2>2 DEF LeaveUnlink
  <2>3. QED
    BY <1>3, <2>1, <2>2 DEF Process, Finish, LeaveRead, Crash, OtherProgram
<1>4. UNCHANGED reg => Goal
  OBVIOUS
<1> HIDE DEF Goal
<1>5. Goal
  BY <1>2, <1>3, <1>4 DEF RegistryNext, Foreground, registryVars
<1>6. QED
  BY <1>5 DEF Goal

LEMMA StartIsCurrentStep ==
  ASSUME RegistryInv, [RegistryNext]_registryVars, NEW s \in Slot \ excuse'
  PROVE  StartIsCurrent(s)'
<1> USE RegistryAssumption DEF RegistryAssumption
<1>1. /\ RegistryTypeOK /\ Shapes /\ s \notin excuse /\ StartIsCurrent(s)
      /\ reg \in [Slot -> Pid \cup {None}]
  BY ExcuseGrows DEF RegistryInv, Unexcused, RegistryTypeOK
<1> SUFFICES ASSUME NEW d \in Cmd, cmd'[d].op = "start", cmd'[d].slot = s
             PROVE  /\ cmd'[d].step = "judge" => cmd'[d].pid # Torn /\ reg'[s] \in {None, cmd'[d].pid}
                    /\ cmd'[d].step = "spawn" => reg'[s] = None
                    /\ cmd'[d].step = "record" => reg'[s] \in {None, cmd'[d].pid}
  BY DEF StartIsCurrent
<1>2. CASE UNCHANGED cmd[d]
  BY <1>1, <1>2, FileUnderStart DEF StartIsCurrent
<1>3. CASE Command(d)
  <2>1. CASE ReadSlot(d) /\ Goes(d, "read", "judge") /\ cmd'[d].pid \in ReadFile(cmd[d].slot)
             /\ excuse' = excuse \cup {t \in {cmd[d].slot} : cmd'[d].pid = Torn}
    <3>1. cmd'[d].pid # Torn /\ cmd[d].slot = s
      BY <2>1 DEF Goes
    <3>2. cmd'[d].pid = reg[s] /\ reg' = reg
      BY <2>1, <3>1 DEF ReadFile, ReadSlot
    <3>3. QED
      BY <2>1, <3>1, <3>2 DEF Goes
  <2>2. CASE JudgeStart(d) /\ Goes(d, "judge", "spawn")
    <3>1. /\ cmd[d].slot = s /\ cmd[d].pid # Torn /\ reg[s] \in {None, cmd[d].pid}
          /\ cmd[d].op = "start" /\ cmd'[d].step = "spawn"
      BY <1>1, <2>2 DEF Goes, StartIsCurrent
    <3>2. cmd'[d].op # "none"
      OBVIOUS
    <3>3. \/ cmd[d].pid \in {None, Torn} /\ reg' = reg
          \/ reg' = [reg EXCEPT ![cmd[d].slot] = None]
      BY <1>1, <2>2, <3>2 DEF JudgeStart, NoCommand, RegistryTypeOK
    <3>4. QED
      BY <1>1, <3>1, <3>3
  <2>3. CASE SpawnDaemon(d) /\ Goes(d, "spawn", "record")
    BY <1>1, <2>3 DEF SpawnDaemon, Goes, StartIsCurrent
  <2>4. CASE cmd'[d].step = "read"
    BY <2>4
  <2>5. QED
    BY <1>1, <1>3, <2>1, <2>2, <2>3, <2>4, StartSteps
<1>4. ASSUME NEW c \in Cmd, Command(c)
      PROVE  c = d \/ UNCHANGED cmd[d]
  BY <1>1, <1>4, OthersStay
<1>5. QED
  BY <1>2, <1>3, <1>4 DEF RegistryNext, Foreground, Process, Register, Finish, LeaveRead,
     LeaveUnlink, Crash, OtherProgram, registryVars

LEMMA RegistryInductive == RegistryInv /\ [RegistryNext]_registryVars => RegistryInv'
<1> SUFFICES ASSUME RegistryInv, [RegistryNext]_registryVars
             PROVE  RegistryInv'
  OBVIOUS
<1>1. RegistryTypeOK /\ Shapes /\ FoundIsOwn /\ LegacyOnlyGoes /\ Unexcused
  BY DEF RegistryInv
<1>2. RegistryTypeOK' /\ Shapes'
  BY <1>1, RegistryStepTypes
<1>3. FoundIsOwn' /\ LegacyOnlyGoes'
  BY <1>1, FoundIsOwnStep, LegacyStep
<1>4. \A s \in Slot \ excuse' : LoneStart(s)'
  BY <1>1, ExcuseGrows, LoneStartStep DEF Unexcused
<1>5. Unexcused'
  BY <1>4, RegisteredStep, StartIsCurrentStep DEF Unexcused
<1>6. QED
  BY <1>2, <1>3, <1>5 DEF RegistryInv

LEMMA RegistryInvInit == RegistryInit => RegistryInv
<1> SUFFICES ASSUME RegistryInit
             PROVE  RegistryInv
  OBVIOUS
<1> USE RegistryAssumption DEF RegistryAssumption
<1>1. RegistryTypeOK /\ Shapes
  BY RegistryInitTypes
<1>2. \A c \in Cmd : cmd[c].op = "none" /\ cmd[c].found = {}
  BY DEF RegistryInit, NoCommand
<1>3. FoundIsOwn /\ LegacyOnlyGoes
  BY <1>2 DEF FoundIsOwn, LegacyOnlyGoes
<1>4. \A s \in Slot : LoneStart(s) /\ StartIsCurrent(s)
  BY <1>2 DEF LoneStart, StartIsCurrent
<1>5. ASSUME NEW s \in Slot, NEW q \in Serving(s)
      PROVE  reg[s] = q
  <2>1. PICK old \in SUBSET (Agent \X Pid), named \in BOOLEAN :
          /\ Cardinality(old) <= 1
          /\ reg = [t \in Slot |-> IF t[2] = Legacy /\ \E o \in old : o[1] = t[1]
                                   THEN (CHOOSE o \in old : TRUE)[2] ELSE None]
          /\ proc = [p \in Pid |-> IF \E o \in old : o[2] = p
                                   THEN [agent |-> (CHOOSE o \in old : TRUE)[1],
                                         key |-> Legacy, phase |-> "run",
                                         named |-> named]
                                   ELSE Free]
    BY DEF RegistryInit
  <2>2. \A x, y \in old : x = y
    <3>1. IsFiniteSet(old)
      BY FS_Product, FS_Subset
    <3>2. Cardinality(old) \in {0, 1}
      BY <2>1, <3>1, FS_CardinalityType
    <3>3. QED
      BY <3>1, <3>2, FS_EmptySet, FS_Singleton
  <2>3. q \in Pid /\ proc[q].phase # "free" /\ proc[q].agent = s[1] /\ proc[q].key = s[2]
    BY <1>5, ServesItsSlot
  <2>4. PICK o \in old : o[2] = q
    BY <2>1, <2>3 DEF Free
  <2>5. (CHOOSE x \in old : TRUE) = o
    BY <2>2, <2>4
  <2>6. s[1] = o[1] /\ s[2] = Legacy
    BY <2>1, <2>3, <2>4, <2>5
  <2>7. QED
    BY <2>1, <2>4, <2>5, <2>6
<1>6. QED
  BY <1>1, <1>3, <1>4, <1>5 DEF RegistryInv, Unexcused, Registered

(* The inductive invariant of the registrations.                           *)
THEOREM RegistryInvariant == RegistrySpec => []RegistryInv
  BY RegistryInvInit, RegistryInductive, PTL DEF RegistrySpec

(* Two watchers in one state file have one of the known excuses, however   *)
(* many agents, states, processes and commands there are.                  *)
THEOREM OneWatcherCorrect == RegistrySpec => []OneWatcherUnlessExcused
<1>1. RegistryInv => OneWatcherUnlessExcused
  <2> SUFFICES ASSUME RegistryInv, NEW s \in Slot, s \notin excuse
               PROVE  Cardinality(Serving(s)) <= 1
    BY DEF OneWatcherUnlessExcused
  <2>1. Serving(s) \subseteq {reg[s]}
    BY DEF RegistryInv, Unexcused, Registered
  <2>2. Serving(s) = {} \/ Serving(s) = {reg[s]}
    BY <2>1
  <2>3. Cardinality({}) = 0 /\ Cardinality({reg[s]}) = 1
    BY FS_EmptySet, FS_Singleton
  <2>4. QED
    BY <2>2, <2>3
<1>2. QED
  BY <1>1, RegistryInvariant, PTL

(* Whatever watch-stop signals is a watcher of the agent it was asked to   *)
(* stop, after any reuse of process numbers.                               *)
THEOREM OnlyOwnSignalled == RegistrySpec => OnlyOwnWatchersSignalled
<1> DEFINE Own == \A c \in Cmd : cmd[c].op = "stop" =>
          \A f \in cmd[c].found : proc'[f[2]] # proc[f[2]] /\ cmd'[c] # cmd[c] =>
             proc[f[2]].agent = cmd[c].agent
<1>1. RegistryInv /\ [RegistryNext]_registryVars => Own
  <2> SUFFICES ASSUME RegistryInv, [RegistryNext]_registryVars, NEW c \in Cmd, cmd[c].op = "stop",
                      NEW f \in cmd[c].found, proc'[f[2]] # proc[f[2]], cmd'[c] # cmd[c]
               PROVE  proc[f[2]].agent = cmd[c].agent
    BY DEF Own
  <2>1. RegistryTypeOK /\ Shapes /\ FoundIsOwn
    BY DEF RegistryInv
  <2>2. f[2] \in Pid /\ f[2] \in Held
    BY <2>1 DEF RegistryTypeOK, CommandRecord, Held
  <2>3. CASE proc[f[2]] = Free
    BY <2>1, <2>2, <2>3, HeldPidsKeep
  <2>4. QED
    BY <2>1, <2>3 DEF FoundIsOwn
<1>2. QED
  BY <1>1, RegistryInvariant, PTL DEF RegistrySpec, OnlyOwnWatchersSignalled

(* The five ways a running watcher loses its registration are all.         *)
THEOREM RegistrationKeptCorrect == RegistrySpec => RegistrationKept
<1> USE RegistryAssumption DEF RegistryAssumption
<1> DEFINE Lost(s, p) == reg[s] = p /\ reg'[s] # p /\ p \in Serving(s) /\ p \in Serving(s)'
           Ways(s, p) == \/ reg'[s] \in Pid
                         \/ \E c \in Cmd : cmd[c].slot = s /\ (\/ s[1] \in NamedAfter[cmd[c].agent]
                                                               \/ cmd[c].pid # p
                                                               \/ ~proc[p].named)
                         \/ \E q \in Pid \ {p} : proc[q].phase = "leaving" /\ SlotOf(q) = s
<1>1. RegistryInv /\ [RegistryNext]_registryVars
        => \A s \in Slot : \A p \in Pid : Lost(s, p) => Ways(s, p)
  <2> SUFFICES ASSUME RegistryInv, [RegistryNext]_registryVars, NEW s \in Slot, NEW p \in Pid,
                      Lost(s, p)
               PROVE  Ways(s, p)
    OBVIOUS
  <2>1. /\ RegistryTypeOK /\ Shapes
        /\ reg \in [Slot -> Pid \cup {None}] /\ proc \in [Pid -> ProcessRecord]
    BY DEF RegistryInv, RegistryTypeOK
  <2>2. /\ proc[p].agent = s[1] /\ proc[p].key = s[2] /\ proc'[p] # Free
        /\ proc[p].named => PidIsWatcher(p, s[1])
    BY ServesItsSlot DEF Serving, Free
  <2>3. ASSUME NEW c \in Cmd, Command(c)
        PROVE  Ways(s, p)
    <3>1. cmd[c] \in CommandRecord /\ CommandShape(cmd[c])
      BY <2>1 DEF RegistryTypeOK, Shapes
    <3>2. CASE RecordDaemon(c)
      <4>1. cmd[c].pid \in Pid
        BY <3>1, <3>2 DEF RecordDaemon, CommandShape, CommandRecord, NoCommand
      <4>2. QED
        BY <2>1, <3>2, <4>1 DEF RecordDaemon
    <3>3. CASE JudgeStart(c)
      <4>1. cmd[c].slot = s /\ ~PidIsWatcher(cmd[c].pid, cmd[c].agent)
        BY <2>1, <3>3 DEF JudgeStart
      <4>2. cmd[c].agent = s[1]
        BY <3>1, <3>3, <4>1 DEF JudgeStart, CommandShape
      <4>3. cmd[c].pid # p \/ ~proc[p].named
        BY <2>2, <4>1, <4>2
      <4>4. QED
        BY <4>1, <4>3
    <3>4. CASE ScanJudge(c)
      <4>1. cmd[c].slot = s /\ ~PidIsWatcher(cmd[c].pid, cmd[c].agent)
        BY <2>1, <3>4 DEF ScanJudge
      <4>2. s[1] \in {cmd[c].agent} \cup NamedAfter[cmd[c].agent]
        BY <3>1, <3>4, <4>1 DEF ScanJudge, CommandShape
      <4>3. cmd[c].pid = p /\ proc[p].named => s[1] \in NamedAfter[cmd[c].agent]
        BY <2>2, <4>1, <4>2
      <4>4. QED
        BY <4>1, <4>3
    <3>5. ~StopOne(c)
      <4>1. SUFFICES ASSUME StopOne(c)
                     PROVE  FALSE
        OBVIOUS
      <4>2. PICK f \in cmd[c].found :
              /\ proc' = [proc EXCEPT ![f[2]] = AfterSigterm(f[2])]
              /\ f[1] = s /\ s[2] = Legacy
        BY <2>1, <4>1 DEF StopOne
      <4>3. f[2] = p
        BY <4>2 DEF RegistryInv, LegacyOnlyGoes
      <4>4. proc'[p] = AfterSigterm(p) /\ AfterSigterm(p) = Free
        BY <2>1, <2>2, <4>2, <4>3 DEF AfterSigterm
      <4>5. QED
        BY <2>2, <4>4
    <3>6. QED
      BY <2>3, <3>2, <3>3, <3>4, <3>5 DEF Command, StartDaemon, StartScan, ReadSlot, SpawnDaemon,
         ScanRead, Status, Stop, Abort
  <2>4. ASSUME NEW q \in Pid, Register(q)
        PROVE  Ways(s, p)
    BY <2>1, <2>4 DEF Register
  <2>5. ASSUME NEW q \in Pid, LeaveUnlink(q)
        PROVE  Ways(s, p)
    <3>1. SlotOf(q) = s /\ proc[q].phase = "leaving"
      BY <2>1, <2>5 DEF LeaveUnlink
    <3>2. q # p
      BY <3>1 DEF Serving
    <3>3. QED
      BY <3>1, <3>2
  <2>6. QED
    BY <2>3, <2>4, <2>5 DEF RegistryNext, Foreground, Process, Finish, LeaveRead,
       Crash, OtherProgram, registryVars
<1>2. QED
  BY <1>1, RegistryInvariant, PTL DEF RegistrySpec, RegistrationKept
=============================================================================
