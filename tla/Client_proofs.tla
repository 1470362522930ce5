---------------------------- MODULE Client_proofs ----------------------------
(***************************************************************************)
(* Theorems about the client's breaker (AsyncBreaker), its signing keys    *)
(* (Signing) and its sealing keys (SealedMail), for any callers, limits,   *)
(* machines, agents and processes.                                         *)
(***************************************************************************)
EXTENDS AsyncBreaker, SealedMail, Signing, SequenceTheorems, FiniteSetTheorems, TLAPS

-----------------------------------------------------------------------------
(* The breaker of the asynchronous client.                                 *)

(* Type correctness: the counters of the breaker stay below their limits,  *)
(* so that neither a late verdict nor a re-opening skips over one.         *)
THEOREM TypeCorrect == Spec => []TypeOK
<1> USE BreakerAssumption DEF BreakerAssumption
<1>1. Init => TypeOK
  <2> SUFFICES ASSUME Init
               PROVE  TypeOK
    OBVIOUS
  <2>1. /\ 0 \in 0..MaxRetries /\ 0 \in 0..(FailureLimit - 1)
        /\ 0 \in 0..(SuccessLimit - 1)
    OBVIOUS
  <2>2. QED
    BY <2>1 DEF Init, TypeOK
<1>2. TypeOK /\ [Next]_vars => TypeOK'
  <2> SUFFICES ASSUME TypeOK, [Next]_vars
               PROVE  TypeOK'
    OBVIOUS
  <2> USE DEF TypeOK
  <2>1. ASSUME NEW c \in Caller, End(c)
        PROVE  /\ phase' \in [Caller -> {"idle", "waiting", "trying", "backoff"}]
               /\ attempt' \in [Caller -> 0..MaxRetries]
    <3>1. 0 \in 0..MaxRetries
      OBVIOUS
    <3>2. QED
      BY <2>1, <3>1 DEF End
  <2>2. ASSUME NEW c \in Caller, End(c), OnSuccess(c), UNCHANGED healthy
        PROVE  TypeOK'
    <3>1. /\ failures' \in 0..(FailureLimit - 1)
          /\ successes' \in 0..(SuccessLimit - 1)
      BY <2>2 DEF OnSuccess
    <3>2. QED
      BY <2>1, <2>2, <3>1 DEF OnSuccess
  <2>3. ASSUME NEW c \in Caller, End(c), OnFailure(c), UNCHANGED healthy
        PROVE  TypeOK'
    <3>1. /\ failures' \in 0..(FailureLimit - 1)
          /\ successes' \in 0..(SuccessLimit - 1)
      BY <2>3 DEF OnFailure
    <3>2. stragglers' \subseteq Caller
      BY <2>3 DEF OnFailure, InFlight
    <3>3. QED
      BY <2>1, <2>3, <3>1, <3>2 DEF OnFailure
  <2>4. ASSUME NEW c \in Caller, End(c), ReleaseProbe(c), UNCHANGED healthy
        PROVE  TypeOK'
    BY <2>1, <2>4 DEF ReleaseProbe, counters
  <2>5. ASSUME NEW c \in Caller, Admit(c)
        PROVE  TypeOK'
    BY <2>5 DEF Admit, counters
  <2>6. ASSUME NEW c \in Caller, Acquire(c) \/ Retry(c)
        PROVE  TypeOK'
    BY <2>6 DEF Acquire, Retry, breaker, counters, ghosts
  <2>7. ASSUME NEW c \in Caller, BackOff(c)
        PROVE  TypeOK'
    <3>1. attempt' \in [Caller -> 0..MaxRetries]
      <4>1. attempt[c] + 1 \in 0..MaxRetries
        BY <2>7 DEF BackOff
      <4>2. QED
        BY <2>7, <4>1 DEF BackOff
    <3>2. QED
      BY <2>7, <3>1 DEF BackOff, breaker, counters, ghosts
  <2>8. CASE CooldownLapses \/ Recover
    BY <2>8 DEF CooldownLapses, Recover, sequence, breaker, counters, ghosts
  <2>9. CASE UNCHANGED vars
    BY <2>9 DEF vars, sequence, breaker, counters, ghosts
  <2>10. QED
    BY <2>2, <2>3, <2>4, <2>5, <2>6, <2>7, <2>8, <2>9
       DEF Next, Proceed, Succeed, Refused, Exhaust, Deadline, Cancel
<1>3. QED
  BY <1>1, <1>2, PTL DEF Spec

-----------------------------------------------------------------------------
(* The probe slot.                                                         *)

(* Whatever ends, a verdict or a release, it empties the slot: the slot    *)
(* is only ever full between an admission and the next end.                *)
THEOREM ProbeSlotCorrect == Spec => []ProbeSlotOwned
<1>1. Init => ProbeSlotOwned
  BY DEF Init, ProbeSlotOwned
<1>2. ProbeSlotOwned /\ [Next]_vars => ProbeSlotOwned'
  <2> SUFFICES ASSUME ProbeSlotOwned, [Next]_vars
               PROVE  ProbeSlotOwned'
    OBVIOUS
  <2> USE DEF ProbeSlotOwned
  <2>1. ASSUME NEW c \in Caller, Admit(c)
        PROVE  ProbeSlotOwned'
    BY <2>1 DEF Admit
  <2>2. ASSUME NEW c \in Caller, OnSuccess(c) \/ OnFailure(c) \/ ReleaseProbe(c)
        PROVE  ProbeSlotOwned'
    BY <2>2 DEF OnSuccess, OnFailure, ReleaseProbe
  <2>3. CASE UNCHANGED <<probeInflight, halfOpen, probes>>
    BY <2>3
  <2>4. QED
    BY <2>1, <2>2, <2>3
       DEF Next, Proceed, Acquire, Succeed, Refused, BackOff, Retry, Exhaust,
           Deadline, Cancel, CooldownLapses, Recover, breaker, ghosts, vars
<1>3. QED
  BY <1>1, <1>2, PTL DEF Spec

-----------------------------------------------------------------------------
(* The load on a bus in trouble.                                           *)

LEMMA FiniteLoad ==
  TypeOK => /\ IsFiniteSet(InFlight) /\ Cardinality(InFlight) \in Nat
            /\ IsFiniteSet(stragglers) /\ Cardinality(stragglers) \in Nat
<1> SUFFICES ASSUME TypeOK
             PROVE  /\ IsFiniteSet(InFlight) /\ IsFiniteSet(stragglers)
  BY FS_CardinalityType
<1>1. InFlight \in SUBSET Caller /\ stragglers \in SUBSET Caller
  BY DEF TypeOK, InFlight
<1>2. QED
  BY <1>1, FS_Subset, BreakerAssumption DEF BreakerAssumption

(* A sequence that ends was in flight and no longer is.                    *)
LEMMA EndLeaves ==
  ASSUME TypeOK, NEW c \in Caller, phase[c] # "idle", End(c)
  PROVE  /\ InFlight' = InFlight \ {c}
         /\ Cardinality(InFlight') = Cardinality(InFlight) - 1
<1>1. InFlight' = InFlight \ {c} /\ c \in InFlight
  BY DEF TypeOK, End, InFlight
<1>2. QED
  BY <1>1, FiniteLoad, FS_RemoveElement

LEMMA LoadStep == TypeOK /\ LoadNeverGrows /\ [Next]_vars => LoadNeverGrows'
<1> SUFFICES ASSUME TypeOK, LoadNeverGrows, [Next]_vars
             PROVE  LoadNeverGrows'
  OBVIOUS
<1> USE DEF LoadNeverGrows
<1>0. /\ IsFiniteSet(InFlight) /\ Cardinality(InFlight) \in Nat
      /\ Cardinality(stragglers) \in Nat
  BY FiniteLoad
<1>1. ASSUME NEW c \in Caller, phase[c] # "idle", End(c),
             OnSuccess(c) \/ ReleaseProbe(c)
      PROVE  LoadNeverGrows'
  <2>1. Cardinality(InFlight') = Cardinality(InFlight) - 1
    BY <1>1, EndLeaves
  <2>2. /\ halfOpen' => halfOpen
        /\ probeInflight' = FALSE /\ stragglers' = stragglers
    <3>1. CASE OnSuccess(c)
      BY <3>1 DEF OnSuccess
    <3>2. CASE ReleaseProbe(c)
      BY <3>2 DEF ReleaseProbe
    <3>3. QED
      BY <1>1, <3>1, <3>2
  <2>3. QED
    BY <1>0, <2>1, <2>2
<1>2. ASSUME NEW c \in Caller, phase[c] # "idle", End(c), OnFailure(c)
      PROVE  LoadNeverGrows'
  <2>1. /\ InFlight' = InFlight \ {c}
        /\ Cardinality(InFlight') = Cardinality(InFlight) - 1
    BY <1>2, EndLeaves
  <2>2. CASE halfOpen
    BY <1>0, <1>2, <2>1, <2>2 DEF OnFailure
  <2>3. CASE ~halfOpen
    <3>1. halfOpen' => stragglers' = InFlight'
      BY <1>2, <2>1, <2>3 DEF OnFailure
    <3>2. probeInflight' = FALSE
      BY <1>2 DEF OnFailure
    <3>3. QED
      BY <1>0, <2>1, <3>1, <3>2
  <2>4. QED
    BY <2>2, <2>3
<1>3. ASSUME NEW c \in Caller, Admit(c)
      PROVE  LoadNeverGrows'
  <2>1. InFlight' = InFlight \union {c}
    BY <1>3 DEF TypeOK, Admit, InFlight
  <2>2. Cardinality(InFlight') <= Cardinality(InFlight) + 1
        /\ Cardinality(InFlight') \in Nat
    BY <1>0, <2>1, FS_AddElement, FS_CardinalityType
  <2>3. /\ stragglers' = stragglers /\ halfOpen' = halfOpen
        /\ halfOpen => ~probeInflight /\ probeInflight'
    BY <1>3 DEF Admit
  <2>4. QED
    BY <1>0, <2>2, <2>3
<1>4. ASSUME NEW c \in Caller, Acquire(c) \/ BackOff(c) \/ Retry(c)
      PROVE  LoadNeverGrows'
  <2>1. InFlight' = InFlight
    BY <1>4 DEF TypeOK, Acquire, BackOff, Retry, InFlight
  <2>2. UNCHANGED <<stragglers, halfOpen, probeInflight>>
    BY <1>4 DEF Acquire, BackOff, Retry, breaker, ghosts
  <2>3. QED
    BY <2>1, <2>2
<1>5. CASE CooldownLapses \/ Recover \/ UNCHANGED vars
  <2>1. UNCHANGED <<phase, stragglers, halfOpen, probeInflight>>
    BY <1>5 DEF CooldownLapses, Recover, vars, sequence, breaker, ghosts
  <2>2. InFlight' = InFlight
    BY <2>1 DEF InFlight
  <2>3. QED
    BY <2>1, <2>2
<1>6. QED
  BY <1>1, <1>2, <1>3, <1>4, <1>5
     DEF Next, Proceed, Succeed, Refused, Exhaust, Deadline, Cancel

(* A late verdict may free a probe slot that is not its own, and a second  *)
(* probe starts; but each end admits at most one start, so the load never  *)
(* exceeds what it was when the breaker opened by more than one.           *)
THEOREM LoadBounded == Spec => []LoadNeverGrows
<1>1. Init => LoadNeverGrows
  BY DEF Init, LoadNeverGrows
<1>2. QED
  BY <1>1, TypeCorrect, LoadStep, PTL DEF Spec

-----------------------------------------------------------------------------
(* Signing.                                                                *)

Bodies == {"text", "sealed"}
Addresses == [how : {"typed", "derived", "nobody"}, edition : Nat]
Statements == [to : Addresses, body : Bodies]
TaskRecord == [kind : Kinds \cup {"none", "keys"},
               pc : {"idle", "find", "make", "write", "vouch", "ask", "sign", "post"},
               signer : Signer \cup {Absent}, to : Addresses, body : Bodies,
               calm : BOOLEAN, key : SigningKey \cup {Absent}, over : Statements,
               known : BOOLEAN]

(* What a task knows of its addressing: while nothing has changed it is    *)
(* what the server would derive.                                           *)
AddressShape(t) ==
  /\ t.kind = "send" => t.to = Typed
  /\ t.kind = "draft" => t.to.how = "derived"
  /\ t.kind = "reply" => t.to = Nobody \/ t.to.how = "derived"
  /\ (t.to.how = "derived" /\ t.calm) => t.to = Derived

(* What it knows of its key: the file is the one writer's until it is      *)
(* written, and from then on it is the signer's only key.                  *)
KeyShape(c, t, secrets, given) ==
  /\ t.pc # "idle" => t.signer \in Signer
  /\ t.pc \in {"ask", "sign", "post"} => t.kind \in Kinds
  /\ t.pc \in {"ask", "sign"} => t.key = Absent
  /\ t.pc = "write" => secrets[FileOf(t.signer)] = c
  /\ t.pc = "vouch" => t.key \in SigningKey /\ secrets[FileOf(t.signer)] = t.key
  /\ (t.pc = "post" /\ t.key # Absent) =>
       /\ secrets[FileOf(t.signer)] = t.key
       /\ t.over = Statement(t.to, t.body)
       /\ t.known => <<t.signer, t.key>> \in given

(* What a signed message keeps of that.                                    *)
LetterShape(m) ==
  m.key # Absent =>
    /\ m.from \in Signer /\ m.key \in SigningKey /\ m.key.file = FileOf(m.from)
    /\ m.known => <<m.from, m.key>> \in offered
    /\ (m.calm /\ m.over.to # Nobody) => m.over = m.stored

SigningTypes ==
  /\ secret \in [Signer -> Client \cup SigningKey \cup {Absent}]
  /\ \A s \in Signer : secret[s] \in SigningKey => secret[s].file = s
  /\ offered \subseteq Signer \X SigningKey
  /\ edition \in Nat
  /\ task \in [Client -> TaskRecord]
OneKeyEach == \A o \in offered : secret[FileOf(o[1])] = o[2]
Tasks == \A c \in Client : AddressShape(task[c]) /\ KeyShape(c, task[c], secret, offered)
Letters == \A m \in letters : LetterShape(m)
SigningInv == SigningTypes /\ OneKeyEach /\ Tasks /\ Letters

LEMMA NoTaskFits == NoTask \in TaskRecord
  BY DEF NoTask, TaskRecord, Addresses, Statements, Bodies, Kinds, Nobody, To, Unsigned, Statement

(* A task whose client does nothing keeps its shape while others write     *)
(* their own files and publish.                                            *)
LEMMA OthersKeepShape ==
  ASSUME SigningInv, NEW c \in Client, UNCHANGED edition, offered \subseteq offered',
         \A s \in Signer : secret'[s] = secret[s] \/ secret[s] \in {Absent, c},
         NEW d \in Client \ {c}, task'[d] = task[d]
  PROVE  AddressShape(task[d])' /\ KeyShape(d, task'[d], secret', offered')
<1> USE SigningAssumption DEF SigningAssumption, SigningKey
<1>1. /\ AddressShape(task[d]) /\ KeyShape(d, task[d], secret, offered) /\ task[d] \in TaskRecord
  BY DEF SigningInv, SigningTypes, Tasks
<1>2. AddressShape(task[d])'
  BY <1>1 DEF AddressShape, Typed, Derived, Nobody, To
<1>3. d # Absent /\ d \notin SigningKey /\ c \notin SigningKey /\ Absent \notin SigningKey
  OBVIOUS
<1>4. ASSUME task[d].pc # "idle"
      PROVE  secret'[task[d].signer] = secret[task[d].signer]
                \/ secret[task[d].signer] \in {Absent, c}
  BY <1>1, <1>4 DEF KeyShape
<1>5. KeyShape(d, task'[d], secret', offered')
  BY <1>1, <1>3, <1>4 DEF KeyShape, FileOf, TaskRecord
<1>6. QED
  BY <1>2, <1>5

(* So a step of one client needs looking at for that client alone.         *)
LEMMA ClientStep ==
  ASSUME SigningInv, NEW c \in Client, NEW t \in TaskRecord, Does(c, t),
         UNCHANGED edition, offered \subseteq offered',
         \A s \in Signer : secret'[s] = secret[s] \/ secret[s] \in {Absent, c},
         AddressShape(t), KeyShape(c, t, secret', offered')
  PROVE  Tasks' /\ task' \in [Client -> TaskRecord]
<1>1. task \in [Client -> TaskRecord]
  BY DEF SigningInv, SigningTypes
<1>2. task'[c] = t /\ task' \in [Client -> TaskRecord] /\ \A d \in Client \ {c} : task'[d] = task[d]
  BY <1>1 DEF Does
<1>3. AddressShape(task[c])'
  BY <1>2 DEF AddressShape, Typed, Derived, Nobody, To
<1>4. KeyShape(c, task'[c], secret', offered')
  BY <1>2 DEF KeyShape
<1>5. QED
  BY <1>2, <1>3, <1>4, OthersKeepShape DEF Tasks

LEMMA SigningInitInv == SigningInit => SigningInv
<1> SUFFICES ASSUME SigningInit
             PROVE  SigningInv
  OBVIOUS
<1> USE SigningAssumption DEF SigningAssumption, SigningKey
<1>1. SigningTypes
  BY NoTaskFits DEF SigningInit, SigningTypes
<1>2. AddressShape(NoTask) /\ \A c \in Client : KeyShape(c, NoTask, secret, offered)
  BY DEF NoTask, AddressShape, KeyShape, Nobody, To
<1>3. Tasks /\ OneKeyEach /\ Letters
  BY <1>2 DEF SigningInit, Tasks, OneKeyEach, Letters
<1>4. QED
  BY <1>1, <1>3 DEF SigningInv

LEMMA IdleShape == AddressShape(NoTask) /\ \A c \in Client : KeyShape(c, NoTask, secret', offered')
  BY DEF NoTask, AddressShape, KeyShape, Nobody, To

(* Steps that leave the files, what the server has and the letters alone.  *)
LEMMA QuietClientStep ==
  ASSUME SigningInv, NEW c \in Client, NEW t \in TaskRecord, Does(c, t),
         UNCHANGED <<secret, offered, edition, letters>>,
         AddressShape(t), KeyShape(c, t, secret', offered')
  PROVE  SigningInv'
<1>1. Tasks' /\ task' \in [Client -> TaskRecord]
  BY ClientStep
<1>2. SigningTypes' /\ OneKeyEach' /\ Letters'
  BY <1>1 DEF SigningInv, SigningTypes, OneKeyEach, Letters, LetterShape
<1>3. QED
  BY <1>1, <1>2 DEF SigningInv

LEMMA KeyStepsKeep ==
  ASSUME SigningInv, NEW c \in Client
  PROVE  /\ \A s \in Signer : KeysSign(c, s) => SigningInv'
         /\ FindKey(c) => SigningInv'
         /\ MakeKey(c) => SigningInv'
         /\ WriteKey(c) => SigningInv'
         /\ Vouch(c) => SigningInv'
         /\ Perish(c) => SigningInv'
<1> USE SigningAssumption DEF SigningAssumption
<1>0. /\ SigningTypes /\ OneKeyEach /\ Letters
      /\ task[c] \in TaskRecord /\ AddressShape(task[c]) /\ KeyShape(c, task[c], secret, offered)
      /\ secret \in [Signer -> Client \cup SigningKey \cup {Absent}]
      /\ c # Absent /\ c \notin SigningKey /\ Absent \notin SigningKey
  BY DEF SigningInv, SigningTypes, Tasks, SigningKey
<1>1. ASSUME NEW s \in Signer, KeysSign(c, s)
      PROVE  SigningInv'
  <2> DEFINE t == [NoTask EXCEPT !.kind = "keys", !.pc = "find", !.signer = s]
  <2>1. t \in TaskRecord
    BY NoTaskFits DEF NoTask, TaskRecord
  <2>2. AddressShape(t) /\ KeyShape(c, t, secret', offered')
    BY DEF NoTask, AddressShape, KeyShape, Nobody, To
  <2>3. Does(c, t) /\ UNCHANGED <<secret, offered, edition, letters>>
    BY <1>1 DEF KeysSign
  <2>4. QED
    BY <2>1, <2>2, <2>3, QuietClientStep
<1>2. ASSUME Sits(c, "find"), NEW pc \in {"make"}, Moves(c, pc),
             UNCHANGED <<secret, offered, edition, letters>>
      PROVE  SigningInv'
  <2> DEFINE t == [task[c] EXCEPT !.pc = pc]
  <2>1. t \in TaskRecord
    BY <1>0 DEF TaskRecord
  <2>2. AddressShape(t) /\ KeyShape(c, t, secret', offered')
    BY <1>0, <1>2 DEF TaskRecord, AddressShape, KeyShape, Sits
  <2>3. QED
    BY <1>2, <2>1, <2>2, QuietClientStep DEF Moves
<1>3. ASSUME Ends(c), UNCHANGED <<secret, offered, edition, letters>>
      PROVE  SigningInv'
  BY <1>3, NoTaskFits, IdleShape, QuietClientStep DEF Ends
<1>4. ASSUME FindKey(c)
      PROVE  SigningInv'
  <2> DEFINE found == secret[FileOf(task[c].signer)]
             t == [task[c] EXCEPT !.pc = "vouch", !.key = found]
  <2>1. CASE found \in SigningKey
    <3>1. t \in TaskRecord
      BY <1>0, <2>1 DEF TaskRecord
    <3>2. UNCHANGED <<secret, offered, edition, letters>> /\ task[c].pc = "find"
      BY <1>4 DEF FindKey, Sits
    <3>3. AddressShape(t) /\ KeyShape(c, t, secret', offered')
      BY <1>0, <2>1, <3>2 DEF TaskRecord, AddressShape, KeyShape
    <3>4. Does(c, t)
      BY <1>0, <1>4, <2>1 DEF FindKey
    <3>5. QED
      BY <3>1, <3>2, <3>3, <3>4, QuietClientStep
  <2>2. CASE found \notin SigningKey
    BY <1>2, <1>3, <1>4, <2>2 DEF FindKey
  <2>3. QED
    BY <2>1, <2>2
<1>5. ASSUME MakeKey(c)
      PROVE  SigningInv'
  <2> DEFINE f == FileOf(task[c].signer)
  <2>1. Sits(c, "make") /\ UNCHANGED <<offered, edition, letters>> /\ f \in Signer
    BY <1>0, <1>5 DEF MakeKey, KeyShape, Sits, FileOf
  <2>2. CASE secret[f] # Absent
    <3> DEFINE t == [task[c] EXCEPT !.pc = "find"]
    <3>1. t \in TaskRecord
      BY <1>0 DEF TaskRecord
    <3>2. AddressShape(t) /\ KeyShape(c, t, secret', offered')
      BY <1>0, <2>1 DEF TaskRecord, AddressShape, KeyShape, Sits
    <3>3. Does(c, t) /\ UNCHANGED secret
      BY <1>5, <2>2 DEF MakeKey, Moves
    <3>4. QED
      BY <2>1, <3>1, <3>2, <3>3, QuietClientStep
  <2>3. CASE secret[f] = Absent
    <3> DEFINE t == [task[c] EXCEPT !.pc = "write"]
    <3>1. t \in TaskRecord
      BY <1>0 DEF TaskRecord
    <3>2. Does(c, t) /\ secret' = [secret EXCEPT ![f] = c]
      BY <1>5, <2>3 DEF MakeKey, Moves
    <3>3. secret'[f] = c /\ \A s \in Signer \ {f} : secret'[s] = secret[s]
      BY <1>0, <2>1, <3>2
    <3>4. AddressShape(t) /\ KeyShape(c, t, secret', offered')
      BY <1>0, <2>1, <3>3 DEF TaskRecord, AddressShape, KeyShape, Sits, FileOf
    <3>5. Tasks' /\ task' \in [Client -> TaskRecord]
      BY <2>1, <2>3, <3>1, <3>2, <3>3, <3>4, ClientStep
    <3>6. SigningTypes'
      BY <1>0, <2>1, <3>2, <3>3, <3>5 DEF SigningTypes
    <3>7. OneKeyEach'
      BY <1>0, <2>1, <2>3, <3>3 DEF OneKeyEach, SigningTypes, FileOf
    <3>8. Letters'
      BY <1>0, <2>1 DEF Letters, LetterShape
    <3>9. QED
      BY <3>5, <3>6, <3>7, <3>8 DEF SigningInv
  <2>4. QED
    BY <2>2, <2>3
<1>6. ASSUME WriteKey(c)
      PROVE  SigningInv'
  <2> DEFINE f == FileOf(task[c].signer)
             key == [file |-> f, by |-> c]
             t == [task[c] EXCEPT !.pc = "vouch", !.key = key]
  <2>1. /\ Sits(c, "write") /\ UNCHANGED <<offered, edition, letters>> /\ f \in Signer
        /\ secret[f] = c /\ Does(c, t) /\ secret' = [secret EXCEPT ![f] = key]
    BY <1>0, <1>6 DEF WriteKey, KeyShape, Sits, FileOf
  <2>2. key \in SigningKey /\ key.file = f
    BY <2>1 DEF SigningKey
  <2> HIDE DEF key
  <2>3. t \in TaskRecord
    BY <1>0, <2>2 DEF TaskRecord
  <2>4. secret'[f] = key /\ \A s \in Signer \ {f} : secret'[s] = secret[s]
    BY <1>0, <2>1
  <2>5. AddressShape(t) /\ KeyShape(c, t, secret', offered')
    BY <1>0, <2>1, <2>2, <2>4 DEF TaskRecord, AddressShape, KeyShape, Sits, FileOf
  <2>6. Tasks' /\ task' \in [Client -> TaskRecord]
    BY <2>1, <2>3, <2>4, <2>5, ClientStep
  <2>7. SigningTypes'
    BY <1>0, <2>1, <2>2, <2>4, <2>6 DEF SigningTypes
  <2>8. OneKeyEach'
    BY <1>0, <2>1, <2>4 DEF OneKeyEach, SigningTypes, FileOf
  <2>9. Letters'
    BY <1>0, <2>1 DEF Letters, LetterShape
  <2>10. QED
    BY <2>6, <2>7, <2>8, <2>9 DEF SigningInv
<1>7. ASSUME Vouch(c)
      PROVE  SigningInv'
  <2>1. /\ UNCHANGED <<secret, edition, letters>> /\ Does(c, NoTask)
        /\ offered' = offered \/ offered' = offered \cup {<<task[c].signer, task[c].key>>}
    BY <1>7 DEF Vouch, Ends
  <2>2. /\ task[c].signer \in Signer /\ task[c].key \in SigningKey
        /\ secret[FileOf(task[c].signer)] = task[c].key
    BY <1>0, <1>7 DEF Vouch, Sits, KeyShape
  <2>3. Tasks' /\ task' \in [Client -> TaskRecord]
    BY <2>1, NoTaskFits, IdleShape, ClientStep
  <2>4. SigningTypes' /\ OneKeyEach'
    BY <1>0, <2>1, <2>2, <2>3 DEF SigningTypes, OneKeyEach, FileOf
  <2>5. Letters'
    BY <1>0, <2>1 DEF Letters, LetterShape
  <2>6. QED
    BY <2>3, <2>4, <2>5 DEF SigningInv
<1>8. ASSUME Perish(c)
      PROVE  SigningInv'
  BY <1>3, <1>8 DEF Perish
<1>9. QED
  BY <1>1, <1>4, <1>5, <1>6, <1>7, <1>8

LEMMA SendStepsKeep ==
  ASSUME SigningInv, NEW c \in Client
  PROVE  /\ \A s \in Signer : SendLetter(c, s) \/ ReplyLetter(c, s) \/ SendStored(c, s) => SigningInv'
         /\ Ask(c) => SigningInv'
         /\ Sign(c) => SigningInv'
         /\ Deliver(c) => SigningInv'
<1> USE SigningAssumption DEF SigningAssumption
<1>0. /\ SigningTypes /\ OneKeyEach /\ Letters /\ edition \in Nat
      /\ task[c] \in TaskRecord /\ AddressShape(task[c]) /\ KeyShape(c, task[c], secret, offered)
      /\ secret \in [Signer -> Client \cup SigningKey \cup {Absent}]
      /\ Absent \notin SigningKey /\ Client \cap SigningKey = {}
  BY DEF SigningInv, SigningTypes, Tasks, SigningKey
<1>1. ASSUME NEW s \in Signer, NEW kind \in Kinds, NEW to \in Addresses, Writes(c, s, kind, to),
             kind = "send" => to = Typed, kind = "draft" => to.how = "derived",
             kind = "reply" => to = Nobody, to.how = "derived" => to = Derived
      PROVE  SigningInv'
  <2> DEFINE t == [NoTask EXCEPT !.kind = kind, !.pc = "ask", !.signer = s, !.to = to]
  <2>1. t \in TaskRecord
    BY NoTaskFits DEF NoTask, TaskRecord
  <2>2. AddressShape(t) /\ KeyShape(c, t, secret', offered')
    BY <1>1 DEF NoTask, AddressShape, KeyShape
  <2>3. Does(c, t) /\ UNCHANGED <<secret, offered, edition, letters>>
    BY <1>1 DEF Writes
  <2>4. QED
    BY <2>1, <2>2, <2>3, QuietClientStep
<1>2. /\ Typed \in Addresses /\ Derived \in Addresses /\ Nobody \in Addresses
      /\ Typed.how = "typed" /\ Derived.how = "derived" /\ Nobody.how = "nobody"
  BY <1>0 DEF Typed, Derived, Nobody, To, Addresses
<1>3. ASSUME NEW s \in Signer, SendLetter(c, s) \/ ReplyLetter(c, s) \/ SendStored(c, s)
      PROVE  SigningInv'
  BY <1>1, <1>2, <1>3 DEF SendLetter, ReplyLetter, SendStored, Kinds
<1>4. ASSUME Ends(c), UNCHANGED <<secret, offered, edition, letters>>
      PROVE  SigningInv'
  BY <1>4, NoTaskFits, IdleShape, QuietClientStep DEF Ends
<1>5. ASSUME Ask(c)
      PROVE  SigningInv'
  <2> DEFINE answered == [task[c] EXCEPT
               !.pc = IF task[c].kind = "draft" /\ ~encrypted THEN "post" ELSE "sign",
               !.to = IF task[c].kind = "reply" THEN Derived ELSE task[c].to,
               !.body = IF encrypted THEN "sealed" ELSE "text"]
             refused == [task[c] EXCEPT !.pc = IF task[c].kind = "draft" THEN "post" ELSE "sign"]
  <2>1. /\ task[c].pc = "ask" /\ UNCHANGED <<secret, offered, edition, letters>>
        /\ Does(c, answered) \/ Does(c, refused) \/ Ends(c)
    BY <1>5 DEF Ask, Sits
  <2>2. answered \in TaskRecord /\ refused \in TaskRecord
    <3>1. /\ (IF task[c].kind = "draft" /\ ~encrypted THEN "post" ELSE "sign") \in {"post", "sign"}
          /\ (IF task[c].kind = "draft" THEN "post" ELSE "sign") \in {"post", "sign"}
          /\ (IF task[c].kind = "reply" THEN Derived ELSE task[c].to) \in Addresses
          /\ (IF encrypted THEN "sealed" ELSE "text") \in Bodies
      BY <1>0, <1>2 DEF TaskRecord, Bodies
    <3>2. ASSUME NEW pc \in {"post", "sign"}, NEW to \in Addresses, NEW body \in Bodies
          PROVE  /\ [task[c] EXCEPT !.pc = pc, !.to = to, !.body = body] \in TaskRecord
                 /\ [task[c] EXCEPT !.pc = pc] \in TaskRecord
      BY <1>0 DEF TaskRecord
    <3>3. QED
      BY <3>1, <3>2
  <2>3. AddressShape(refused) /\ KeyShape(c, refused, secret', offered')
    BY <1>0, <2>1 DEF TaskRecord, AddressShape, KeyShape
  <2>4. AddressShape(answered)
    BY <1>0, <1>2 DEF TaskRecord, AddressShape
  <2>5. KeyShape(c, answered, secret', offered')
    BY <1>0, <2>1 DEF TaskRecord, KeyShape
  <2> HIDE DEF answered, refused
  <2>6. QED
    BY <1>4, <2>1, <2>2, <2>3, <2>4, <2>5, QuietClientStep
<1>6. ASSUME Sign(c)
      PROVE  SigningInv'
  <2> DEFINE plain == [task[c] EXCEPT !.pc = "post"]
             key == KeyAt(task[c].signer)
             signed == [plain EXCEPT !.key = key, !.over = Statement(task[c].to, task[c].body),
                                     !.known = Known(task[c].signer)]
  <2>1. /\ task[c].pc = "sign" /\ UNCHANGED <<secret, offered, edition, letters>>
        /\ Does(c, plain) \/ (key # Absent /\ Does(c, signed))
    BY <1>6 DEF Sign, Sits, Signed
  <2>2. task[c].signer \in Signer /\ task[c].key = Absent
    BY <1>0, <2>1 DEF KeyShape
  <2>3. /\ key \in SigningKey \cup {Absent}
        /\ key # Absent => key \in SigningKey /\ secret[FileOf(task[c].signer)] = key
    BY DEF KeyAt
  <2>4. plain \in TaskRecord /\ AddressShape(plain) /\ KeyShape(c, plain, secret', offered')
    <3>1. plain \in TaskRecord
      BY <1>0 DEF TaskRecord
    <3>2. AddressShape(plain)
      BY <1>0 DEF TaskRecord, AddressShape
    <3>3. KeyShape(c, plain, secret', offered')
      BY <1>0, <2>1, <2>2 DEF TaskRecord, KeyShape
    <3>4. QED
      BY <3>1, <3>2, <3>3
  <2>5. Known(task[c].signer) \in BOOLEAN
    BY DEF Known
  <2>6. (key # Absent /\ Known(task[c].signer)) => <<task[c].signer, key>> \in offered
    <3>1. SUFFICES ASSUME key # Absent, Known(task[c].signer)
                   PROVE  <<task[c].signer, key>> \in offered
      OBVIOUS
    <3>2. PICK d \in Client : <<task[c].signer, [file |-> FileOf(task[c].signer), by |-> d]>> \in offered
      BY <3>1 DEF Known
    <3>3. secret[FileOf(task[c].signer)] = [file |-> FileOf(task[c].signer), by |-> d]
      BY <1>0, <3>2 DEF OneKeyEach
    <3>4. QED
      BY <2>3, <3>1, <3>2, <3>3
  <2>7. Statement(task[c].to, task[c].body) \in Statements
    BY <1>0 DEF TaskRecord, Statement, Statements
  <2> DEFINE knows == Known(task[c].signer)
             over == Statement(task[c].to, task[c].body)
  <2> HIDE DEF key, knows, over
  <2>8. key # Absent => signed \in TaskRecord /\ AddressShape(signed)
                          /\ KeyShape(c, signed, secret', offered')
    <3>0. signed = [task[c] EXCEPT !.pc = "post", !.key = key, !.over = over, !.known = knows]
      BY <1>0 DEF TaskRecord, knows, over
    <3>1. signed \in TaskRecord
      BY <1>0, <2>3, <2>5, <2>7, <3>0 DEF TaskRecord, knows, over
    <3>2. AddressShape(signed)
      BY <1>0, <3>0 DEF TaskRecord, AddressShape
    <3>3. key # Absent => KeyShape(c, signed, secret', offered')
      BY <1>0, <2>1, <2>2, <2>3, <2>6, <3>0 DEF TaskRecord, KeyShape, knows, over
    <3>4. QED
      BY <3>1, <3>2, <3>3
  <2>9. QED
    BY <2>1, <2>4, <2>8, QuietClientStep
<1>7. ASSUME Deliver(c)
      PROVE  SigningInv'
  <2> DEFINE t == task[c]
             m == [from |-> t.signer, key |-> t.key, over |-> t.over, calm |-> t.calm,
                   stored |-> Statement(IF t.kind = "send" THEN t.to ELSE Derived, t.body),
                   known |-> t.known]
  <2>1. /\ t.pc = "post" /\ UNCHANGED <<secret, offered, edition>> /\ Does(c, NoTask)
        /\ letters' = letters \/ letters' = letters \cup {m}
    BY <1>7 DEF Deliver, Sits, Ends
  <2>2. LetterShape(m)
    <3>1. SUFFICES ASSUME t.key # Absent
                   PROVE  /\ t.signer \in Signer /\ t.key \in SigningKey
                          /\ t.key.file = FileOf(t.signer)
                          /\ t.known => <<t.signer, t.key>> \in offered
                          /\ (t.calm /\ t.over.to # Nobody) => t.over = m.stored
      BY DEF LetterShape
    <3>2. /\ t.signer \in Signer /\ secret[FileOf(t.signer)] = t.key /\ t.kind \in Kinds
          /\ t.over = Statement(t.to, t.body) /\ (t.known => <<t.signer, t.key>> \in offered)
      BY <1>0, <2>1, <3>1 DEF KeyShape
    <3>3. t.key \in SigningKey
      BY <1>0, <3>1 DEF TaskRecord
    <3>4. t.key.file = FileOf(t.signer)
      BY <1>0, <3>2, <3>3 DEF SigningTypes, FileOf
    <3>5. t.over.to = t.to
      BY <3>2 DEF Statement
    <3>6. (t.calm /\ t.to # Nobody) => t.to = (IF t.kind = "send" THEN t.to ELSE Derived)
      BY <1>0, <3>2 DEF AddressShape, Kinds
    <3>7. QED
      BY <3>2, <3>3, <3>4, <3>5, <3>6
  <2>3. Tasks' /\ task' \in [Client -> TaskRecord]
    BY <2>1, NoTaskFits, IdleShape, ClientStep
  <2>4. SigningTypes' /\ OneKeyEach'
    BY <1>0, <2>1, <2>3 DEF SigningTypes, OneKeyEach
  <2>5. Letters'
    BY <1>0, <2>1, <2>2 DEF Letters, LetterShape
  <2>6. QED
    BY <2>3, <2>4, <2>5 DEF SigningInv
<1>8. QED
  BY <1>3, <1>5, <1>6, <1>7

LEMMA ServerStepsKeep ==
  ASSUME SigningInv
  PROVE  /\ \A o \in offered : Withdraw(o) => SigningInv'
         /\ Edit => SigningInv'
<1>1. ASSUME NEW o \in offered, Withdraw(o)
      PROVE  SigningInv'
  BY <1>1 DEF Withdraw, SigningInv, SigningTypes, OneKeyEach, Tasks, Letters, LetterShape,
     AddressShape, Derived
<1>2. ASSUME Edit
      PROVE  SigningInv'
  <2>1. /\ UNCHANGED <<secret, offered, letters>> /\ edition' = edition + 1
        /\ task \in [Client -> TaskRecord] /\ edition \in Nat
        /\ task' = [c \in Client |-> IF task[c].to.how = "derived"
                                     THEN [task[c] EXCEPT !.calm = FALSE] ELSE task[c]]
    BY <1>2 DEF Edit, SigningInv, SigningTypes
  <2>2. ASSUME NEW c \in Client
        PROVE  /\ task'[c] \in TaskRecord /\ AddressShape(task[c])'
               /\ KeyShape(c, task'[c], secret', offered')
    <3>1. task[c] \in TaskRecord /\ AddressShape(task[c]) /\ KeyShape(c, task[c], secret, offered)
      BY <2>1 DEF SigningInv, Tasks
    <3>2. CASE task[c].to.how = "derived"
      <4>1. task'[c] = [task[c] EXCEPT !.calm = FALSE]
        BY <2>1, <3>2
      <4>2. task'[c] \in TaskRecord
        BY <3>1, <4>1 DEF TaskRecord
      <4>3. AddressShape(task[c])'
        BY <3>1, <4>1 DEF TaskRecord, AddressShape, Typed, Nobody, To
      <4>4. KeyShape(c, task'[c], secret', offered')
        BY <2>1, <3>1, <4>1 DEF TaskRecord, KeyShape
      <4>5. QED
        BY <4>2, <4>3, <4>4
    <3>3. CASE task[c].to.how # "derived"
      <4>1. task'[c] = task[c]
        BY <2>1, <3>3
      <4>2. QED
        BY <2>1, <3>1, <3>3, <4>1 DEF AddressShape, Typed, Nobody, To
    <3>4. QED
      BY <3>2, <3>3
  <2>3. Tasks' /\ task' \in [Client -> TaskRecord]
    BY <2>1, <2>2 DEF Tasks
  <2>4. SigningTypes' /\ OneKeyEach' /\ Letters'
    BY <2>1, <2>3 DEF SigningInv, SigningTypes, OneKeyEach, Letters, LetterShape
  <2>5. QED
    BY <2>3, <2>4 DEF SigningInv
<1>3. QED
  BY <1>1, <1>2

LEMMA SigningInductive == SigningInv /\ [SigningNext]_signVars => SigningInv'
<1> SUFFICES ASSUME SigningInv, [SigningNext]_signVars
             PROVE  SigningInv'
  OBVIOUS
<1>1. CASE UNCHANGED signVars
  BY <1>1 DEF signVars, SigningInv, SigningTypes, OneKeyEach, Tasks, Letters, LetterShape,
     AddressShape, Derived
<1>2. QED
  BY <1>1, KeyStepsKeep, SendStepsKeep, ServerStepsKeep DEF SigningNext, SignStep

(* Each client is at a stage that goes with the key files and with what    *)
(* the server was given, and each letter keeps what its sender knew.       *)
THEOREM SigningInvariant == SigningSpec => []SigningInv
  BY SigningInitInv, SigningInductive, PTL DEF SigningSpec

(* No honest message reads as forged but by a change of its addressing or  *)
(* as a reply that could not ask; a signer whose key was published is      *)
(* uncheckable only once it is revoked; nobody else holds the key. For any *)
(* number of agents, clients, messages and edits.                          *)
THEOREM SignaturesCorrect == SigningSpec => []SignaturesTellTheTruth
<1>1. SigningInv => SignaturesTellTheTruth
  <2> SUFFICES ASSUME SigningInv, NEW m \in letters
               PROVE  /\ \A hashed \in BOOLEAN :
                           ExitCode(Verdict(m, hashed)) = 1 => ~m.calm \/ m.over.to = Nobody
                      /\ (m.known /\ Verdict(m, TRUE) = "unverifiable") => <<m.from, m.key>> \in withdrawn
                      /\ m.key # Absent => \A s \in Signer : s # m.from => KeyAt(s) # m.key
    BY DEF SignaturesTellTheTruth
  <2>1. LetterShape(m) /\ SigningTypes
    BY DEF SigningInv, Letters
  <2>2. ASSUME NEW hashed \in BOOLEAN, ExitCode(Verdict(m, hashed)) = 1
        PROVE  ~m.calm \/ m.over.to = Nobody
    <3>1. m.key # Absent /\ m.over # m.stored
      BY <2>2 DEF ExitCode, Verdict
    <3>2. QED
      BY <2>1, <3>1 DEF LetterShape
  <2>3. (m.known /\ Verdict(m, TRUE) = "unverifiable") => <<m.from, m.key>> \in withdrawn
    BY <2>1 DEF LetterShape, Verdict
  <2>4. ASSUME m.key # Absent, NEW s \in Signer, s # m.from
        PROVE  KeyAt(s) # m.key
    <3>1. m.key.file = m.from /\ (KeyAt(s) = Absent \/ KeyAt(s).file = s)
      BY <2>1, <2>4 DEF LetterShape, SigningTypes, KeyAt, FileOf
    <3>2. QED
      BY <2>4, <3>1
  <2>5. QED
    BY <2>2, <2>3, <2>4
<1>2. QED
  BY <1>1, SigningInvariant, PTL

-----------------------------------------------------------------------------
(* Sealing.                                                                *)
JobRecord == [op : {"none", "publish", "rotate", "send", "note", "reseal"},
              seat : Seat \cup {None},
              pc : {"idle", "look", "create", "fill", "harden", "publish", "retire",
                    "copy", "unlink", "post", "put"},
              mine : Key \cup {None, Other}, key : Key \cup {None, Blank},
              keys : SUBSET Key, todo : SUBSET Nat]

SealingTypes ==
  /\ file \in [Seat -> Key \cup Process \cup {None}]
  /\ retired \in [Seat -> [Key \cup {Other} -> Key \cup {None, Blank}]]
  /\ made \in [Seat -> Nat]
  /\ published \subseteq Key
  /\ mail \subseteq SUBSET Key
  /\ notes \in Seq(Key)
  /\ job \in [Process -> JobRecord]
  /\ muddled \subseteq Seat

(* Every key in a seat's files was made there.                             *)
OwnKeysOnly ==
  \A s \in Seat : /\ file[s] \in Key => Home(file[s]) = s
                  /\ \A m \in Key \cup {Other} : retired[s][m] \in Key => Home(retired[s][m]) = s

(* The stages of a job: from the creation on, a job has a key of its seat, *)
(* which unless rotations are muddled the seat holds once it is written; a *)
(* rotation's key is in the file until it is unlinked, and by then is      *)
(* retired under its own name.                                             *)
Clear(s) == s \notin muddled
InUse(j) == j.pc \in {"publish", "post", "put"}
KeyStage(p, j) ==
  /\ j.pc # "idle" => j.seat \in Seat
  /\ j.pc \in {"fill", "harden"} \/ InUse(j) => j.key \in Key /\ Home(j.key) = j.seat
  /\ j.pc = "fill" /\ Clear(j.seat) => file[j.seat] = p
  /\ (j.pc = "harden" \/ InUse(j)) /\ Clear(j.seat) => Opens(j.seat, j.key)
RotationStage(j) ==
  /\ j.pc \in {"retire", "copy", "unlink"} => j.mine \in Key \cup {Other}
  /\ j.pc \in {"retire", "copy", "unlink"} /\ Clear(j.seat)
       => j.mine \in Key /\ file[j.seat] = j.mine
  /\ j.pc = "copy" => j.key = Blank \/ (j.key \in Key /\ Home(j.key) = j.seat)
  /\ j.pc = "copy" /\ Clear(j.seat) => j.key = j.mine
  /\ j.pc = "unlink" /\ Clear(j.seat) => retired[j.seat][j.mine] = j.mine
TodoStage(j) ==
  /\ j.pc # "idle" => j.keys \subseteq published
  /\ j.todo \subseteq DOMAIN notes /\ \A n \in j.todo : Home(notes[n]) = j.seat
Jobs == \A p \in Process :
  KeyStage(p, job[p]) /\ RotationStage(job[p]) /\ TodoStage(job[p])

(* Where rotations are not muddled there is one at a time, and a retired   *)
(* name is taken by its own key, or is being written by that rotation.     *)
OneRotation == \A s \in Seat : Clear(s) =>
  \A p, q \in Process : Retiring(p, s) /\ Retiring(q, s) => p = q
RetiredAreRight == \A s \in Seat : Clear(s) => \A m \in Key \cup {Other} :
  \/ retired[s][m] = None
  \/ m \in Key /\ retired[s][m] = m
  \/ /\ retired[s][m] = Blank
     /\ \E p \in Process : At(p, "copy") /\ job[p].seat = s /\ job[p].mine = m
Entries(ns) == {ns[n] : n \in DOMAIN ns}
Stored == published \cup (UNION mail) \cup Entries(notes)
StoredAreHeld == \A k \in Stored : Clear(Home(k)) => Opens(Home(k), k)

SealingInv == SealingTypes /\ OwnKeysOnly /\ Jobs /\ OneRotation /\ RetiredAreRight /\ StoredAreHeld

LEMMA KeyFacts ==
  /\ \A k \in Key : Home(k) \in Seat
  /\ \A s \in Seat : \A n \in 1..MaxKeys[s] : <<s, n>> \in Key /\ Home(<<s, n>>) = s
  BY DEF Key, Home

LEMMA EntryFacts == \A ns : \A k : k \in Entries(ns) <=> \E n \in DOMAIN ns : k = ns[n]
  BY Zenon DEF Entries

LEMMA Distinct ==
  /\ None \notin Key /\ Blank \notin Key /\ Other \notin Key
  /\ None \notin Process /\ Process \cap Key = {}
  /\ None # Blank /\ Other # None
  BY SealedMailAssumption DEF SealedMailAssumption

(* What a step of p may do to the files: no seat loses a key, nobody       *)
(* else's half-made file goes, nothing moves under another's rotation.     *)
FilesSafe(p) == \A s \in Seat \ muddled' :
  /\ \A k \in Key : Opens(s, k) => Opens(s, k)'
  /\ file[s] \in Process \ {p} => file'[s] = file[s]
  /\ \A q \in Process \ {p} : Retiring(q, s) => file'[s] = file[s] /\ retired'[s] = retired[s]

\* Entries are only added, or sealed again by the seat that wrote them.
NotesGrow == /\ notes' \in Seq(Key) /\ DOMAIN notes \subseteq DOMAIN notes'
             /\ \A n \in DOMAIN notes : Home(notes'[n]) = Home(notes[n])
Grows == /\ published \subseteq published' /\ published' \subseteq Key
         /\ mail' \subseteq SUBSET Key /\ NotesGrow
         /\ muddled \subseteq muddled' /\ muddled' \subseteq Seat

LEMMA OthersKeepStage ==
  ASSUME SealingInv, NEW p \in Process, FilesSafe(p), Grows,
         NEW q \in Process \ {p}, job'[q] = job[q]
  PROVE  KeyStage(q, job[q])' /\ RotationStage(job[q])' /\ TodoStage(job[q])'
<1>1. job[q] \in JobRecord /\ KeyStage(q, job[q]) /\ RotationStage(job[q]) /\ TodoStage(job[q])
  BY DEF SealingInv, SealingTypes, Jobs
<1>2. ASSUME job[q].pc # "idle", Clear(job[q].seat)'
      PROVE  /\ job[q].seat \in Seat \ muddled' /\ Clear(job[q].seat)
  BY <1>1, <1>2 DEF KeyStage, Clear, Grows
<1>3. KeyStage(q, job[q])'
  <2>1. ASSUME job[q].pc = "fill", Clear(job[q].seat)'
        PROVE  file'[job[q].seat] = q
    BY <1>1, <1>2, <2>1 DEF KeyStage, FilesSafe
  <2>2. ASSUME job[q].pc = "harden" \/ InUse(job[q]), Clear(job[q].seat)'
        PROVE  Opens(job[q].seat, job[q].key)'
    <3>1. job[q].pc # "idle"
      BY <2>2 DEF InUse
    <3>2. Opens(job[q].seat, job[q].key) /\ job[q].key \in Key
      BY <1>1, <1>2, <2>2, <3>1 DEF KeyStage
    <3>3. \A s \in Seat \ muddled', k \in Key : Opens(s, k) => Opens(s, k)'
      BY DEF FilesSafe
    <3>4. Opens(job[q].seat, job[q].key) => job[q].key \in Held(job[q].seat)'
      BY <1>2, <2>2, <3>1, <3>2, <3>3 DEF Opens
    <3>5. QED
      BY <3>2, <3>4 DEF Opens, Held
  <2>3. /\ job[q].pc # "idle" => job[q].seat \in Seat
        /\ job[q].pc \in {"fill", "harden"} \/ InUse(job[q])
             => job[q].key \in Key /\ Home(job[q].key) = job[q].seat
    BY <1>1 DEF KeyStage
  <2>4. QED
    BY <2>1, <2>2, <2>3 DEF KeyStage, InUse, Clear, Opens, Held
<1>4. RotationStage(job[q])'
  <2>1. ASSUME job[q].pc \in {"retire", "copy", "unlink"}, Clear(job[q].seat)'
        PROVE  /\ file'[job[q].seat] = file[job[q].seat]
               /\ retired'[job[q].seat] = retired[job[q].seat]
    <3>1. Retiring(q, job[q].seat)
      BY <2>1 DEF Retiring
    <3>2. QED
      BY <1>2, <2>1, <3>1 DEF FilesSafe
  <2>2. QED
    BY <1>1, <1>2, <2>1 DEF RotationStage, Clear
<1>5. TodoStage(job[q])'
  BY <1>1 DEF TodoStage, Grows, NotesGrow
<1>6. QED
  BY <1>3, <1>4, <1>5

(* A step of p needs looking at for p, for the files and for what is       *)
(* stored.                                                                 *)
LEMMA JobStep ==
  ASSUME SealingInv, NEW p \in Process, NEW t \in JobRecord, job' = [job EXCEPT ![p] = t],
         FilesSafe(p), Grows,
         file' \in [Seat -> Key \cup Process \cup {None}],
         retired' \in [Seat -> [Key \cup {Other} -> Key \cup {None, Blank}]],
         made' \in [Seat -> Nat],
         OwnKeysOnly', RetiredAreRight', StoredAreHeld',
         KeyStage(p, job[p])', RotationStage(job[p])', TodoStage(job[p])',
         \A s \in Seat \ muddled' : Retiring(p, s)' =>
            Retiring(p, s) \/ \A q \in Process : ~Retiring(q, s)
  PROVE  SealingInv'
<1>1. job \in [Process -> JobRecord] /\ OneRotation
  BY DEF SealingInv, SealingTypes
<1>2. /\ job'[p] = t /\ job' \in [Process -> JobRecord]
      /\ \A q \in Process \ {p} : job'[q] = job[q]
  BY <1>1
<1>3. SealingTypes'
  BY <1>2 DEF SealingTypes, Grows, NotesGrow
<1>4. Jobs'
  BY <1>2, OthersKeepStage DEF Jobs
<1>5. OneRotation'
  <2>1. SUFFICES ASSUME NEW s \in Seat, Clear(s)', NEW q \in Process, NEW r \in Process,
                        Retiring(q, s)', Retiring(r, s)'
                 PROVE  q = r
    BY DEF OneRotation
  <2>2. s \in Seat \ muddled' /\ Clear(s)
    BY <2>1 DEF Clear, Grows
  <2>3. \A x \in Process \ {p} : Retiring(x, s)' => Retiring(x, s)
    BY <1>2 DEF Retiring
  <2>4. QED
    BY <1>1, <2>1, <2>2, <2>3 DEF OneRotation
<1>6. QED
  BY <1>3, <1>4, <1>5 DEF SealingInv

(* Steps that leave the files alone.                                       *)
LEMMA QuietStep ==
  ASSUME SealingInv, NEW p \in Process, NEW t \in JobRecord, job' = [job EXCEPT ![p] = t],
         UNCHANGED files, Grows, StoredAreHeld',
         KeyStage(p, job[p])', RotationStage(job[p])', TodoStage(job[p])',
         At(p, "copy") => job[p].seat \in muddled',
         \A s \in Seat \ muddled' : Retiring(p, s)' =>
            Retiring(p, s) \/ \A q \in Process : ~Retiring(q, s)
  PROVE  SealingInv'
<1>1. file' = file /\ retired' = retired /\ made' = made
  BY DEF files
<1>2. FilesSafe(p)
  BY <1>1 DEF FilesSafe, Opens, Held
<1>3. OwnKeysOnly'
  BY <1>1 DEF SealingInv, OwnKeysOnly
<1>4. RetiredAreRight'
  <2>1. job \in [Process -> JobRecord]
    BY DEF SealingInv, SealingTypes
  <2>2. SUFFICES ASSUME NEW s \in Seat, Clear(s)', NEW m \in Key \cup {Other}
                 PROVE  \/ retired[s][m] = None
                        \/ m \in Key /\ retired[s][m] = m
                        \/ /\ retired[s][m] = Blank
                           /\ \E q \in Process : At(q, "copy")' /\ job'[q].seat = s /\ job'[q].mine = m
    BY <1>1 DEF RetiredAreRight
  <2>3. Clear(s)
    BY <2>2 DEF Clear, Grows
  <2>4. ASSUME NEW q \in Process, At(q, "copy"), job[q].seat = s, job[q].mine = m
        PROVE  At(q, "copy")' /\ job'[q].seat = s /\ job'[q].mine = m
    <3>1. q # p
      BY <2>2, <2>4 DEF Clear
    <3>2. QED
      BY <2>1, <2>4, <3>1 DEF At
  <2>5. QED
    BY <2>3, <2>4 DEF SealingInv, RetiredAreRight
<1>5. QED
  BY <1>1, <1>2, <1>3, <1>4, JobStep DEF SealingInv, SealingTypes

LEMMA NoJobFits == NoJob \in JobRecord
  BY DEF NoJob, Job, JobRecord

LEMMA PublishingFits == \A s \in Seat : Publishing(s) \in JobRecord
  BY DEF Publishing, Job, JobRecord

(* Nothing but jobs changes.                                               *)
Still == UNCHANGED <<file, retired, made, published, mail, notes, muddled>>

LEMMA StillStep ==
  ASSUME SealingInv, NEW p \in Process, NEW t \in JobRecord, job' = [job EXCEPT ![p] = t],
         Still, ~At(p, "copy"), t.pc \notin {"retire", "copy", "unlink"},
         t.pc # "idle" => t.seat \in Seat /\ t.keys \subseteq published,
         t.pc \in {"fill", "harden"} \/ InUse(t) =>
            t.pc # "fill" /\ t.key \in Key /\ Home(t.key) = t.seat /\ (Clear(t.seat) => Opens(t.seat, t.key)),
         t.todo \subseteq DOMAIN notes, \A n \in t.todo : Home(notes[n]) = t.seat
  PROVE  SealingInv'
<1>1. SealingTypes /\ StoredAreHeld /\ job'[p] = t
  BY DEF SealingInv, SealingTypes
<1>2. UNCHANGED files /\ Grows
  BY <1>1 DEF Still, files, Grows, NotesGrow, SealingTypes
<1>3. StoredAreHeld'
  BY <1>1 DEF Still, StoredAreHeld, Stored, Clear, Opens, Held
<1>4. KeyStage(p, job[p])'
  BY <1>1 DEF KeyStage, InUse, Still, Clear, Opens, Held
<1>5. RotationStage(job[p])' /\ TodoStage(job[p])'
  BY <1>1 DEF RotationStage, TodoStage, Still
<1>6. \A s \in Seat : ~Retiring(p, s)'
  BY <1>1 DEF Retiring
<1>7. QED
  BY <1>2, <1>3, <1>4, <1>5, <1>6, QuietStep

LEMMA EndStep ==
  ASSUME SealingInv, NEW p \in Process, Stop(p), Still, ~At(p, "copy")
  PROVE  SealingInv'
<1>1. /\ NoJob.pc = "idle" /\ NoJob.todo = {}
  BY DEF NoJob, Job
<1>2. ~InUse(NoJob)
  BY <1>1 DEF InUse
<1>3. QED
  BY <1>1, <1>2, NoJobFits, StillStep DEF Stop

(* A command begins with a look.                                           *)
LEMMA BeginStep ==
  ASSUME SealingInv, NEW p \in Process, NEW s \in Seat, NEW op \in {"publish", "send", "note", "reseal"},
         NEW keys \in SUBSET published, NEW todo \in SUBSET (DOMAIN notes),
         \A n \in todo : Home(notes[n]) = s,
         job' = [job EXCEPT ![p] = Job(op, s, "look", None, None, keys, todo)],
         Still, ~At(p, "copy")
  PROVE  SealingInv'
<1> DEFINE t == Job(op, s, "look", None, None, keys, todo)
<1>1. published \subseteq Key /\ notes \in Seq(Key)
  BY DEF SealingInv, SealingTypes
<1>2. DOMAIN notes \subseteq Nat
  BY <1>1
<1>3. t \in JobRecord
  BY <1>1, <1>2 DEF Job, JobRecord
<1>4. t.pc = "look" /\ t.seat = s /\ t.keys = keys /\ t.todo = todo
  BY DEF Job
<1>5. ~InUse(t)
  BY <1>4 DEF InUse
<1> HIDE DEF t
<1>6. job' = [job EXCEPT ![p] = t]
  BY DEF t
<1>7. QED
  BY <1>3, <1>4, <1>5, <1>6, StillStep

LEMMA IdleIsNotCopying == \A p \in Process : At(p, "idle") => ~At(p, "copy")
  BY DEF At

LEMMA CommandKeeps ==
  ASSUME SealingInv, NEW p \in Process, NEW s \in Seat, Command(p, s)
  PROVE  SealingInv'
<1>0. /\ SealingTypes /\ OwnKeysOnly /\ Jobs /\ OneRotation /\ RetiredAreRight /\ StoredAreHeld
  BY DEF SealingInv
<1> DEFINE none == {}
<1>z. none \in SUBSET published /\ none \in SUBSET (DOMAIN notes) /\ \A n \in none : Home(notes[n]) = s
  OBVIOUS
<1>1. ASSUME Start(p, Publishing(s)), Still
      PROVE  SealingInv'
  <2>1. At(p, "idle") /\ job' = [job EXCEPT ![p] = Job("publish", s, "look", None, None, none, none)]
    BY <1>1 DEF Start, Publishing
  <2>2. ~At(p, "copy")
    BY <2>1, IdleIsNotCopying
  <2>3. QED
    BY <1>1, <1>z, <2>1, <2>2, BeginStep
<1>2. CASE Setup(p, s)
  BY <1>1, <1>2 DEF Setup, files, server, Still
<1>3. ASSUME NEW to \in Recipients, SealTo(p, s, to)
      PROVE  SealingInv'
  <2> DEFINE all == UNION {Offered(a) : a \in to}
  <2>1. all \in SUBSET published
    BY DEF Offered
  <2> HIDE DEF all
  <2>2. At(p, "idle") /\ job' = [job EXCEPT ![p] = Job("send", s, "look", None, None, all, none)]
    BY <1>3 DEF SealTo, Start, all
  <2>3. Still
    BY <1>3 DEF SealTo, files, server, Still
  <2>4. QED
    BY <2>1, <2>2, <2>3, BeginStep, IdleIsNotCopying, <1>z
<1>4. CASE Send(p, s) \/ Reply(p, s) \/ Forward(p, s) \/ \E n \in DOMAIN notes : SendDraft(p, s, n)
  BY <1>3, <1>4 DEF Send, Reply, Forward, SendDraft
<1>5. CASE Note(p, s) \/ Draft(p, s)
  <2>1. At(p, "idle") /\ job' = [job EXCEPT ![p] = Job("note", s, "look", None, None, none, none)]
    BY <1>5 DEF Note, Draft, SealToSelf, Start
  <2>2. Still
    BY <1>5 DEF Note, Draft, SealToSelf, files, server, Still
  <2>3. QED
    BY <2>1, <2>2, BeginStep, IdleIsNotCopying, <1>z
<1>6. CASE Reseal(p, s)
  <2> DEFINE plan == ResealPlan(s)
  <2>1. plan \subseteq DOMAIN notes /\ \A n \in plan : Home(notes[n]) = s
    BY <1>0 DEF ResealPlan, Opens, Held, OwnKeysOnly
  <2> HIDE DEF plan
  <2>2. At(p, "idle") /\ job' = [job EXCEPT ![p] = Job("reseal", s, "look", None, None, none, plan)]
    BY <1>6 DEF Reseal, Start, plan
  <2>3. Still
    BY <1>6 DEF Reseal, files, server, Still
  <2>4. QED
    BY <2>1, <2>2, <2>3, BeginStep, IdleIsNotCopying, <1>z
<1>7. CASE Rotate(p, s)
  <2>1. PICK mine \in Fingerprint(s) :
       /\ Start(p, IF mine = None THEN Publishing(s)
                   ELSE Job("rotate", s, "retire", mine, None, {}, {}))
       /\ muddled' = IF mine = Other \/ (mine # None /\ \E q \in Process : Retiring(q, s))
                     THEN muddled \cup {s} ELSE muddled
    BY <1>7 DEF Rotate
  <2>2. UNCHANGED <<file, retired, made, published, mail, notes>> /\ UNCHANGED files
    BY <1>7 DEF Rotate, files, server
  <2>3. CASE mine = None
    BY <1>1, <2>1, <2>2, <2>3, Distinct DEF Still
  <2>4. CASE mine # None
    <3> DEFINE t == Job("rotate", s, "retire", mine, None, {}, {})
    <3>1. mine \in Key \cup {Other} /\ (mine \in Key => file[s] = mine)
      BY <2>4, Distinct DEF Fingerprint, CurrentKey
    <3>2. t \in JobRecord
      BY <3>1 DEF Job, JobRecord
    <3>3. /\ t.pc = "retire" /\ t.seat = s /\ t.keys = {} /\ t.todo = {} /\ t.mine = mine
      BY DEF Job
    <3> HIDE DEF t
    <3>4. At(p, "idle") /\ job' = [job EXCEPT ![p] = t]
      BY <2>1, <2>4 DEF Start, t
    <3>5. job'[p] = t
      BY <1>0, <3>4 DEF SealingTypes
    <3>6. Grows
      BY <1>0, <2>1, <2>2 DEF Grows, NotesGrow, SealingTypes
    <3>7. StoredAreHeld'
      BY <1>0, <2>2, <3>6 DEF Grows, StoredAreHeld, Stored, Clear, Opens, Held
    <3>8. KeyStage(p, job[p])' /\ TodoStage(job[p])'
      BY <3>3, <3>5 DEF KeyStage, InUse, TodoStage
    <3>9. Clear(s)' => mine \in Key
      BY <2>1, <3>1 DEF Clear
    <3>10. RotationStage(job[p])'
      BY <2>2, <3>1, <3>3, <3>5, <3>9 DEF RotationStage
    <3>11. \A x \in Seat \ muddled' : Retiring(p, x)' => \A q \in Process : ~Retiring(q, x)
      BY <2>1, <2>4, <3>3, <3>5 DEF Retiring
    <3>12. QED
      BY <2>2, <3>2, <3>4, <3>6, <3>7, <3>8, <3>10, <3>11, QuietStep, IdleIsNotCopying
  <2>5. QED
    BY <2>3, <2>4
<1>8. QED
  BY <1>2, <1>4, <1>5, <1>6, <1>7 DEF Command

LEMMA QuietWorkKeeps ==
  ASSUME SealingInv, NEW p \in Process
  PROVE  /\ Look(p) => SealingInv'
         /\ Harden(p) => SealingInv'
         /\ Publish(p) => SealingInv'
         /\ Post(p) => SealingInv'
         /\ Put(p) => SealingInv'
         /\ Die(p) => SealingInv'
<1>0. /\ SealingTypes /\ OwnKeysOnly /\ StoredAreHeld
      /\ job[p] \in JobRecord /\ KeyStage(p, job[p]) /\ RotationStage(job[p]) /\ TodoStage(job[p])
      /\ job \in [Process -> JobRecord]
  BY DEF SealingInv, Jobs, SealingTypes
<1>1. ASSUME NEW k \in Key, Keyed(p, k), Still, ~At(p, "copy"), ~At(p, "idle"),
             Home(k) = job[p].seat, Clear(job[p].seat) => Opens(job[p].seat, k)
      PROVE  SealingInv'
  <2> DEFINE t == [job[p] EXCEPT !.key = k, !.pc = AfterKey(job[p].op)]
  <2>1. AfterKey(job[p].op) \in {"post", "put", "publish"}
    BY DEF AfterKey
  <2>2. t \in JobRecord /\ t.pc \in {"post", "put", "publish"} /\ t.key = k
        /\ t.seat = job[p].seat /\ t.keys = job[p].keys /\ t.todo = job[p].todo
    BY <1>0, <2>1 DEF JobRecord
  <2>3. job' = [job EXCEPT ![p] = t]
    BY <1>0, <1>1 DEF Keyed
  <2>4. job[p].seat \in Seat /\ job[p].keys \subseteq published
    BY <1>0, <1>1 DEF KeyStage, TodoStage, At
  <2> HIDE DEF t
  <2>5. QED
    BY <1>0, <1>1, <2>2, <2>3, <2>4, StillStep DEF TodoStage
<1>2. ASSUME NEW pc \in {"look", "create"}, Goto(p, pc), Still, At(p, "look")
      PROVE  SealingInv'
  <2> DEFINE t == [job[p] EXCEPT !.pc = pc]
  <2>1. t \in JobRecord /\ t.pc = pc
        /\ t.seat = job[p].seat /\ t.keys = job[p].keys /\ t.todo = job[p].todo
    BY <1>0 DEF JobRecord
  <2>2. job' = [job EXCEPT ![p] = t]
    BY <1>0, <1>2 DEF Goto
  <2>3. job[p].seat \in Seat /\ job[p].keys \subseteq published
    BY <1>0, <1>2 DEF KeyStage, TodoStage, At
  <2> HIDE DEF t
  <2>4. QED
    BY <1>0, <1>2, <2>1, <2>2, <2>3, StillStep DEF TodoStage, InUse, At
<1>3. ASSUME Look(p)
      PROVE  SealingInv'
  <2>1. At(p, "look") /\ Still /\ job[p].seat \in Seat
    BY <1>0, <1>3 DEF Look, files, server, Still, KeyStage, At
  <2>2. ~At(p, "copy") /\ ~At(p, "idle")
    BY <2>1 DEF At
  <2>3. CASE file[job[p].seat] \in Key
    <3>1. Keyed(p, file[job[p].seat])
      BY <1>3, <2>3, Distinct DEF Look
    <3>2. Home(file[job[p].seat]) = job[p].seat /\ Opens(job[p].seat, file[job[p].seat])
      BY <1>0, <2>1, <2>3 DEF OwnKeysOnly, Opens, Held
    <3>3. QED
      BY <1>1, <2>1, <2>2, <2>3, <3>1, <3>2
  <2>4. CASE file[job[p].seat] \notin Key
    <3>1. Goto(p, "create") \/ Stop(p)
      <4> DEFINE f == file[job[p].seat]
      <4>1. CASE f = None
        BY <1>3, <2>4, <4>1 DEF Look
      <4>2. CASE f # None
        BY <1>3, <2>4, <4>2 DEF Look
      <4>3. QED
        BY <4>1, <4>2
    <3>2. QED
      BY <1>2, <2>1, <2>2, <3>1, EndStep
  <2>5. QED
    BY <2>3, <2>4
<1>4. ASSUME Harden(p)
      PROVE  SealingInv'
  <2>1. At(p, "harden") /\ Still
    BY <1>4 DEF Harden, files, server, Still
  <2>2. ~At(p, "copy") /\ ~At(p, "idle")
    BY <2>1 DEF At
  <2>3. /\ job[p].key \in Key /\ Home(job[p].key) = job[p].seat
        /\ Clear(job[p].seat) => Opens(job[p].seat, job[p].key)
    BY <1>0, <2>1 DEF KeyStage, At
  <2>4. Stop(p) \/ Keyed(p, job[p].key)
    BY <1>4 DEF Harden
  <2>5. QED
    BY <1>1, <2>1, <2>2, <2>3, <2>4, EndStep
<1>5. \* A stop after something was given to the server.
      ASSUME InUse(job[p]), UNCHANGED files, UNCHANGED muddled, Grows, Stop(p),
             \A k \in Stored' : k \in Stored \/ (k \in Key /\ (Clear(Home(k)) => Opens(Home(k), k)))
      PROVE  SealingInv'
  <2>1. job'[p] = NoJob /\ NoJob.pc = "idle" /\ NoJob.todo = {}
    BY <1>0, <1>5 DEF Stop, NoJob, Job
  <2>2. StoredAreHeld'
    BY <1>0, <1>5 DEF StoredAreHeld, Clear, Opens, Held, files
  <2>3. KeyStage(p, job[p])' /\ RotationStage(job[p])' /\ TodoStage(job[p])'
    BY <2>1 DEF KeyStage, RotationStage, TodoStage, InUse
  <2>4. ~At(p, "copy")
    BY <1>5 DEF At, InUse
  <2>5. \A s \in Seat : ~Retiring(p, s)'
    BY <2>1 DEF Retiring
  <2>6. QED
    BY <1>5, <2>2, <2>3, <2>4, <2>5, NoJobFits, QuietStep DEF Stop
<1>6. InUse(job[p]) => /\ job[p].key \in Key /\ Home(job[p].key) = job[p].seat
                       /\ Clear(job[p].seat) => Opens(job[p].seat, job[p].key)
                       /\ job[p].keys \subseteq published
  BY <1>0 DEF KeyStage, TodoStage, InUse
<1>7. ASSUME Publish(p)
      PROVE  SealingInv'
  <2>1. InUse(job[p]) /\ UNCHANGED files /\ UNCHANGED <<mail, notes, muddled>> /\ Stop(p)
        /\ (published' = published \/ published' = published \cup {job[p].key})
    BY <1>7 DEF Publish, InUse, At
  <2>2. Grows
    BY <1>0, <1>6, <2>1 DEF Grows, NotesGrow, SealingTypes
  <2>3. \A k \in Stored' : k \in Stored \/ k = job[p].key
    BY <2>1 DEF Stored
  <2>4. QED
    BY <1>5, <1>6, <2>1, <2>2, <2>3
<1>8. ASSUME Post(p)
      PROVE  SealingInv'
  <2>1. /\ InUse(job[p]) /\ UNCHANGED files /\ UNCHANGED <<published, muddled>> /\ Stop(p)
        /\ \/ mail' = mail \cup {job[p].keys \cup {job[p].key}} /\ notes' = notes
           \/ notes' = Append(notes, job[p].key) /\ mail' = mail
           \/ mail' = mail /\ notes' = notes
    BY <1>8 DEF Post, InUse, At
  <2>2. job[p].keys \subseteq Key /\ job[p].key \in Key /\ notes \in Seq(Key)
    BY <1>0, <1>6, <2>1 DEF JobRecord, SealingTypes
  <2>3. CASE mail' = mail \cup {job[p].keys \cup {job[p].key}} /\ notes' = notes
    <3>1. Grows
      BY <1>0, <2>1, <2>2, <2>3 DEF Grows, NotesGrow, SealingTypes
    <3>2. \A k \in UNION mail' : k \in UNION mail \/ k \in job[p].keys \/ k = job[p].key
      BY <2>3
    <3>3. ASSUME NEW k \in Stored'
          PROVE  k \in Stored \/ k = job[p].key
      BY <1>6, <2>1, <2>3, <3>2, <3>3 DEF Stored
    <3>4. QED
      BY <1>5, <1>6, <2>1, <3>1, <3>3
  <2>4. CASE notes' = Append(notes, job[p].key) /\ mail' = mail
    <3>1. /\ notes' \in Seq(Key) /\ DOMAIN notes \subseteq DOMAIN notes'
          /\ \A n \in DOMAIN notes : notes'[n] = notes[n]
          /\ \A n \in DOMAIN notes' : n \in DOMAIN notes \/ notes'[n] = job[p].key
      BY <2>2, <2>4
    <3>2. Grows
      BY <1>0, <2>1, <2>4, <3>1 DEF Grows, NotesGrow, SealingTypes
    <3>3. ASSUME NEW k \in Stored'
          PROVE  k \in Stored \/ k = job[p].key
      <4>1. k \in published \cup (UNION mail) \/ \E n \in DOMAIN notes' : k = notes'[n]
        BY <2>1, <2>4, <3>3, EntryFacts DEF Stored
      <4>2. QED
        BY <3>1, <4>1, EntryFacts DEF Stored
    <3>4. QED
      BY <1>5, <1>6, <2>1, <3>2, <3>3
  <2>5. CASE mail' = mail /\ notes' = notes
    <3>1. Grows
      BY <1>0, <2>1, <2>5 DEF Grows, NotesGrow, SealingTypes
    <3>2. Stored' = Stored
      BY <2>1, <2>5 DEF Stored
    <3>3. QED
      BY <1>5, <2>1, <3>1, <3>2
  <2>6. QED
    BY <2>1, <2>3, <2>4, <2>5
<1>9. ASSUME Put(p)
      PROVE  SealingInv'
  <2>1. PICK n \in job[p].todo :
          \/ /\ notes' = [notes EXCEPT ![n] = job[p].key]
             /\ IF job[p].todo = {n} THEN Stop(p)
                ELSE job' = [job EXCEPT ![p].todo = @ \ {n}]
          \/ UNCHANGED notes /\ Stop(p)
    BY <1>9 DEF Put
  <2>2. /\ job[p].pc = "put" /\ InUse(job[p]) /\ UNCHANGED files
        /\ UNCHANGED <<published, mail, muddled>>
    BY <1>9 DEF Put, At, InUse
  <2>3. /\ notes \in Seq(Key) /\ n \in DOMAIN notes /\ Home(notes[n]) = job[p].seat
        /\ job[p].key \in Key /\ Home(job[p].key) = job[p].seat
    BY <1>0, <1>6, <2>2 DEF SealingTypes, TodoStage
  <2>4. /\ notes' \in Seq(Key) /\ DOMAIN notes' = DOMAIN notes
        /\ \A i \in DOMAIN notes : notes'[i] = notes[i] \/ (i = n /\ notes'[i] = job[p].key)
    BY <2>1, <2>3
  <2>5. Grows
    BY <1>0, <2>2, <2>3, <2>4 DEF Grows, NotesGrow, SealingTypes
  <2>6. ASSUME NEW k \in Stored'
        PROVE  k \in Stored \/ k = job[p].key
    <3>1. k \in published \cup (UNION mail) \/ \E i \in DOMAIN notes' : k = notes'[i]
      BY <2>2, <2>6, EntryFacts DEF Stored
    <3>2. QED
      BY <2>4, <3>1, EntryFacts DEF Stored
  <2>7. CASE Stop(p)
    BY <1>5, <1>6, <2>2, <2>5, <2>6, <2>7
  <2>8. CASE job' = [job EXCEPT ![p].todo = @ \ {n}]
    <3> DEFINE t == [job[p] EXCEPT !.todo = @ \ {n}]
    <3>1. t \in JobRecord /\ t.pc = "put" /\ t.key = job[p].key /\ t.seat = job[p].seat
          /\ t.keys = job[p].keys /\ t.todo = job[p].todo \ {n}
      BY <1>0, <2>2 DEF JobRecord
    <3>2. job' = [job EXCEPT ![p] = t] /\ job'[p] = t
      BY <1>0, <2>8
    <3> HIDE DEF t
    <3>3. StoredAreHeld'
      BY <1>0, <1>6, <2>2, <2>6 DEF StoredAreHeld, Clear, Opens, Held, files
    <3>4. KeyStage(p, job[p])'
      BY <1>0, <1>6, <2>2, <3>1, <3>2 DEF KeyStage, InUse, Clear, Opens, Held, files
    <3>5. RotationStage(job[p])'
      BY <3>1, <3>2 DEF RotationStage
    <3>6. TodoStage(job[p])'
      BY <1>0, <1>6, <2>2, <2>5, <3>1, <3>2 DEF TodoStage, Grows, NotesGrow
    <3>7. \A s \in Seat : ~Retiring(p, s)'
      BY <3>1, <3>2 DEF Retiring
    <3>8. ~At(p, "copy")
      BY <2>2 DEF At
    <3>9. QED
      BY <2>2, <2>5, <3>1, <3>2, <3>3, <3>4, <3>5, <3>6, <3>7, <3>8, QuietStep
  <2>9. QED
    BY <2>1, <2>7, <2>8
<1>10. ASSUME Die(p)
       PROVE  SealingInv'
  <2>1. /\ Stop(p) /\ UNCHANGED files /\ UNCHANGED <<published, mail, notes>>
        /\ muddled' = IF At(p, "copy") THEN muddled \cup {job[p].seat} ELSE muddled
    BY <1>10 DEF Die, server
  <2>2. At(p, "copy") => job[p].seat \in Seat
    BY <1>0 DEF KeyStage, At
  <2>3. Grows
    BY <1>0, <2>1, <2>2 DEF Grows, NotesGrow, SealingTypes
  <2>4. job'[p] = NoJob /\ NoJob.pc = "idle" /\ NoJob.todo = {}
    BY <1>0, <2>1 DEF Stop, NoJob, Job
  <2>5. StoredAreHeld'
    BY <1>0, <2>1, <2>3 DEF StoredAreHeld, Stored, Clear, Opens, Held, files, Grows
  <2>6. KeyStage(p, job[p])' /\ RotationStage(job[p])' /\ TodoStage(job[p])'
    BY <2>4 DEF KeyStage, RotationStage, TodoStage, InUse
  <2>7. \A s \in Seat : ~Retiring(p, s)'
    BY <2>4 DEF Retiring
  <2>8. QED
    BY <2>1, <2>3, <2>5, <2>6, <2>7, NoJobFits, QuietStep DEF Stop
<1>11. QED
  BY <1>3, <1>4, <1>7, <1>8, <1>9, <1>10

(* Steps on the files.                                                     *)
LEMMA SafeFilesHold ==
  ASSUME SealingInv, NEW p \in Process, FilesSafe(p), UNCHANGED <<server, muddled>>
  PROVE  StoredAreHeld' /\ Grows
<1>1. SealingTypes /\ StoredAreHeld
  BY DEF SealingInv
<1>2. UNCHANGED <<published, mail, notes, muddled>>
  BY DEF server
<1>3. Stored \subseteq Key /\ Stored' = Stored
  <2>1. published \subseteq Key /\ UNION mail \subseteq Key /\ \A n \in DOMAIN notes : notes[n] \in Key
    BY <1>1 DEF SealingTypes
  <2>2. Entries(notes) \subseteq Key
    BY <2>1, EntryFacts
  <2>3. QED
    BY <1>2, <2>1, <2>2 DEF Stored
<1>4. ASSUME NEW k \in Stored', Clear(Home(k))'
      PROVE  Opens(Home(k), k)'
  <2>1. k \in Key /\ Home(k) \in Seat \ muddled' /\ Opens(Home(k), k)
    BY <1>1, <1>2, <1>3, <1>4, KeyFacts DEF StoredAreHeld, Clear
  <2>2. \A s \in Seat \ muddled', x \in Key : Opens(s, x) => Opens(s, x)'
    BY DEF FilesSafe
  <2>3. Opens(Home(k), k) => k \in Held(Home(k))'
    BY <2>1, <2>2 DEF Opens
  <2>4. QED
    BY <2>1, <2>3 DEF Opens, Held
<1>5. StoredAreHeld'
  BY <1>4 DEF StoredAreHeld, Opens, Held
<1>6. Grows
  BY <1>1, <1>2 DEF Grows, NotesGrow, SealingTypes
<1>7. QED
  BY <1>5, <1>6

LEMMA RetiredStay ==
  ASSUME SealingInv, NEW p \in Process, NEW t, job' = [job EXCEPT ![p] = t],
         UNCHANGED <<retired, muddled>>, ~At(p, "copy")
  PROVE  RetiredAreRight'
<1>1. job \in [Process -> JobRecord] /\ RetiredAreRight
  BY DEF SealingInv, SealingTypes
<1>2. ASSUME NEW q \in Process, At(q, "copy")
      PROVE  job'[q] = job[q]
  BY <1>1, <1>2 DEF At
<1>3. QED
  BY <1>1, <1>2 DEF RetiredAreRight, Clear, At

LEMMA FileStep ==
  ASSUME SealingInv, NEW p \in Process, NEW t \in JobRecord, job' = [job EXCEPT ![p] = t],
         FilesSafe(p), UNCHANGED <<server, muddled>>,
         file' \in [Seat -> Key \cup Process \cup {None}],
         retired' \in [Seat -> [Key \cup {Other} -> Key \cup {None, Blank}]],
         made' \in [Seat -> Nat],
         OwnKeysOnly', RetiredAreRight', KeyStage(p, job[p])', RotationStage(job[p])',
         t.keys \subseteq job[p].keys, t.todo \subseteq job[p].todo,
         t.todo # {} => t.seat = job[p].seat, ~At(p, "idle"),
         t.pc \in {"retire", "copy", "unlink"} => Retiring(p, t.seat)
  PROVE  SealingInv'
<1>1. SealingTypes /\ TodoStage(job[p]) /\ job'[p] = t
  BY DEF SealingInv, Jobs, SealingTypes
<1>2. StoredAreHeld' /\ Grows
  BY SafeFilesHold
<1>5. TodoStage(job[p])'
  BY <1>1 DEF TodoStage, server, At
<1>6. \A s \in Seat : Retiring(p, s)' => Retiring(p, s)
  BY <1>1 DEF Retiring
<1>7. QED
  BY <1>2, <1>5, <1>6, JobStep

LEMMA FileWorkKeeps ==
  ASSUME SealingInv, NEW p \in Process
  PROVE  /\ Create(p) => SealingInv'
         /\ Fill(p) => SealingInv'
         /\ Retire(p) => SealingInv'
         /\ Copy(p) => SealingInv'
         /\ Unlink(p) => SealingInv'
<1> DEFINE s == job[p].seat
           mine == job[p].mine
<1>0. /\ SealingTypes /\ OwnKeysOnly /\ OneRotation /\ RetiredAreRight
      /\ job[p] \in JobRecord /\ KeyStage(p, job[p]) /\ RotationStage(job[p]) /\ TodoStage(job[p])
      /\ \A q \in Process : job[q] \in JobRecord /\ RotationStage(job[q])
      /\ file \in [Seat -> Key \cup Process \cup {None}]
      /\ retired \in [Seat -> [Key \cup {Other} -> Key \cup {None, Blank}]]
      /\ made \in [Seat -> Nat] /\ job \in [Process -> JobRecord]
  BY DEF SealingInv, Jobs, SealingTypes
<1>1. \* Nobody rotates a key that is not in the file.
      \A q \in Process, x \in Seat \ muddled : Retiring(q, x) => file[x] \in Key
  BY <1>0 DEF RotationStage, Retiring, Clear
<1>2. ASSUME Create(p)
      PROVE  SealingInv'
  <2>1. At(p, "create") /\ UNCHANGED <<retired, server, muddled>> /\ s \in Seat
    BY <1>0, <1>2 DEF Create, KeyStage, At
  <2>2. ~At(p, "copy") /\ ~At(p, "idle")
    BY <2>1 DEF At
  <2>3. CASE /\ file[s] = None /\ made[s] < MaxKeys[s]
             /\ file' = [file EXCEPT ![s] = p]
             /\ made' = [made EXCEPT ![s] = @ + 1]
             /\ job' = [job EXCEPT ![p].key = <<s, made[s] + 1>>, ![p].pc = "fill"]
    <3> DEFINE t == [job[p] EXCEPT !.key = <<s, made[s] + 1>>, !.pc = "fill"]
    <3>1. made[s] \in Nat /\ MaxKeys[s] \in Nat
      BY <1>0, <2>1, SealedMailAssumption DEF SealedMailAssumption
    <3>2. made[s] + 1 \in 1..MaxKeys[s]
      BY <2>3, <3>1
    <3>3. <<s, made[s] + 1>> \in Key /\ Home(<<s, made[s] + 1>>) = s
      BY <2>1, <3>2, KeyFacts
    <3>4. /\ t \in JobRecord /\ t.pc = "fill" /\ t.seat = s /\ t.key = <<s, made[s] + 1>>
          /\ t.keys = job[p].keys /\ t.todo = job[p].todo
      BY <1>0, <3>3 DEF JobRecord
    <3>5. job' = [job EXCEPT ![p] = t] /\ job'[p] = t
      BY <1>0, <2>3
    <3> HIDE DEF t
    <3>6. /\ file' \in [Seat -> Key \cup Process \cup {None}] /\ made' \in [Seat -> Nat]
          /\ file'[s] = p /\ \A x \in Seat \ {s} : file'[x] = file[x]
      BY <1>0, <2>1, <2>3, <3>1
    <3>7. FilesSafe(p)
      <4>1. SUFFICES ASSUME NEW x \in Seat \ muddled
                     PROVE  /\ \A k \in Key : Opens(x, k) => Opens(x, k)'
                            /\ file[x] \in Process \ {p} => file'[x] = file[x]
                            /\ \A q \in Process \ {p} : Retiring(q, x) => file'[x] = file[x]
        BY <2>1 DEF FilesSafe
      <4>2. CASE x # s
        BY <2>1, <3>6, <4>2 DEF Opens, Held
      <4>3. CASE x = s
        BY <1>1, <2>1, <2>3, <4>3, Distinct DEF Opens, Held
      <4>4. QED
        BY <4>2, <4>3
    <3>8. OwnKeysOnly'
      BY <1>0, <2>1, <3>6, Distinct DEF OwnKeysOnly
    <3>9. RetiredAreRight'
      BY <2>1, <2>2, <3>5, RetiredStay
    <3>10. KeyStage(p, job[p])' /\ RotationStage(job[p])'
      BY <2>1, <3>3, <3>4, <3>5, <3>6 DEF KeyStage, RotationStage, InUse
    <3>11. QED
      BY <1>0, <2>1, <2>2, <3>4, <3>5, <3>6, <3>7, <3>8, <3>9, <3>10, FileStep
  <2>4. CASE Goto(p, "look") /\ UNCHANGED <<file, made>>
    <3> DEFINE t == [job[p] EXCEPT !.pc = "look"]
    <3>1. /\ t \in JobRecord /\ t.pc = "look" /\ t.seat = s
          /\ t.keys = job[p].keys /\ t.todo = job[p].todo
      BY <1>0 DEF JobRecord
    <3>2. job' = [job EXCEPT ![p] = t]
      BY <1>0, <2>4 DEF Goto
    <3>3. Still /\ s \in Seat /\ job[p].keys \subseteq published
      BY <1>0, <2>1, <2>2, <2>4 DEF Still, server, TodoStage, At
    <3> HIDE DEF t
    <3>4. QED
      BY <1>0, <2>2, <3>1, <3>2, <3>3, StillStep DEF TodoStage, InUse
  <2>5. QED
    BY <1>2, <2>3, <2>4 DEF Create
<1>3. ASSUME Fill(p)
      PROVE  SealingInv'
  <2> DEFINE t == [job[p] EXCEPT !.pc = "harden"]
  <2>1. /\ At(p, "fill") /\ UNCHANGED <<retired, made, server, muddled>> /\ s \in Seat
        /\ file' = [file EXCEPT ![s] = IF @ = p THEN job[p].key ELSE @]
        /\ job[p].key \in Key /\ Home(job[p].key) = s /\ (Clear(s) => file[s] = p)
    BY <1>0, <1>3 DEF Fill, KeyStage, At
  <2>2. ~At(p, "copy") /\ ~At(p, "idle")
    BY <2>1 DEF At
  <2>3. /\ t \in JobRecord /\ t.pc = "harden" /\ t.seat = s /\ t.key = job[p].key
        /\ t.keys = job[p].keys /\ t.todo = job[p].todo
    BY <1>0 DEF JobRecord
  <2>4. job' = [job EXCEPT ![p] = t] /\ job'[p] = t
    BY <1>0, <1>3 DEF Fill, Goto
  <2> HIDE DEF t
  <2>5. /\ file' \in [Seat -> Key \cup Process \cup {None}]
        /\ \A x \in Seat \ {s} : file'[x] = file[x]
        /\ file'[s] = job[p].key \/ file'[s] = file[s]
        /\ file[s] = p => file'[s] = job[p].key
    BY <1>0, <2>1
  <2>6. FilesSafe(p)
    <3>1. SUFFICES ASSUME NEW x \in Seat \ muddled
                   PROVE  /\ \A k \in Key : Opens(x, k) => Opens(x, k)'
                          /\ file[x] \in Process \ {p} => file'[x] = file[x]
                          /\ \A q \in Process \ {p} : Retiring(q, x) => file'[x] = file[x]
      BY <2>1 DEF FilesSafe
    <3>2. CASE x # s
      BY <2>1, <2>5, <3>2 DEF Opens, Held
    <3>3. CASE x = s
      <4>1. file[x] = p /\ file[x] \notin Key
        BY <2>1, <3>1, <3>3, Distinct DEF Clear
      <4>2. QED
        BY <1>1, <2>1, <4>1 DEF Opens, Held
    <3>4. QED
      BY <3>2, <3>3
  <2>7. OwnKeysOnly'
    BY <1>0, <2>1, <2>5 DEF OwnKeysOnly
  <2>8. RetiredAreRight'
    BY <2>1, <2>2, <2>4, RetiredStay
  <2>9. KeyStage(p, job[p])' /\ RotationStage(job[p])'
    BY <2>1, <2>3, <2>4, <2>5 DEF KeyStage, RotationStage, InUse, Clear, Opens, Held
  <2>10. QED
    BY <1>0, <2>1, <2>2, <2>3, <2>4, <2>5, <2>6, <2>7, <2>8, <2>9, FileStep
<1>4. ASSUME Retire(p)
      PROVE  SealingInv'
  <2>1. /\ At(p, "retire") /\ UNCHANGED <<file, made, server, muddled>>
        /\ s \in Seat /\ mine \in Key \cup {Other} /\ (Clear(s) => mine \in Key /\ file[s] = mine)
        /\ Retiring(p, s)
    BY <1>0, <1>4 DEF Retire, KeyStage, RotationStage, Retiring, At
  <2>2. ~At(p, "copy") /\ ~At(p, "idle")
    BY <2>1 DEF At
  <2>3. CASE retired[s][mine] # None
    <3> DEFINE t == [job[p] EXCEPT !.pc = "unlink"]
    <3>1. Goto(p, "unlink") /\ UNCHANGED retired
      BY <1>4, <2>3 DEF Retire, RetiredName
    <3>2. /\ t \in JobRecord /\ t.pc = "unlink" /\ t.seat = s /\ t.mine = mine
          /\ t.keys = job[p].keys /\ t.todo = job[p].todo
      BY <1>0 DEF JobRecord
    <3>3. job' = [job EXCEPT ![p] = t] /\ job'[p] = t
      BY <1>0, <3>1 DEF Goto
    <3> HIDE DEF t
    <3>4. FilesSafe(p)
      BY <2>1, <3>1 DEF FilesSafe, Opens, Held
    <3>5. OwnKeysOnly'
      BY <1>0, <2>1, <3>1 DEF OwnKeysOnly
    <3>6. RetiredAreRight'
      BY <2>1, <2>2, <3>1, <3>3, RetiredStay
    <3>7. Clear(s) => retired[s][mine] = mine
      <4>1. ASSUME Clear(s), NEW q \in Process, At(q, "copy"), job[q].seat = s
            PROVE  FALSE
        BY <1>0, <2>1, <2>2, <4>1 DEF OneRotation, Retiring, At
      <4>2. QED
        BY <1>0, <2>1, <2>3, <4>1 DEF RetiredAreRight
    <3>8. KeyStage(p, job[p])' /\ RotationStage(job[p])'
      BY <2>1, <3>1, <3>2, <3>3, <3>7 DEF KeyStage, RotationStage, InUse, Clear
    <3>9. QED
      BY <1>0, <2>1, <2>2, <3>1, <3>2, <3>3, <3>4, <3>5, <3>6, <3>8, FileStep
  <2>4. CASE retired[s][mine] = None /\ file[s] = None
    <3>1. Stop(p) /\ UNCHANGED retired
      BY <1>4, <2>4 DEF Retire, RetiredName
    <3>2. Still
      BY <2>1, <3>1 DEF Still, server
    <3>3. QED
      BY <2>2, <3>1, <3>2, EndStep
  <2>5. CASE retired[s][mine] = None /\ file[s] # None
    <3> DEFINE key == IF file[s] \in Key THEN file[s] ELSE Blank
               t == [job[p] EXCEPT !.key = key, !.pc = "copy"]
    <3>1. /\ job' = [job EXCEPT ![p].key = key, ![p].pc = "copy"]
          /\ retired' = [retired EXCEPT ![s][mine] = Blank]
      BY <1>4, <2>5 DEF Retire, SetRetired, RetiredName
    <3>2. key = Blank \/ (key \in Key /\ Home(key) = s)
      BY <1>0, <2>1 DEF OwnKeysOnly
    <3>3. Clear(s) => key = mine
      BY <2>1
    <3> HIDE DEF key
    <3>4. /\ t \in JobRecord /\ t.pc = "copy" /\ t.seat = s /\ t.mine = mine /\ t.key = key
          /\ t.keys = job[p].keys /\ t.todo = job[p].todo
      BY <1>0, <3>2 DEF JobRecord
    <3>5. job' = [job EXCEPT ![p] = t] /\ job'[p] = t
      BY <1>0, <3>1
    <3> HIDE DEF t
    <3>6. /\ retired' \in [Seat -> [Key \cup {Other} -> Key \cup {None, Blank}]]
          /\ \A x \in Seat \ {s} : retired'[x] = retired[x]
          /\ \A m \in Key \cup {Other} : m # mine => retired'[s][m] = retired[s][m]
          /\ retired'[s][mine] = Blank
      BY <1>0, <2>1, <3>1
    <3>7. FilesSafe(p)
      <4>1. SUFFICES ASSUME NEW x \in Seat \ muddled
                     PROVE  /\ \A k \in Key : Opens(x, k) => Opens(x, k)'
                            /\ \A q \in Process \ {p} : Retiring(q, x) => retired'[x] = retired[x]
        BY <2>1 DEF FilesSafe
      <4>2. CASE x # s
        BY <2>1, <3>6, <4>2 DEF Opens, Held
      <4>3. CASE x = s
        <5>1. \A k \in Key : Opens(x, k) => Opens(x, k)'
          BY <2>1, <2>5, <3>6, <4>3, Distinct DEF Opens, Held
        <5>2. \A q \in Process \ {p} : ~Retiring(q, x)
          BY <1>0, <2>1, <4>1, <4>3 DEF OneRotation, Clear
        <5>3. QED
          BY <5>1, <5>2
      <4>4. QED
        BY <4>2, <4>3
    <3>8. OwnKeysOnly'
      BY <1>0, <2>1, <3>6, Distinct DEF OwnKeysOnly
    <3>9. RetiredAreRight'
      <4>1. SUFFICES ASSUME NEW x \in Seat, Clear(x), NEW m \in Key \cup {Other}
                     PROVE  \/ retired'[x][m] = None
                            \/ m \in Key /\ retired'[x][m] = m
                            \/ /\ retired'[x][m] = Blank
                               /\ \E q \in Process : At(q, "copy")' /\ job'[q].seat = x /\ job'[q].mine = m
        BY <2>1 DEF RetiredAreRight, Clear
      <4>2. CASE x = s /\ m = mine
        BY <3>4, <3>5, <3>6, <4>2 DEF At
      <4>3. CASE ~(x = s /\ m = mine)
        <5>1. retired'[x][m] = retired[x][m]
          BY <3>6, <4>3
        <5>2. \A q \in Process : At(q, "copy") => job'[q] = job[q]
          BY <1>0, <2>2, <3>5
        <5>3. QED
          BY <1>0, <4>1, <5>1, <5>2 DEF RetiredAreRight, At
      <4>4. QED
        BY <4>2, <4>3
    <3>10. KeyStage(p, job[p])' /\ RotationStage(job[p])'
      BY <2>1, <3>2, <3>3, <3>4, <3>5 DEF KeyStage, RotationStage, InUse, Clear
    <3>11. QED
      BY <1>0, <2>1, <2>2, <3>4, <3>5, <3>6, <3>7, <3>8, <3>9, <3>10, FileStep
  <2>6. QED
    BY <2>3, <2>4, <2>5
<1>5. ASSUME Copy(p)
      PROVE  SealingInv'
  <2> DEFINE t == [job[p] EXCEPT !.pc = "unlink"]
             key == job[p].key
  <2>1. /\ At(p, "copy") /\ UNCHANGED <<file, made, server, muddled>>
        /\ s \in Seat /\ mine \in Key \cup {Other} /\ (Clear(s) => mine \in Key /\ file[s] = mine)
        /\ Retiring(p, s) /\ (Clear(s) => key = mine)
        /\ key = Blank \/ (key \in Key /\ Home(key) = s)
        /\ retired' = [retired EXCEPT ![s][mine] = key]
    BY <1>0, <1>5 DEF Copy, SetRetired, RetiredName, KeyStage, RotationStage, Retiring, At
  <2>2. /\ t \in JobRecord /\ t.pc = "unlink" /\ t.seat = s /\ t.mine = mine
        /\ t.keys = job[p].keys /\ t.todo = job[p].todo
    BY <1>0 DEF JobRecord
  <2>3. job' = [job EXCEPT ![p] = t] /\ job'[p] = t
    BY <1>0, <1>5 DEF Copy, Goto
  <2> HIDE DEF t, key
  <2>4. /\ retired' \in [Seat -> [Key \cup {Other} -> Key \cup {None, Blank}]]
        /\ \A x \in Seat \ {s} : retired'[x] = retired[x]
        /\ \A m \in Key \cup {Other} : m # mine => retired'[s][m] = retired[s][m]
        /\ retired'[s][mine] = key
    BY <1>0, <2>1
  <2>5. FilesSafe(p)
    <3>1. SUFFICES ASSUME NEW x \in Seat \ muddled
                   PROVE  /\ \A k \in Key : Opens(x, k) => Opens(x, k)'
                          /\ \A q \in Process \ {p} : Retiring(q, x) => retired'[x] = retired[x]
      BY <2>1 DEF FilesSafe
    <3>2. CASE x # s
      BY <2>1, <2>4, <3>2 DEF Opens, Held
    <3>3. CASE x = s
      <4>1. mine \in Key /\ key = mine /\ file[s] = mine
        BY <2>1, <3>1, <3>3 DEF Clear
      <4>2. retired[s][mine] \in Key => retired[s][mine] = mine
        BY <1>0, <2>1, <3>1, <3>3, <4>1, Distinct DEF RetiredAreRight, Clear
      <4>3. \A k \in Key : Opens(x, k) => Opens(x, k)'
        BY <2>1, <2>4, <3>3, <4>1, <4>2 DEF Opens, Held
      <4>4. \A q \in Process \ {p} : ~Retiring(q, x)
        BY <1>0, <2>1, <3>1, <3>3 DEF OneRotation, Clear
      <4>5. QED
        BY <4>3, <4>4
    <3>4. QED
      BY <3>2, <3>3
  <2>6. OwnKeysOnly'
    BY <1>0, <2>1, <2>4, Distinct DEF OwnKeysOnly
  <2>7. RetiredAreRight'
    <3>1. SUFFICES ASSUME NEW x \in Seat, Clear(x), NEW m \in Key \cup {Other}
                   PROVE  \/ retired'[x][m] = None
                          \/ m \in Key /\ retired'[x][m] = m
                          \/ /\ retired'[x][m] = Blank
                             /\ \E q \in Process : At(q, "copy")' /\ job'[q].seat = x /\ job'[q].mine = m
      BY <2>1 DEF RetiredAreRight, Clear
    <3>2. CASE x = s /\ m = mine
      BY <2>1, <2>4, <3>1, <3>2
    <3>3. CASE ~(x = s /\ m = mine)
      <4>1. retired'[x][m] = retired[x][m]
        BY <2>4, <3>3
      <4>2. \A q \in Process : job[q].seat = x /\ job[q].mine = m => job'[q] = job[q]
        BY <1>0, <2>3, <3>3
      <4>3. QED
        BY <1>0, <3>1, <4>1, <4>2 DEF RetiredAreRight, At
    <3>4. QED
      BY <3>2, <3>3
  <2>8. KeyStage(p, job[p])' /\ RotationStage(job[p])'
    BY <2>1, <2>2, <2>3, <2>4 DEF KeyStage, RotationStage, InUse, Clear
  <2>9. ~At(p, "idle")
    BY <2>1 DEF At
  <2>10. QED
    BY <1>0, <2>1, <2>2, <2>3, <2>4, <2>5, <2>6, <2>7, <2>8, <2>9, FileStep
<1>6. ASSUME Unlink(p)
      PROVE  SealingInv'
  <2>1. /\ At(p, "unlink") /\ UNCHANGED <<retired, made, server, muddled>>
        /\ s \in Seat /\ mine \in Key \cup {Other} /\ Retiring(p, s)
        /\ Clear(s) => mine \in Key /\ file[s] = mine /\ retired[s][mine] = mine
    BY <1>0, <1>6 DEF Unlink, KeyStage, RotationStage, Retiring, At
  <2>2. ~At(p, "copy") /\ ~At(p, "idle")
    BY <2>1 DEF At
  <2>3. CASE Stop(p) /\ UNCHANGED file
    BY <2>1, <2>2, <2>3, EndStep DEF Still, server
  <2>4. CASE file' = [file EXCEPT ![s] = None] /\ job' = [job EXCEPT ![p] = Publishing(s)]
    <3> DEFINE t == Publishing(s)
    <3>1. t \in JobRecord /\ t.pc = "look" /\ t.seat = s /\ t.keys = {} /\ t.todo = {}
      BY <2>1, PublishingFits DEF Publishing, Job
    <3>2. job' = [job EXCEPT ![p] = t] /\ job'[p] = t
      BY <1>0, <2>4
    <3> HIDE DEF t
    <3>3. /\ file' \in [Seat -> Key \cup Process \cup {None}] /\ file'[s] = None
          /\ \A x \in Seat \ {s} : file'[x] = file[x]
      BY <1>0, <2>1, <2>4
    <3>4. FilesSafe(p)
      <4>1. SUFFICES ASSUME NEW x \in Seat \ muddled
                     PROVE  /\ \A k \in Key : Opens(x, k) => Opens(x, k)'
                            /\ file[x] \in Process \ {p} => file'[x] = file[x]
                            /\ \A q \in Process \ {p} : Retiring(q, x) => file'[x] = file[x]
        BY <2>1 DEF FilesSafe
      <4>2. CASE x # s
        BY <2>1, <3>3, <4>2 DEF Opens, Held
      <4>3. CASE x = s
        <5>1. mine \in Key /\ file[s] = mine /\ retired[s][mine] = mine
          BY <2>1, <4>1, <4>3 DEF Clear
        <5>2. \A k \in Key : Opens(x, k) => Opens(x, k)'
          BY <2>1, <4>3, <5>1 DEF Opens, Held
        <5>3. file[x] \notin Process
          BY <4>3, <5>1, Distinct
        <5>4. \A q \in Process \ {p} : ~Retiring(q, x)
          BY <1>0, <2>1, <4>1, <4>3 DEF OneRotation, Clear
        <5>5. QED
          BY <5>2, <5>3, <5>4
      <4>4. QED
        BY <4>2, <4>3
    <3>5. OwnKeysOnly'
      BY <1>0, <2>1, <3>3, Distinct DEF OwnKeysOnly
    <3>6. RetiredAreRight'
      BY <2>1, <2>2, <3>2, RetiredStay
    <3>7. KeyStage(p, job[p])' /\ RotationStage(job[p])'
      BY <2>1, <3>1, <3>2 DEF KeyStage, RotationStage, InUse
    <3>8. QED
      BY <1>0, <2>1, <2>2, <3>1, <3>2, <3>3, <3>4, <3>5, <3>6, <3>7, FileStep
  <2>5. QED
    BY <1>6, <2>3, <2>4 DEF Unlink
<1>7. QED
  BY <1>2, <1>3, <1>4, <1>5, <1>6

LEMMA SealingStarts == SealingInit => SealingInv
<1> SUFFICES ASSUME SealingInit PROVE SealingInv
  OBVIOUS
<1>1. SealingTypes
  BY NoJobFits DEF SealingInit, SealingTypes
<1>2. OwnKeysOnly /\ RetiredAreRight
  BY Distinct DEF SealingInit, OwnKeysOnly, RetiredAreRight
<1>3. \A p \in Process : job[p] = NoJob
  BY DEF SealingInit
<1>4. NoJob.pc = "idle" /\ NoJob.todo = {}
  BY DEF NoJob, Job
<1>5. Jobs /\ OneRotation
  BY <1>3, <1>4 DEF Jobs, KeyStage, RotationStage, TodoStage, InUse, OneRotation, Retiring
<1>6. StoredAreHeld
  <2>1. Stored = {}
    BY EntryFacts DEF SealingInit, Stored
  <2>2. QED
    BY <2>1 DEF StoredAreHeld
<1>7. QED
  BY <1>1, <1>2, <1>5, <1>6 DEF SealingInv

LEMMA SealingSteps == SealingInv /\ [SealingNext]_sealVars => SealingInv'
<1> SUFFICES ASSUME SealingInv, [SealingNext]_sealVars PROVE SealingInv'
  OBVIOUS
<1>1. ASSUME NEW p \in Process, Work(p)
      PROVE  SealingInv'
  BY <1>1, QuietWorkKeeps, FileWorkKeeps DEF Work
<1>2. ASSUME NEW p \in Process, Die(p)
      PROVE  SealingInv'
  BY <1>2, QuietWorkKeeps
<1>3. ASSUME NEW p \in Process, NEW s \in Seat, Command(p, s)
      PROVE  SealingInv'
  BY <1>3, CommandKeeps
<1>4. ASSUME UNCHANGED <<file, retired, made, published, mail, notes, job, muddled>>
      PROVE  SealingInv'
  <2>1. SealingTypes' /\ OwnKeysOnly'
    BY <1>4 DEF SealingInv, SealingTypes, OwnKeysOnly
  <2>2. OneRotation'
    BY <1>4 DEF SealingInv, OneRotation, Clear, Retiring
  <2>3. RetiredAreRight'
    BY <1>4 DEF SealingInv, RetiredAreRight, Clear, At
  <2>4. \A p \in Process : KeyStage(p, job[p])' /\ RotationStage(job[p])' /\ TodoStage(job[p])'
    BY <1>4 DEF SealingInv, Jobs, KeyStage, RotationStage, TodoStage, InUse, Clear, Opens, Held
  <2>5. StoredAreHeld'
    BY <1>4 DEF SealingInv, StoredAreHeld, Stored, Clear, Opens, Held
  <2>6. QED
    BY <2>1, <2>2, <2>3, <2>4, <2>5 DEF SealingInv, Jobs
<1>5. ASSUME NEW k \in published, Revoke(k)
      PROVE  SealingInv'
  BY <1>4, <1>5 DEF Revoke, files
<1>6. CASE UNCHANGED sealVars
  BY <1>4, <1>6 DEF sealVars, files, server
<1>7. QED
  BY <1>1, <1>2, <1>3, <1>5, <1>6 DEF SealingNext

(* The files, the jobs of the processes and what is stored stay in step.   *)
THEOREM SealingInvariant == SealingSpec => []SealingInv
  BY SealingStarts, SealingSteps, PTL DEF SealingSpec

(* load_private_keys, ensure_keypair and keys rotate: a seat has the       *)
(* private half of every key of its own that is published, about to be, or *)
(* sealed to, whoever asks for the key, rotates it or dies meanwhile,      *)
(* unless rotations were muddled there.                                    *)
THEOREM KeysCorrect == SealingSpec => []KeysInUseAreHeld
<1>1. SealingInv => KeysInUseAreHeld
  <2> SUFFICES ASSUME SealingInv PROVE KeysInUseAreHeld
    OBVIOUS
  <2>1. ASSUME NEW k \in InHand, Home(k) \notin muddled
        PROVE  Opens(Home(k), k)
    <3>1. PICK p \in Process : job[p].pc \in {"publish", "post", "put"} /\ k = job[p].key
      BY <2>1 DEF InHand
    <3>2. KeyStage(p, job[p])
      BY DEF SealingInv, Jobs
    <3>3. QED
      BY <2>1, <3>1, <3>2 DEF KeyStage, InUse, Clear
  <2>2. ASSUME NEW k \in Stored, Home(k) \notin muddled
        PROVE  Opens(Home(k), k)
    BY <2>2 DEF SealingInv, StoredAreHeld, Clear
  <2>3. QED
    BY <2>1, <2>2 DEF KeysInUseAreHeld, Stored, Entries
<1>2. QED
  BY <1>1, SealingInvariant, PTL

(* memory_reseal: an entry is sealed again only by the seat that wrote it. *)
THEOREM NotesCorrect == SealingSpec => NotesKeepTheirReader
<1> DEFINE Kept == \A n \in DOMAIN notes : Home(notes'[n]) = Home(notes[n])
<1>1. SealingInv /\ [SealingNext]_sealVars => [Kept]_sealVars
  <2> SUFFICES ASSUME SealingInv, SealingNext
               PROVE  Kept
    BY DEF Kept
  <2>1. CASE notes' = notes
    BY <2>1
  <2>2. ASSUME NEW p \in Process, Post(p)
        PROVE  Kept
    <3>1. notes \in Seq(Key) /\ (notes' = notes \/ notes' = Append(notes, job[p].key))
      BY <2>2 DEF Post, SealingInv, SealingTypes
    <3>2. QED
      BY <3>1
  <2>3. ASSUME NEW p \in Process, Put(p)
        PROVE  Kept
    <3>1. PICK n \in job[p].todo :
            notes' = [notes EXCEPT ![n] = job[p].key] \/ notes' = notes
      BY <2>3 DEF Put
    <3>2. KeyStage(p, job[p]) /\ TodoStage(job[p]) /\ job[p].pc = "put"
      BY <2>3 DEF SealingInv, Jobs, Put, At
    <3>3. /\ notes \in Seq(Key) /\ n \in DOMAIN notes
          /\ Home(notes[n]) = job[p].seat /\ Home(job[p].key) = job[p].seat
      BY <3>2 DEF SealingInv, SealingTypes, KeyStage, TodoStage, InUse
    <3>4. QED
      BY <3>1, <3>3
  <2>4. ASSUME NEW p \in Process, ~Post(p), ~Put(p), Work(p) \/ Die(p)
        PROVE  notes' = notes
    BY <2>4 DEF Work, Die, Look, Create, Fill, Harden, Publish, Retire, Copy, Unlink, server
  <2>5. ASSUME NEW p \in Process, NEW s \in Seat, Command(p, s)
        PROVE  notes' = notes
    BY <2>5 DEF Command, Setup, Rotate, Note, Draft, SealToSelf, Reseal, Send, Reply, Forward,
         SendDraft, SealTo, server
  <2>6. ASSUME NEW k \in published, Revoke(k)
        PROVE  notes' = notes
    BY <2>6 DEF Revoke
  <2>7. QED
    BY <2>1, <2>2, <2>3, <2>4, <2>5, <2>6 DEF SealingNext
<1>2. QED
  BY <1>1, SealingInvariant, PTL DEF SealingSpec, NotesKeepTheirReader
=============================================================================
