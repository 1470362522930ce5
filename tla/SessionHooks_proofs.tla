------------------------- MODULE SessionHooks_proofs -------------------------
(***************************************************************************)
(* Theorems about SessionHooks, for any sessions and any amount of mail.   *)
(***************************************************************************)
EXTENDS SessionHooks, TLAPS

-----------------------------------------------------------------------------
(* Types.                                                                  *)

LEMMA RunningIsHook ==
  ASSUME NEW op \in {"none", "start", "pending", "end"}, NEW step \in Steps
  PROVE  /\ Running(op, step) \in Hook
         /\ Running(op, step).op = op /\ Running(op, step).step = step
         /\ Running(op, step).other = None /\ Running(op, step).missed = {}
         /\ Running(op, step).asked = 0
BY SessionAssumption DEF SessionAssumption, Running, Hook

(* A hook that has begun, moved on or ended is the only one that changes.  *)
LEMMA AskedKept ==
  ASSUME TypeOK, NEW s \in Session, hook'[s].asked \in {0, arrived},
         \A t \in Session \ {s} : hook'[t].asked = hook[t].asked
  PROVE  \A t \in Session : hook'[t].asked <= arrived
<1> SUFFICES ASSUME NEW t \in Session PROVE hook'[t].asked <= arrived
  OBVIOUS
<1>1. arrived \in Nat
  BY SessionAssumption DEF TypeOK, SessionAssumption
<1>2. CASE t = s
  BY <1>1, <1>2
<1>3. CASE t # s
  BY <1>3 DEF TypeOK
<1>4. QED
  BY <1>2, <1>3

LEMMA BeginStep ==
  ASSUME TypeOK, NEW s \in Session,
         NEW op \in {"none", "start", "pending", "end"}, NEW step \in Steps,
         hook' = [hook EXCEPT ![s] = Running(op, step)]
  PROVE  /\ hook' \in [Session -> Hook]
         /\ hook'[s] = Running(op, step)
         /\ hook'[s].step = step /\ hook'[s].asked = 0 /\ hook'[s].missed = {}
         /\ \A t \in Session \ {s} : hook'[t] = hook[t]
<1>1. /\ hook' \in [Session -> Hook]
      /\ hook'[s] = Running(op, step)
      /\ \A t \in Session \ {s} : hook'[t] = hook[t]
  BY RunningIsHook DEF TypeOK
<1>2. hook'[s].step = step /\ hook'[s].asked = 0 /\ hook'[s].missed = {}
  BY <1>1, RunningIsHook
<1>3. QED
  BY <1>1, <1>2

LEMMA ReadStep ==
  ASSUME TypeOK, NEW s \in Session, NEW v,
         hook' = [hook EXCEPT ![s] = Looked(s, v)]
  PROVE  /\ hook' \in [Session -> Hook]
         /\ hook'[s].step = "write" /\ hook'[s].asked = 0
         /\ hook'[s].other = OtherClaim(s, v)
         /\ v = Torn /\ Rewriting(s) # {} => hook'[s].missed = Session \ {s}
         /\ \A t \in Session \ {s} : hook'[t] = hook[t]
<1>1. OtherClaim(s, v) \in Session \cup {None}
  BY DEF OtherClaim
<1>2. /\ Looked(s, v) \in Hook
      /\ Looked(s, v).step = "write" /\ Looked(s, v).asked = 0
      /\ Looked(s, v).other = OtherClaim(s, v)
      /\ v = Torn /\ Rewriting(s) # {} => Looked(s, v).missed = Session \ {s}
  BY <1>1, SessionAssumption DEF SessionAssumption, Looked, Hook, Steps
<1>3. QED
  BY <1>2 DEF TypeOK

LEMMA AnsweredStep ==
  ASSUME TypeOK, NEW s \in Session, Answered(s)
  PROVE  /\ hook' \in [Session -> Hook]
         /\ hook'[s].step = "clear" /\ hook'[s].asked = arrived
         /\ hook'[s].answer = unread
         /\ \A t \in Session \ {s} : hook'[t] = hook[t]
<1> DEFINE h == [op |-> hook[s].op, step |-> "clear", other |-> None,
                 missed |-> {}, asked |-> arrived, answer |-> unread]
<1>1. hook' = [hook EXCEPT ![s] = h]
  BY DEF Answered
<1>2. arrived \in 0..MaxMail /\ unread \in SUBSET Mail
  BY SessionAssumption DEF TypeOK, SessionAssumption, Mail
<1>3. hook[s].op \in {"none", "start", "pending", "end"}
  BY DEF TypeOK, Hook
<1>4. h \in Hook
  BY <1>2, <1>3 DEF Hook, Steps
<1>5. h.step = "clear" /\ h.asked = arrived /\ h.answer = unread
  OBVIOUS
<1> HIDE DEF h
<1>6. QED
  BY <1>1, <1>4, <1>5 DEF TypeOK

LEMMA WriteStep ==
  ASSUME TypeOK, NEW s \in Session, WriteClaim(s)
  PROVE  /\ hook' \in [Session -> Hook]
         /\ hook'[s].step = "ask" /\ hook'[s].asked = 0
         /\ \A t \in Session \ {s} :
              /\ hook'[t].step = hook[t].step /\ hook'[t].asked = hook[t].asked
              /\ hook'[t].other = hook[t].other /\ hook'[t].answer = hook[t].answer
              /\ hook[t].missed \subseteq hook'[t].missed
              /\ hook[t].step \in {"write", "unlink"} => s \in hook'[t].missed
<1> DEFINE missing(t) == At(t, "write") \/ At(t, "unlink")
<1>1. Running("start", "ask") \in Hook /\ Running("start", "ask").step = "ask"
      /\ Running("start", "ask").asked = 0
  BY RunningIsHook DEF Steps
<1>2. ASSUME NEW t \in Session
      PROVE  [hook[t] EXCEPT !.missed = @ \cup {s}] \in Hook
  <2>1. hook[t] \in Hook
    BY DEF TypeOK
  <2>2. QED
    BY <2>1 DEF Hook
<1>3. hook' = [t \in Session |->
         IF t = s THEN Running("start", "ask")
         ELSE IF missing(t) THEN [hook[t] EXCEPT !.missed = @ \cup {s}] ELSE hook[t]]
  BY DEF WriteClaim
<1>4. hook' \in [Session -> Hook]
  BY <1>1, <1>2, <1>3 DEF TypeOK
<1>5. ASSUME NEW t \in Session \ {s}
      PROVE  /\ hook'[t].step = hook[t].step /\ hook'[t].asked = hook[t].asked
             /\ hook'[t].other = hook[t].other /\ hook'[t].answer = hook[t].answer
             /\ hook[t].missed \subseteq hook'[t].missed
             /\ hook[t].step \in {"write", "unlink"} => s \in hook'[t].missed
  <2>1. hook[t] \in Hook
    BY DEF TypeOK
  <2>2. hook'[t] = IF missing(t) THEN [hook[t] EXCEPT !.missed = @ \cup {s}] ELSE hook[t]
    BY <1>3
  <2>3. QED
    BY <2>1, <2>2 DEF Hook, At
<1>6. QED
  BY <1>1, <1>3, <1>4, <1>5

(* Ending with Closed: the hook is idle again.                             *)
LEMMA DoneStep ==
  ASSUME TypeOK, NEW s \in Session, hook' = Done(s)
  PROVE  /\ hook' \in [Session -> Hook]
         /\ hook'[s].step = "idle" /\ hook'[s].asked = 0
         /\ \A t \in Session \ {s} : hook'[t] = hook[t]
<1>1. hook' = [hook EXCEPT ![s] = Running("none", "idle")]
  BY DEF Done, Idle
<1>2. QED
  BY <1>1, BeginStep DEF Steps

LEMMA InitType ==
  Init => TypeOK
<1> SUFFICES ASSUME Init PROVE TypeOK
  OBVIOUS
<1>1. Idle \in Hook /\ Idle.asked = 0
  BY RunningIsHook DEF Idle, Steps
<1>2. hook \in [Session -> Hook] /\ \A s \in Session : hook[s].asked <= arrived
  BY <1>1 DEF Init
<1>3. opens \in 0..MaxOpens /\ arrived \in 0..MaxMail
  BY SessionAssumption DEF Init, SessionAssumption
<1>4. phase \in [Session -> {"closed", "open", "ending"}]
      /\ monitor \in [Session -> {"off", "on", "ending"}]
  BY DEF Init
<1>5. claim \in Session \cup {None, Torn} /\ latest \in Session \cup {None}
  BY DEF Init
<1>6. /\ named = {} /\ unread = {} /\ wake = {} /\ told = {} /\ robbed = FALSE
      /\ aged = FALSE
  BY DEF Init
<1>7. QED
  BY <1>2, <1>3, <1>4, <1>5, <1>6 DEF TypeOK

(* What a step does to the hooks, in one place for every action of a       *)
(* session: at most its own hook changes, but for a claim's writing.       *)
LEMMA TypeStep ==
  TypeOK /\ [Next]_vars => TypeOK'
<1> SUFFICES ASSUME TypeOK, [Next]_vars PROVE TypeOK'
  OBVIOUS
<1> USE SessionAssumption DEF SessionAssumption
<1>1. ASSUME NEW s \in Session, Open(s) PROVE TypeOK'
  <2>1. \E step \in Steps : hook' = [hook EXCEPT ![s] = Running("start", step)]
    BY <1>1 DEF Open, Begin, Steps
  <2>2. hook' \in [Session -> Hook] /\ \A t \in Session : hook'[t].asked <= arrived
    BY <2>1, BeginStep, AskedKept
  <2>3. opens' \in 0..MaxOpens
    BY <1>1 DEF Open, TypeOK
  <2>4. phase' \in [Session -> {"closed", "open", "ending"}] /\ named' \subseteq Session
    BY <1>1 DEF Open, TypeOK
  <2>5. UNCHANGED <<monitor, claim, aged, latest, robbed, arrived, unread, wake, told>>
    BY <1>1 DEF Open, claims, mail, lines
  <2>6. QED
    BY <2>2, <2>3, <2>4, <2>5 DEF TypeOK
<1>2. ASSUME NEW s \in Session, Restart(s) \/ Turn(s) \/ End(s) PROVE TypeOK'
  <2>1. \E op \in {"none", "start", "pending", "end"}, step \in Steps :
          hook' = [hook EXCEPT ![s] = Running(op, step)]
    BY <1>2 DEF Restart, Turn, End, Begin, Steps
  <2>2. hook' \in [Session -> Hook] /\ \A t \in Session : hook'[t].asked <= arrived
    BY <2>1, BeginStep, AskedKept
  <2>3. phase' \in [Session -> {"closed", "open", "ending"}]
    BY <1>2 DEF TypeOK, Restart, Turn, End
  <2>4. latest' \in Session \cup {None}
    BY <1>2 DEF TypeOK, Restart, Turn, End, claims
  <2>5. UNCHANGED <<named, opens, monitor, claim, aged, robbed, arrived, unread, wake, told>>
    BY <1>2 DEF Restart, Turn, End, claims, mail, lines
  <2>6. QED
    BY <2>2, <2>3, <2>4, <2>5 DEF TypeOK
<1>3. ASSUME NEW s \in Session, ReadClaim(s) PROVE TypeOK'
  <2>1. PICK v : hook' = [hook EXCEPT ![s] = Looked(s, v)]
    BY <1>3 DEF ReadClaim
  <2>2. hook' \in [Session -> Hook] /\ \A t \in Session : hook'[t].asked <= arrived
    BY <2>1, ReadStep, AskedKept
  <2>3. QED
    BY <1>3, <2>2 DEF ReadClaim, TypeOK, claims, mail, lines
<1>4. ASSUME NEW s \in Session, WriteClaim(s) PROVE TypeOK'
  <2>1. hook' \in [Session -> Hook] /\ \A t \in Session : hook'[t].asked <= arrived
    BY <1>4, WriteStep, AskedKept
  <2>2. QED
    BY <1>4, <2>1 DEF WriteClaim, TypeOK, mail, lines
<1>5. ASSUME NEW s \in Session, Answered(s) PROVE TypeOK'
  <2>1. hook' \in [Session -> Hook] /\ \A t \in Session : hook'[t].asked <= arrived
    BY <1>5, AnsweredStep, AskedKept
  <2>2. QED
    BY <1>5, <2>1 DEF Answered, TypeOK, claims, mail, lines
<1>6. ASSUME NEW s \in Session, Clear(s) \/ Unreachable(s) PROVE TypeOK'
  <2>1. hook' \in [Session -> Hook] /\ \A t \in Session : hook'[t].asked <= arrived
    BY <1>6, DoneStep, AskedKept DEF Clear, Unreachable
  <2>2. told' \subseteq Mail
    <3>1. CASE Unreachable(s)
      BY <3>1, SessionAssumption DEF TypeOK, Unreachable, Mail
    <3>2. CASE Clear(s)
      <4>1. hook[s].answer \subseteq Mail
        BY DEF TypeOK, Hook
      <4>2. QED
        BY <3>2, <4>1 DEF TypeOK, Clear
    <3>3. QED
      BY <1>6, <3>1, <3>2
  <2>3. QED
    BY <1>6, <2>1, <2>2 DEF Clear, Unreachable, TypeOK, claims, mail, lines
<1>7. ASSUME NEW s \in Session, Reap(s) PROVE TypeOK'
  <2>1. hook' \in [Session -> Hook] /\ \A t \in Session : hook'[t].asked <= arrived
    <3>1. hook' = [hook EXCEPT ![s] = Running("end", "release")]
      BY <1>7 DEF Reap, Goto
    <3>2. QED
      BY <3>1, BeginStep, AskedKept DEF Steps
  <2>2. QED
    BY <1>7, <2>1 DEF Reap, TypeOK, claims, mail, lines
<1>8. ASSUME NEW s \in Session, hook' = Done(s), phase' = [phase EXCEPT ![s] = "closed"],
             named' = named \ {s}, UNCHANGED <<opens, monitor, mail, lines>>,
             claim' \in Session \cup {None, Torn}, aged' \in BOOLEAN,
             latest' \in Session \cup {None}, robbed' \in BOOLEAN
      PROVE  TypeOK'
  <2>1. hook' \in [Session -> Hook] /\ \A t \in Session : hook'[t].asked <= arrived
    BY <1>8, DoneStep, AskedKept
  <2>2. QED
    BY <1>8, <2>1 DEF TypeOK, mail, lines
<1>9. ASSUME NEW s \in Session, EndUnnamed(s) \/ Unlink(s) \/ Kill(s) PROVE TypeOK'
  <2>1. /\ claim' \in Session \cup {None, Torn} /\ aged' \in BOOLEAN
        /\ latest' \in Session \cup {None} /\ robbed' \in BOOLEAN
    <3>1. CASE EndUnnamed(s)
      BY <3>1 DEF TypeOK, EndUnnamed, claims
    <3>2. CASE Unlink(s)
      <4>1. hook[s].missed \subseteq Session
        BY DEF TypeOK, Hook
      <4>2. QED
        BY <3>2, <4>1 DEF TypeOK, Unlink
    <3>3. CASE Kill(s)
      BY <3>3 DEF TypeOK, Kill
    <3>4. QED
      BY <1>9, <3>1, <3>2, <3>3
  <2>2. QED
    BY <1>8, <1>9, <2>1 DEF EndUnnamed, Unlink, Kill, Closed
<1>10. ASSUME NEW s \in Session, Release(s) PROVE TypeOK'
  <2>1. CASE Closed(s)
    BY <1>8, <1>10, <2>1 DEF TypeOK, Release, Closed, claims
  <2>2. CASE hook' = Goto(s, "unlink") /\ UNCHANGED <<phase, named>>
    <3>1. hook' \in [Session -> Hook] /\ \A t \in Session : hook'[t].asked <= arrived
      <4>1. hook' = [hook EXCEPT ![s] = Running("end", "unlink")]
        BY <2>2 DEF Goto
      <4>2. QED
        BY <4>1, BeginStep, AskedKept DEF Steps
    <3>2. QED
      BY <1>10, <2>2, <3>1 DEF Release, TypeOK, claims, mail, lines
  <2>3. QED
    BY <1>10, <2>1, <2>2 DEF Release
<1>11. ASSUME NEW s \in Session, Monitor(s) PROVE TypeOK'
  <2>1. UNCHANGED <<phase, named, hook, opens, claim, aged, latest, robbed, arrived,
                    unread, wake>>
    BY <1>11 DEF Monitor, MonitorStart, MonitorExit, Inject, sessions, claims, mail, lines
  <2>2. monitor' \in [Session -> {"off", "on", "ending"}]
    BY <1>11 DEF Monitor, MonitorStart, MonitorExit, Inject, TypeOK
  <2>3. told' \subseteq Mail
    BY <1>11 DEF Monitor, MonitorStart, MonitorExit, Inject, TypeOK, lines
  <2>4. QED
    BY <2>1, <2>2, <2>3 DEF TypeOK
<1>12. CASE Arrive
  <2>1. arrived \in Nat /\ arrived' = arrived + 1 /\ arrived' \in 0..MaxMail
    BY <1>12 DEF Arrive, TypeOK
  <2>2. unread' \subseteq 1..arrived' /\ wake' \subseteq 1..arrived'
    BY <1>12, <2>1 DEF Arrive, TypeOK, lines
  <2>3. \A t \in Session : hook'[t].asked <= arrived'
    <3>1. ASSUME NEW t \in Session PROVE hook[t].asked \in Nat /\ hook[t].asked <= arrived
      BY DEF TypeOK, Hook
    <3>2. QED
      BY <1>12, <2>1, <3>1 DEF Arrive, sessions
  <2>4. UNCHANGED <<phase, named, hook, opens, monitor, claim, aged, latest, robbed, told>>
    BY <1>12 DEF Arrive, sessions, claims, lines
  <2>5. QED
    BY <2>1, <2>2, <2>3, <2>4 DEF TypeOK
<1>13. CASE Age
  BY <1>13 DEF Age, TypeOK, sessions, mail, lines
<1>14. ASSUME NEW d \in Mail, Capture(d) \/ Read(d) PROVE TypeOK'
  BY <1>14 DEF Capture, Read, TypeOK, sessions, claims, mail, lines
<1>15. CASE UNCHANGED vars
  BY <1>15 DEF TypeOK, vars, sessions, claims, mail, lines
<1>16. QED
  BY <1>1, <1>2, <1>3, <1>4, <1>5, <1>6, <1>7, <1>9, <1>10, <1>11, <1>12, <1>13,
     <1>14, <1>15 DEF Next, StartHook, AskHook, EndHook

(* The hooks, the claim, the wake file and the mail are always what their  *)
(* readers take them for, whatever runs beside them.                       *)
THEOREM TypeCorrect == Spec => []TypeOK
<1>1. QED
  BY InitType, TypeStep, PTL DEF Spec

(* An ending session deafens no other one, however many share the agent.   *)
THEOREM EndDeafensNobody == Spec => EndReapsItsOwn
<1>1. ASSUME TypeOK, [Next]_vars, NEW t \in Session,
             monitor[t] = "on", monitor'[t] = "ending"
      PROVE  At(t, "reap")
  <2>1. PICK s \in Session : Reap(s) \/ Monitor(s)
    BY <1>1 DEF Next, vars, lines, claims, mail, sessions, StartHook, AskHook, EndHook, Open,
         Restart, Turn, End, Kill, ReadClaim, WriteClaim, Answered, Clear, Unreachable,
         EndUnnamed, Release, Unlink, Arrive, Age, Capture, Read
  <2>2. ~Monitor(s)
    BY <1>1 DEF Monitor, MonitorStart, MonitorExit, Inject, TypeOK
  <2>3. QED
    BY <1>1, <2>1, <2>2 DEF Reap, TypeOK
<1>2. TypeOK /\ [Next]_vars =>
        [\A t \in Session :
           monitor[t] = "on" /\ monitor'[t] = "ending" => At(t, "reap")]_vars
  BY <1>1
<1>3. QED
  BY <1>2, TypeCorrect, PTL DEF Spec, EndReapsItsOwn

-----------------------------------------------------------------------------
(* The wake file.                                                          *)

(* A hook that is about to unlink knows all unread mail up to its question.*)
AnswerCovers ==
  \A s \in Session : At(s, "clear") =>
    \A d \in unread : d <= hook[s].asked => d \in hook[s].answer

LEMMA OthersKeepAnswers ==
  ASSUME TypeOK, AnswerCovers, NEW s \in Session, unread' = unread,
         hook'[s].step # "clear",
         \A t \in Session \ {s} :
           /\ hook'[t].step = hook[t].step /\ hook'[t].asked = hook[t].asked
           /\ hook'[t].answer = hook[t].answer
  PROVE  AnswerCovers'
BY DEF AnswerCovers, At

LEMMA AnswerStep ==
  TypeOK /\ AnswerCovers /\ [Next]_vars => AnswerCovers'
<1> SUFFICES ASSUME TypeOK, AnswerCovers, [Next]_vars PROVE AnswerCovers'
  OBVIOUS
<1>1. ASSUME NEW s \in Session, NEW op \in {"none", "start", "pending", "end"},
             NEW step \in Steps \ {"clear"}, unread' = unread,
             hook' = [hook EXCEPT ![s] = Running(op, step)]
      PROVE  AnswerCovers'
  <2>1. hook'[s].step = step /\ \A t \in Session \ {s} : hook'[t] = hook[t]
    BY <1>1, BeginStep
  <2>2. QED
    BY <1>1, <2>1, OthersKeepAnswers
<1>2. ASSUME NEW s \in Session, Open(s) PROVE AnswerCovers'
  <2>1. \E step \in Steps \ {"clear"} : hook' = [hook EXCEPT ![s] = Running("start", step)]
    BY <1>2 DEF Open, Begin, Steps
  <2>2. QED
    BY <1>1, <1>2, <2>1 DEF Open, mail
<1>3. ASSUME NEW s \in Session, Restart(s) \/ Turn(s) \/ End(s) \/ Reap(s)
      PROVE  AnswerCovers'
  <2>1. \E op \in {"none", "start", "pending", "end"}, step \in Steps \ {"clear"} :
          hook' = [hook EXCEPT ![s] = Running(op, step)]
    BY <1>3 DEF Restart, Turn, End, Reap, Begin, Goto, Steps
  <2>2. unread' = unread
    BY <1>3 DEF Restart, Turn, End, Reap, mail
  <2>3. QED
    BY <1>1, <2>1, <2>2
<1>4. ASSUME NEW s \in Session, ReadClaim(s) PROVE AnswerCovers'
  <2>1. PICK v : hook' = [hook EXCEPT ![s] = Looked(s, v)]
    BY <1>4 DEF ReadClaim
  <2>2. QED
    BY <1>4, <2>1, ReadStep, OthersKeepAnswers DEF ReadClaim, mail
<1>5. ASSUME NEW s \in Session, WriteClaim(s) PROVE AnswerCovers'
  BY <1>5, WriteStep, OthersKeepAnswers DEF WriteClaim, mail
<1>6. ASSUME NEW s \in Session, Answered(s) PROVE AnswerCovers'
  <2>1. unread' = unread
    BY <1>6 DEF Answered, mail
  <2>2. QED
    BY <1>6, <2>1, AnsweredStep DEF AnswerCovers, At
<1>7. ASSUME NEW s \in Session, unread' = unread, hook' = Done(s) PROVE AnswerCovers'
  BY <1>7, DoneStep, OthersKeepAnswers
<1>8. ASSUME NEW s \in Session,
             Clear(s) \/ Unreachable(s) \/ EndUnnamed(s) \/ Unlink(s) \/ Kill(s)
      PROVE  AnswerCovers'
  BY <1>7, <1>8 DEF Clear, Unreachable, EndUnnamed, Unlink, Kill, Closed, mail
<1>9. ASSUME NEW s \in Session, Release(s) PROVE AnswerCovers'
  <2>1. CASE Closed(s)
    BY <1>7, <1>9, <2>1 DEF Release, Closed, mail
  <2>2. CASE hook' = Goto(s, "unlink")
    <3>1. hook' = [hook EXCEPT ![s] = Running("end", "unlink")] /\ unread' = unread
      BY <1>9, <2>2 DEF Goto, Release, mail
    <3>2. QED
      BY <1>1, <3>1 DEF Steps
  <2>3. QED
    BY <1>9, <2>1, <2>2 DEF Release
<1>10. ASSUME NEW s \in Session, Monitor(s) PROVE AnswerCovers'
  BY <1>10 DEF Monitor, MonitorStart, MonitorExit, Inject, sessions, mail, AnswerCovers, At
<1>11. CASE Arrive
  <2>1. arrived \in Nat /\ unread' = unread \cup {arrived + 1} /\ hook' = hook
    BY <1>11 DEF Arrive, TypeOK, sessions
  <2>2. ASSUME NEW s \in Session PROVE hook[s].asked \in Nat /\ hook[s].asked <= arrived
    BY DEF TypeOK, Hook
  <2>3. ASSUME NEW s \in Session PROVE ~(arrived + 1 <= hook[s].asked)
    BY <2>1, <2>2
  <2>4. QED
    BY <2>1, <2>3 DEF AnswerCovers, At
<1>12. CASE Age
  BY <1>12 DEF Age, sessions, mail, AnswerCovers, At
<1>13. ASSUME NEW d \in Mail, Capture(d) \/ Read(d) PROVE AnswerCovers'
  BY <1>13 DEF Capture, Read, sessions, mail, AnswerCovers, At
<1>14. CASE UNCHANGED vars
  BY <1>14 DEF vars, sessions, mail, AnswerCovers, At
<1>15. QED
  BY <1>2, <1>3, <1>4, <1>5, <1>6, <1>8, <1>9, <1>10, <1>11, <1>12, <1>13, <1>14
     DEF Next, StartHook, AskHook, EndHook

THEOREM AnswersCover == Spec => []AnswerCovers
<1>1. Init => AnswerCovers
  BY RunningIsHook DEF Init, AnswerCovers, At, Idle, Steps
<1>2. QED
  BY <1>1, AnswerStep, TypeCorrect, PTL DEF Spec

(* No hook destroys the only trace of mail nobody was told of.             *)
THEOREM NothingErasedUnknown == Spec => ErasedIsKnown
<1>1. ASSUME TypeOK, AnswerCovers, [Next]_vars,
             NEW d \in wake \ wake', d \in unread
      PROVE  d \in told' \/ \E s \in Session : At(s, "clear") /\ hook[s].asked < d
  <2>1. PICK s \in Session : Clear(s)
    BY <1>1 DEF Next, vars, lines, claims, mail, sessions, StartHook, AskHook, EndHook, Open,
         Restart, Turn, End, Kill, ReadClaim, WriteClaim, Answered, Unreachable,
         EndUnnamed, Reap, Release, Unlink, Arrive, Age, Capture, Read, Monitor,
         MonitorStart, MonitorExit, Inject
  <2>2. d \in Nat /\ hook[s].asked \in Nat
    BY <1>1 DEF TypeOK, Hook
  <2>3. CASE d <= hook[s].asked
    <3>1. d \in hook[s].answer
      BY <1>1, <2>1, <2>3 DEF AnswerCovers, Clear
    <3>2. QED
      BY <2>1, <3>1 DEF Clear
  <2>4. CASE hook[s].asked < d
    BY <2>1, <2>4 DEF Clear
  <2>5. QED
    BY <2>2, <2>3, <2>4
<1>2. TypeOK /\ AnswerCovers /\ [Next]_vars =>
        [\A d \in wake \ wake' : d \in unread =>
           d \in told' \/ \E s \in Session : At(s, "clear") /\ hook[s].asked < d]_vars
  BY <1>1
<1>3. QED
  BY <1>2, TypeCorrect, AnswersCover, PTL DEF Spec, ErasedIsKnown

-----------------------------------------------------------------------------
(* The claim.                                                              *)

(* The claim of the session that claimed last stands, or was destroyed.    *)
Standing == latest # None => claim = latest \/ robbed

(* A session about to unlink the claim has read its own; what it will hit  *)
(* instead was written since.                                              *)
Overwritten ==
  \A u \in Session : (At(u, "unlink") /\ claim \in Session)
                       => (claim = u \/ claim \in hook[u].missed)

(* A start that has looked and seen nobody missed the last claim, or that  *)
(* claim is aged or destroyed.                                             *)
Looking ==
  \A s, t \in Session :
    s # t /\ At(s, "write") /\ latest = t /\ ~aged /\ hook[s].other = None
      => t \in hook[s].missed \/ robbed

(* A session that ends is no longer the one that claimed last.             *)
EndingIsOut ==
  \A s \in Session :
    hook[s].step \in {"reap", "release", "unlink"} => latest # s

ClaimInv == Standing /\ Overwritten /\ Looking /\ EndingIsOut

(* Most steps leave the claim alone, and no hook newly looks at it.        *)
LEMMA ClaimKept ==
  ASSUME TypeOK, ClaimInv, NEW s \in Session,
         claim' = claim, robbed' = robbed, latest' = latest \/ latest' = None,
         aged => aged',
         hook'[s].step \notin {"write", "unlink"},
         hook'[s].step \in {"reap", "release"} => latest' # s,
         \A t \in Session \ {s} : hook'[t] = hook[t]
  PROVE  ClaimInv'
<1>1. Standing'
  BY DEF ClaimInv, Standing
<1>2. Overwritten'
  BY DEF ClaimInv, Overwritten, At
<1>3. Looking'
  <2> SUFFICES ASSUME NEW u \in Session, NEW t \in Session, u # t, At(u, "write")',
                      latest' = t, ~aged', hook'[u].other = None
               PROVE  t \in hook'[u].missed \/ robbed'
    BY DEF Looking
  <2>1. u # s /\ hook'[u] = hook[u] /\ latest = t /\ ~aged
    BY SessionAssumption DEF At, SessionAssumption
  <2>2. QED
    BY <2>1 DEF ClaimInv, Looking, At
<1>4. EndingIsOut'
  BY SessionAssumption DEF SessionAssumption, ClaimInv, EndingIsOut
<1>5. QED
  BY <1>1, <1>2, <1>3, <1>4 DEF ClaimInv

LEMMA ClaimSame ==
  ASSUME ClaimInv, claim' = claim, robbed' = robbed, latest' = latest,
         aged => aged', hook' = hook
  PROVE  ClaimInv'
<1>1. Standing' /\ Overwritten' /\ EndingIsOut'
  BY DEF ClaimInv, Standing, Overwritten, EndingIsOut, At
<1>2. Looking'
  BY DEF ClaimInv, Looking, At
<1>3. QED
  BY <1>1, <1>2 DEF ClaimInv

LEMMA ClaimRead ==
  ASSUME TypeOK, ClaimInv, NEW s \in Session, ReadClaim(s)
  PROVE  ClaimInv'
<1> USE SessionAssumption DEF SessionAssumption
<1>1. PICK v \in ClaimFile(s) : hook' = [hook EXCEPT ![s] = Looked(s, v)]
  BY DEF ReadClaim
<1>2. /\ hook'[s].step = "write" /\ hook'[s].other = OtherClaim(s, v)
      /\ v = Torn /\ Rewriting(s) # {} => hook'[s].missed = Session \ {s}
      /\ \A t \in Session \ {s} : hook'[t] = hook[t]
  BY <1>1, ReadStep
<1>3. UNCHANGED <<claim, aged, latest, robbed>>
  BY DEF ReadClaim, claims
<1>4. Standing' /\ Overwritten' /\ EndingIsOut'
  BY <1>2, <1>3 DEF ClaimInv, Standing, Overwritten, EndingIsOut, At
<1>5. Looking'
  <2> SUFFICES ASSUME NEW u \in Session, NEW t \in Session, u # t, At(u, "write")',
                      latest' = t, ~aged', hook'[u].other = None
               PROVE  t \in hook'[u].missed \/ robbed'
    BY DEF Looking
  <2>1. CASE u # s
    BY <1>2, <1>3, <2>1 DEF ClaimInv, Looking, At
  <2>2. CASE u = s
    <3>1. v = claim \/ (v = Torn /\ Rewriting(s) # {})
      BY DEF ClaimFile
    <3>2. CASE v = Torn /\ Rewriting(s) # {}
      BY <1>2, <2>2, <3>2
    <3>3. CASE v = claim
      <4>1. claim # t
        BY <1>2, <1>3, <2>2, <3>3 DEF OtherClaim
      <4>2. robbed
        BY <1>3, <4>1 DEF ClaimInv, Standing
      <4>3. QED
        BY <1>3, <4>2
    <3>4. QED
      BY <3>1, <3>2, <3>3
  <2>3. QED
    BY <2>1, <2>2
<1>6. QED
  BY <1>4, <1>5 DEF ClaimInv

LEMMA ClaimWritten ==
  ASSUME TypeOK, ClaimInv, NEW s \in Session, WriteClaim(s)
  PROVE  ClaimInv'
<1>1. claim' = s /\ latest' = s /\ robbed' = FALSE /\ At(s, "write")
  BY DEF WriteClaim
<1>2. /\ hook'[s].step = "ask"
      /\ \A t \in Session \ {s} :
           /\ hook'[t].step = hook[t].step
           /\ hook[t].step \in {"write", "unlink"} => s \in hook'[t].missed
  BY WriteStep
<1>3. Standing' /\ Overwritten'
  BY <1>1, <1>2 DEF Standing, Overwritten, At
<1>4. Looking'
  BY <1>1, <1>2 DEF Looking, At
<1>5. EndingIsOut'
  BY <1>1, <1>2 DEF ClaimInv, EndingIsOut
<1>6. QED
  BY <1>3, <1>4, <1>5 DEF ClaimInv

LEMMA ClaimReleased ==
  ASSUME TypeOK, ClaimInv, NEW s \in Session, Release(s), hook' = Goto(s, "unlink")
  PROVE  ClaimInv'
<1> USE SessionAssumption DEF SessionAssumption
<1>1. hook' = [hook EXCEPT ![s] = Running("end", "unlink")]
  BY DEF Goto
<1>2. hook'[s].step = "unlink" /\ \A t \in Session \ {s} : hook'[t] = hook[t]
  BY <1>1, BeginStep DEF Steps
<1>3. UNCHANGED <<claim, aged, latest, robbed>> /\ At(s, "release")
  BY DEF Release, claims
<1>4. claim = s
  <2>1. PICK v \in ClaimFile(s) :
          IF v = s THEN hook' = Goto(s, "unlink") /\ UNCHANGED <<phase, named>>
                   ELSE Closed(s)
    BY DEF Release
  <2>2. v = s
    <3>1. ASSUME Closed(s) PROVE FALSE
      BY <1>2, <3>1, DoneStep DEF Closed
    <3>2. QED
      BY <2>1, <3>1
  <2>3. QED
    BY <2>2 DEF ClaimFile
<1>5. Standing' /\ Overwritten'
  BY <1>2, <1>3, <1>4 DEF ClaimInv, Standing, Overwritten, At
<1>6. Looking'
  BY <1>2, <1>3 DEF ClaimInv, Looking, At
<1>7. EndingIsOut'
  BY <1>2, <1>3 DEF ClaimInv, EndingIsOut, At
<1>8. QED
  BY <1>5, <1>6, <1>7 DEF ClaimInv

(* An unlink, and a rewrite that a kill cuts short: the claim goes, and    *)
(* whoever claimed last is now robbed of it.                               *)
LEMMA ClaimGone ==
  ASSUME TypeOK, ClaimInv, NEW s \in Session,
         claim' \in {None, Torn}, robbed => robbed',
         latest' = latest \/ latest' = None,
         latest' # None /\ claim = latest' => robbed',
         hook'[s].step = "idle",
         \A t \in Session \ {s} : hook'[t] = hook[t]
  PROVE  ClaimInv'
<1> USE SessionAssumption DEF SessionAssumption
<1>1. \A t \in Session : latest' = t => robbed'
  BY DEF ClaimInv, Standing
<1>2. Standing'
  BY <1>1 DEF Standing, TypeOK
<1>3. Overwritten'
  BY DEF Overwritten
<1>4. Looking'
  BY <1>1 DEF Looking
<1>5. EndingIsOut'
  BY DEF ClaimInv, EndingIsOut
<1>6. QED
  BY <1>2, <1>3, <1>4, <1>5 DEF ClaimInv

LEMMA ClaimStep ==
  TypeOK /\ ClaimInv /\ [Next]_vars => ClaimInv'
<1> SUFFICES ASSUME TypeOK, ClaimInv, [Next]_vars PROVE ClaimInv'
  OBVIOUS
<1> USE SessionAssumption DEF SessionAssumption
<1>1. ASSUME NEW s \in Session, Open(s) \/ Restart(s) \/ Turn(s) PROVE ClaimInv'
  <2>1. \E op \in {"none", "start", "pending", "end"}, step \in {"read", "ask"} :
          hook' = [hook EXCEPT ![s] = Running(op, step)]
    BY <1>1 DEF Open, Restart, Turn, Begin
  <2>2. hook'[s].step \in {"read", "ask"} /\ \A t \in Session \ {s} : hook'[t] = hook[t]
    BY <2>1, BeginStep DEF Steps
  <2>3. UNCHANGED <<claim, aged, latest, robbed>>
    BY <1>1 DEF Open, Restart, Turn, claims
  <2>4. QED
    BY <2>2, <2>3, ClaimKept
<1>2. ASSUME NEW s \in Session, End(s) PROVE ClaimInv'
  <2>1. hook' = [hook EXCEPT ![s] = Running("end", "reap")]
    BY <1>2 DEF End, Begin
  <2>2. hook'[s].step = "reap" /\ \A t \in Session \ {s} : hook'[t] = hook[t]
    BY <2>1, BeginStep DEF Steps
  <2>3. /\ UNCHANGED <<claim, aged, robbed>> /\ latest' # s
        /\ latest' = latest \/ latest' = None
    BY <1>2 DEF End
  <2>4. QED
    BY <2>2, <2>3, ClaimKept
<1>3. ASSUME NEW s \in Session, Reap(s) PROVE ClaimInv'
  <2>1. hook' = [hook EXCEPT ![s] = Running("end", "release")]
    BY <1>3 DEF Reap, Goto
  <2>2. hook'[s].step = "release" /\ \A t \in Session \ {s} : hook'[t] = hook[t]
    BY <2>1, BeginStep DEF Steps
  <2>3. UNCHANGED <<claim, aged, latest, robbed>>
    BY <1>3 DEF Reap, claims
  <2>4. latest # s
    BY <1>3 DEF Reap, At, ClaimInv, EndingIsOut
  <2>5. QED
    BY <2>2, <2>3, <2>4, ClaimKept
<1>4. ASSUME NEW s \in Session, Answered(s) PROVE ClaimInv'
  <2>1. UNCHANGED <<claim, aged, latest, robbed>>
    BY <1>4 DEF Answered, claims
  <2>2. QED
    BY <1>4, <2>1, AnsweredStep, ClaimKept
<1>5. ASSUME NEW s \in Session, hook' = Done(s), UNCHANGED <<claim, aged, robbed>>,
             latest' = latest \/ latest' = None
      PROVE  ClaimInv'
  BY <1>5, DoneStep, ClaimKept
<1>6. ASSUME NEW s \in Session, Clear(s) \/ Unreachable(s) \/ EndUnnamed(s)
      PROVE  ClaimInv'
  BY <1>5, <1>6 DEF Clear, Unreachable, EndUnnamed, Closed, claims
<1>7. ASSUME NEW s \in Session, Unlink(s) PROVE ClaimInv'
  <2>1. hook'[s].step = "idle" /\ \A t \in Session \ {s} : hook'[t] = hook[t]
    BY <1>7, DoneStep DEF Unlink, Closed
  <2>2. /\ claim' = None /\ latest' = latest
        /\ robbed' = (robbed \/ (claim = latest /\ claim \in hook[s].missed))
    BY <1>7 DEF Unlink
  <2>3. latest # None /\ claim = latest => robbed'
    BY <1>7, <2>2 DEF Unlink, ClaimInv, Overwritten, EndingIsOut, At, TypeOK
  <2>4. QED
    BY <2>1, <2>2, <2>3, ClaimGone
<1>8. ASSUME NEW s \in Session, Kill(s) PROVE ClaimInv'
  <2>1. hook' = Done(s) /\ (latest' = latest \/ latest' = None) 
    BY <1>8 DEF Kill, Closed
  <2>2. CASE UNCHANGED <<claim, aged, robbed>>
    BY <1>5, <2>1, <2>2
  <2>3. CASE claim' = Torn /\ robbed' = (robbed \/ claim = latest)
    <3>1. hook'[s].step = "idle" /\ \A t \in Session \ {s} : hook'[t] = hook[t]
      BY <2>1, DoneStep
    <3>2. latest' # None /\ claim = latest' => robbed'
      BY <2>1, <2>3 DEF TypeOK
    <3>3. QED
      BY <2>1, <2>3, <3>1, <3>2, ClaimGone
  <2>4. QED
    BY <1>8, <2>2, <2>3 DEF Kill
<1>9. ASSUME NEW s \in Session, Release(s) PROVE ClaimInv'
  <2>1. CASE Closed(s)
    BY <1>5, <1>9, <2>1 DEF Release, Closed, claims
  <2>2. CASE hook' = Goto(s, "unlink")
    BY <1>9, <2>2, ClaimReleased
  <2>3. QED
    BY <1>9, <2>1, <2>2 DEF Release
<1>10. ASSUME NEW s \in Session, Monitor(s) PROVE ClaimInv'
  BY <1>10, ClaimSame DEF Monitor, MonitorStart, MonitorExit, Inject, sessions, claims
<1>11. CASE Arrive \/ Age
  BY <1>11, ClaimSame DEF Arrive, Age, sessions, claims
<1>12. ASSUME NEW d \in Mail, Capture(d) \/ Read(d) PROVE ClaimInv'
  BY <1>12, ClaimSame DEF Capture, Read, sessions, claims
<1>13. CASE UNCHANGED vars
  BY <1>13, ClaimSame DEF vars, sessions, claims
<1>14. QED
  BY <1>1, <1>2, <1>3, <1>4, <1>6, <1>7, <1>8, <1>9, <1>10, <1>11, <1>12, <1>13,
     ClaimRead, ClaimWritten DEF Next, StartHook, AskHook, EndHook

THEOREM ClaimAccounted == Spec => []ClaimInv
<1>1. Init => ClaimInv
  <2> SUFFICES ASSUME Init PROVE ClaimInv
    OBVIOUS
  <2>1. \A s \in Session : hook[s].step = "idle"
    BY RunningIsHook DEF Init, Idle, Steps
  <2>2. QED
    BY <2>1 DEF Init, ClaimInv, Standing, Overwritten, Looking, EndingIsOut, At
<1>2. QED
  BY <1>1, ClaimStep, TypeCorrect, PTL DEF Spec

(* Sharing an identity does not go unsaid: a start beside the session that *)
(* claimed last is told, but for the listed races.                         *)
THEOREM SharingIsSaid == Spec => NewcomerIsTold
<1>1. ASSUME TypeOK, ClaimInv, [Next]_vars, NEW s \in Session, NEW t \in Session,
             s # t, At(s, "write"), latest = t, ~aged
      PROVE  hook[s].other # None \/ t \in hook[s].missed \/ robbed
  BY <1>1 DEF ClaimInv, Looking
<1>2. TypeOK /\ ClaimInv /\ [Next]_vars =>
        [\A s, t \in Session :
           /\ s # t /\ At(s, "write") /\ hook'[s].step = "ask"
           /\ latest = t /\ ~aged
           => hook[s].other # None \/ t \in hook[s].missed \/ robbed]_vars
  BY <1>1
<1>3. QED
  BY <1>2, TypeCorrect, ClaimAccounted, PTL DEF Spec, NewcomerIsTold

=============================================================================
