---------------------------- MODULE SessionHooks ----------------------------
(***************************************************************************)
(* The hooks a harness runs around a session: SessionStart, one at every   *)
(* prompt, and SessionEnd (hooks/_session.py, hooks/_turn.py), and the two *)
(* that a wake process runs for a delivery: notify and inject.             *)
(*                                                                         *)
(* Every session opened in one checkout acts as the same agent.  They share*)
(* the agent's wake file, to which notify appends and which a hook that    *)
(* reached the bus unlinks, and the claim file, by which a session that    *)
(* starts learns that another one is there.  Each session has a monitor of *)
(* its own.  No hook takes a lock: what another session does between two   *)
(* steps of a hook is part of the model.                                   *)
(***************************************************************************)
EXTENDS Naturals, FiniteSets

CONSTANTS
  Session,   \* sessions of one agent
  None,      \* no file; no session
  Torn,      \* what a reader finds in a file that is being written
  MaxMail,   \* bound: deliveries that arrive
  MaxOpens   \* bound: times a session is opened or resumed

ASSUME SessionAssumption ==
  /\ IsFiniteSet(Session)
  /\ None \notin Session /\ Torn \notin Session /\ None # Torn
  /\ MaxMail \in Nat /\ MaxOpens \in Nat

VARIABLES
  phase,    \* per session: "closed", "open", "ending"
  named,    \* sessions whose environment carries their id
  hook,     \* per session: the hook that runs in it
  opens,    \* how many times a session was opened
  monitor,  \* per session: its monitor process: "off", "on", "ending"
  claim,    \* the claim file: a session, None, or Torn
  aged,     \* the claim is 12 hours old
  arrived,  \* deliveries 1, 2, ... so far
  unread,   \* those nobody has read
  wake,     \* those with a line in the wake file
  \* ghosts
  told,      \* deliveries that a session was told of
  latest,    \* the session that has claimed last and not begun to end
  robbed     \* its claim was destroyed under it

sessions == <<phase, named, hook, opens>>
claims == <<claim, aged, latest, robbed>>
mail == <<arrived, unread>>
lines == <<wake, told>>
vars == <<sessions, monitor, claims, mail, lines>>

Mail == 1..MaxMail

Running(op, step) == [op |-> op, step |-> step, other |-> None, missed |-> {},
                      asked |-> 0, answer |-> {}]
Idle == Running("none", "idle")
At(s, step) == hook[s].step = step
Begin(s, op, step) == [hook EXCEPT ![s] = Running(op, step)]
Goto(s, step) == [hook EXCEPT ![s] = Running("end", step)]
Done(s) == [hook EXCEPT ![s] = Idle]

Init ==
  /\ phase = [s \in Session |-> "closed"]
  /\ named = {}
  /\ hook = [s \in Session |-> Idle]
  /\ opens = 0
  /\ monitor = [s \in Session |-> "off"]
  /\ claim \in {None, Torn}
  /\ aged = FALSE
  /\ arrived = 0 /\ unread = {}
  /\ wake = {} /\ told = {}
  /\ latest = None /\ robbed = FALSE

-----------------------------------------------------------------------------
(* SessionStart: on opening, on resuming, and again after a clear or a     *)
(* compaction.  A session that cannot name itself claims nothing.          *)

Open(s) ==
  /\ phase[s] = "closed" /\ opens < MaxOpens
  /\ opens' = opens + 1
  /\ phase' = [phase EXCEPT ![s] = "open"]
  /\ \/ named' = named \cup {s} /\ hook' = Begin(s, "start", "read")
     \/ UNCHANGED named /\ hook' = Begin(s, "start", "ask")
  /\ UNCHANGED <<monitor, claims, mail, lines>>

Restart(s) ==
  /\ phase[s] = "open" /\ At(s, "idle")
  /\ hook' = Begin(s, "start", IF s \in named THEN "read" ELSE "ask")
  /\ UNCHANGED <<phase, named, opens, monitor, claims, mail, lines>>

\* The claim file is rewritten in place.
Rewriting(s) == {t \in Session \ {s} : At(t, "write")}
ClaimFile(s) == {claim} \cup (IF Rewriting(s) # {} THEN {Torn} ELSE {})

\* Variant: a claim is reported only while its session's monitor is found.
OtherClaimSilent(s, v) ==
  IF v \in Session \ {s} /\ ~aged /\ monitor[v] # "off" THEN v ELSE None

\* A claim worth a word: another session's, less than 12 hours old.  A file
\* that is absent or does not parse is no claim.
OtherClaim(s, v) == IF v \in Session \ {s} /\ ~aged THEN v ELSE None

\* (missed, a ghost: the sessions whose claim this look may not have seen.)
Looked(s, v) ==
  [op |-> "start", step |-> "write", other |-> OtherClaim(s, v),
   missed |-> IF v = Torn /\ Rewriting(s) # {} THEN Session \ {s} ELSE {},
   asked |-> 0, answer |-> {}]

ReadClaim(s) ==
  /\ At(s, "read")
  /\ \E v \in ClaimFile(s) :
       hook' = [hook EXCEPT ![s] = Looked(s, v)]
  /\ UNCHANGED <<phase, named, opens, monitor, claims, mail, lines>>

\* An alarm when the other session's monitor runs, a softer notice when it does
\* not, nothing when there is no claim; then the claim is ours, either way.
WriteClaim(s) ==
  /\ At(s, "write")
  /\ claim' = s /\ aged' = FALSE
  /\ latest' = s /\ robbed' = FALSE
  /\ hook' = [t \in Session |->
       IF t = s THEN Running("start", "ask")
       ELSE IF At(t, "write") \/ At(t, "unlink") THEN [hook[t] EXCEPT !.missed = @ \cup {s}]
       ELSE hook[t]]
  /\ UNCHANGED <<phase, named, opens, monitor, mail, lines>>

-----------------------------------------------------------------------------
(* The hook at a prompt, and the question both hooks ask.                  *)

\* (A prompt that is a notification of the harness's own runs no hook.)
Turn(s) ==
  /\ phase[s] = "open" /\ At(s, "idle")
  /\ hook' = Begin(s, "pending", "ask")
  /\ UNCHANGED <<phase, named, opens, monitor, claims, mail, lines>>

\* Variant: the wake file is all a hook looks at.
AnsweredLocally(s) ==
  /\ At(s, "ask")
  /\ told' = told \cup wake
  /\ hook' = Done(s)
  /\ UNCHANGED <<phase, named, opens, monitor, claims, mail, wake>>

\* whoami answers with what is unread: an authority, even when it is nothing.
Answered(s) ==
  /\ At(s, "ask")
  /\ hook' = [hook EXCEPT ![s] =
               [op |-> hook[s].op, step |-> "clear", other |-> None, missed |-> {},
                asked |-> arrived, answer |-> unread]]
  /\ UNCHANGED <<phase, named, opens, monitor, claims, mail, lines>>

\* The count is printed (a preview may be missing), and the wake file removed
\* without a look at what is in it now.
Clear(s) ==
  /\ At(s, "clear")
  /\ told' = told \cup hook[s].answer
  /\ wake' = {}
  /\ hook' = Done(s)
  /\ UNCHANGED <<phase, named, opens, monitor, claims, mail>>

\* Variant: the wake file is removed whether or not the bus answered.
UnreachableErases(s) ==
  /\ At(s, "ask")
  /\ wake' = {}
  /\ hook' = Done(s)
  /\ UNCHANGED <<phase, named, opens, monitor, claims, mail, told>>

\* Without an answer a turn shows the captured lines, and keeps them.
Unreachable(s) ==
  /\ At(s, "ask")
  /\ told' = IF hook[s].op = "pending" THEN told \cup wake ELSE told
  /\ hook' = Done(s)
  /\ UNCHANGED <<phase, named, opens, monitor, claims, mail, wake>>

-----------------------------------------------------------------------------
(* SessionEnd.                                                             *)

End(s) ==
  /\ phase[s] = "open" /\ At(s, "idle")
  /\ phase' = [phase EXCEPT ![s] = "ending"]
  /\ hook' = Begin(s, "end", "reap")
  /\ latest' = IF latest = s THEN None ELSE latest
  /\ UNCHANGED <<named, opens, monitor, claim, aged, robbed, mail, lines>>

Closed(s) ==
  /\ phase' = [phase EXCEPT ![s] = "closed"]
  /\ named' = named \ {s}
  /\ hook' = Done(s)

\* A session whose id is neither in the environment nor on stdin reaps nothing.
EndUnnamed(s) ==
  /\ At(s, "reap") /\ s \notin named
  /\ Closed(s)
  /\ UNCHANGED <<opens, monitor, claims, mail, lines>>

\* Signal our own monitor (and remove its cursor file).
Reap(s) ==
  /\ At(s, "reap")
  /\ monitor' = IF monitor[s] = "on" THEN [monitor EXCEPT ![s] = "ending"] ELSE monitor
  /\ hook' = Goto(s, "release")
  /\ UNCHANGED <<phase, named, opens, claims, mail, lines>>

\* Variant: the claim is removed by its name, whoever it is for.
ReleaseBlind(s) ==
  /\ At(s, "release")
  /\ hook' = Goto(s, "unlink") /\ UNCHANGED <<phase, named>>
  /\ UNCHANGED <<opens, monitor, claims, mail, lines>>

\* Only a claim that names us is removed; it is read first.
Release(s) ==
  /\ At(s, "release")
  /\ \E v \in ClaimFile(s) :
       IF v = s THEN hook' = Goto(s, "unlink") /\ UNCHANGED <<phase, named>>
                ELSE Closed(s)
  /\ UNCHANGED <<opens, monitor, claims, mail, lines>>

Unlink(s) ==
  /\ At(s, "unlink")
  /\ robbed' = (robbed \/ (claim = latest /\ claim \in hook[s].missed))
  /\ claim' = None /\ aged' = FALSE
  /\ Closed(s)
  /\ UNCHANGED <<opens, latest, monitor, mail, lines>>

-----------------------------------------------------------------------------
(* The session's monitor.                                                  *)

MonitorStart(s) ==
  /\ phase[s] = "open" /\ monitor[s] = "off"
  /\ monitor' = [monitor EXCEPT ![s] = "on"]
  /\ UNCHANGED <<sessions, claims, mail, lines>>

MonitorExit(s) ==
  /\ monitor[s] # "off"
  /\ monitor' = [monitor EXCEPT ![s] = "off"]
  /\ UNCHANGED <<sessions, claims, mail, lines>>

\* A notice is written to the session's socket; when there is none, or the write
\* does not complete, it is a line on the monitor's output.  A session that has
\* ended hears neither.
Reaches(s) == monitor[s] # "off" /\ phase[s] = "open"

\* inject: one notice for one arrival, whatever its origin.
Inject(s, d) ==
  /\ Reaches(s)
  /\ d \in unread
  /\ told' = told \cup {d}
  /\ UNCHANGED <<sessions, monitor, claims, mail, wake>>

\* notify, from any wake process of the agent: the line is appended, or the
\* failure is put on record and the line is missing.
Capture(d) ==
  /\ d \in 1..arrived
  /\ wake' = wake \cup {d}
  /\ UNCHANGED <<sessions, monitor, claims, mail, told>>

-----------------------------------------------------------------------------
Arrive ==
  /\ arrived < MaxMail
  /\ arrived' = arrived + 1
  /\ unread' = unread \cup {arrived + 1}
  /\ UNCHANGED <<sessions, monitor, claims, lines>>

Read(d) ==
  /\ d \in unread
  /\ unread' = unread \ {d}
  /\ UNCHANGED <<arrived, sessions, monitor, claims, lines>>

\* Twelve hours after the claim was written.
Age ==
  /\ claim \in Session
  /\ aged' = TRUE
  /\ UNCHANGED <<sessions, monitor, claim, latest, robbed, mail, lines>>

\* A session is killed, with the hook that runs in it: no SessionEnd.  In the
\* middle of a rewrite it leaves an empty claim file.
Kill(s) ==
  /\ phase[s] # "closed"
  /\ Closed(s)
  /\ latest' = IF latest = s THEN None ELSE latest
  /\ \/ UNCHANGED <<claim, aged, robbed>>
     \/ /\ At(s, "write")
        /\ claim' = Torn
        /\ robbed' = (robbed \/ claim = latest)
        /\ aged' = FALSE
  /\ UNCHANGED <<opens, monitor, mail, lines>>

StartHook(s) == ReadClaim(s) \/ WriteClaim(s)
AskHook(s) == Answered(s) \/ Clear(s) \/ Unreachable(s)
EndHook(s) == EndUnnamed(s) \/ Reap(s) \/ Release(s) \/ Unlink(s)
Monitor(s) ==
  MonitorStart(s) \/ MonitorExit(s) \/ \E d \in Mail : Inject(s, d)

Next ==
  \/ \E s \in Session :
       \/ Open(s) \/ Restart(s) \/ Turn(s) \/ End(s) \/ Kill(s)
       \/ StartHook(s) \/ AskHook(s) \/ EndHook(s) \/ Monitor(s)
  \/ Arrive \/ Age
  \/ \E d \in Mail : Capture(d) \/ Read(d)

\* A hook that was started runs on; an open session is prompted again and
\* again; a bus that is asked again and again answers some time.
Fairness ==
  \A s \in Session :
    /\ WF_vars(StartHook(s) \/ AskHook(s) \/ EndHook(s))
    /\ WF_vars(Turn(s))
    /\ SF_vars(Answered(s))

Spec == Init /\ [][Next]_vars /\ Fairness

-----------------------------------------------------------------------------
Steps == {"idle", "read", "write", "ask", "clear", "reap", "release", "unlink"}

Hook == [op : {"none", "start", "pending", "end"}, step : Steps,
         other : Session \cup {None}, missed : SUBSET Session,
         asked : 0..MaxMail, answer : SUBSET Mail]

\* Types, and: no hook knows of deliveries that have not arrived.
TypeOK ==
  /\ phase \in [Session -> {"closed", "open", "ending"}]
  /\ named \subseteq Session
  /\ hook \in [Session -> Hook]
  /\ \A s \in Session : hook[s].asked <= arrived
  /\ opens \in 0..MaxOpens
  /\ monitor \in [Session -> {"off", "on", "ending"}]
  /\ claim \in Session \cup {None, Torn} /\ aged \in BOOLEAN
  /\ arrived \in 0..MaxMail /\ unread \subseteq 1..arrived
  /\ wake \subseteq 1..arrived /\ told \subseteq Mail
  /\ latest \in Session \cup {None} /\ robbed \in BOOLEAN

\* No line of the wake file is destroyed by a hook that learned nothing: mail
\* whose line goes has been read, or a session is told of it, or it arrived after
\* the answer that the unlinking hook had got.
ErasedIsKnown ==
  [][\A d \in wake \ wake' : d \in unread =>
       d \in told' \/ \E s \in Session : At(s, "clear") /\ hook[s].asked < d]_vars

\* A session that starts beside another one is told so, unless: the file
\* was being rewritten as we looked, the other claimed later than that, its claim is 12 hours old, its claim was
\* destroyed under it (an ending session unlinks what it read as its own, a
\* start killed in its rewrite), or a third session has claimed since.
NewcomerIsTold ==
  [][\A s, t \in Session :
       /\ s # t /\ At(s, "write") /\ hook'[s].step = "ask"
       /\ latest = t /\ ~aged
       => hook[s].other # None \/ t \in hook[s].missed \/ robbed]_vars

\* All sessions of a checkout are one agent, and yet an ending session does not
\* deafen another: a running monitor is signalled only by its own session's end.
EndReapsItsOwn ==
  [][\A t \in Session :
       monitor[t] = "on" /\ monitor'[t] = "ending" => At(t, "reap")]_vars

\* Unread mail reaches whoever keeps working: an open session that goes on taking
\* turns is told of it, or the mail is read first.
ArrivalIsSurfaced ==
  \A s \in Session : \A d \in Mail :
    (phase[s] = "open" /\ d \in unread) ~>
      (d \in told \/ d \notin unread \/ phase[s] # "open")
=============================================================================
