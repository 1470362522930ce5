----------------------------- MODULE WakeDoctor -----------------------------
(***************************************************************************)
(* Rewake with the two self-tests of the client beside the monitors:       *)
(* `doctor --wake` (onboarding/_doctor.py) mails the agent a probe and     *)
(* runs the re-waker on it twice, with a ledger of its own; `doctor`       *)
(* (cli/_diag.py) mails it one and waits for it at the end of the inbox.   *)
(* Both act on the mailbox that the monitors watch, and report what they   *)
(* saw while monitors, peers and the session go on.                        *)
(***************************************************************************)
EXTENDS Rewake

CONSTANTS
  ListLimit,  \* deliveries of doctor --wake's unread list (200 in the code)
  ScanLimit   \* deliveries of one inbox page of doctor (200)

ASSUME WakeDoctorAssumption ==
  /\ ListLimit \in Nat /\ ListLimit >= PageLimit
  /\ ScanLimit \in Nat \ {0}

VARIABLE doc  \* the doctor

doctorVars == <<vars, doc>>

NoMail == 0
Doctor(kind, at) ==
  [kind |-> kind, pc |-> at,
   cursor |-> NoMail,   \* the last delivery before its probe, as it saw it
   probe |-> NoMail,    \* the probe's delivery, once it has arrived
   listed |-> FALSE,    \* it has found the probe in the unread list
   before |-> <<>>,     \* what it read of the monitors' ledger
   scratch |-> {},      \* the ledger it gives to the re-waker
   said |-> {},         \* what it reports
   calm |-> TRUE,       \* ghost: nothing happened that could mislead it
   noise |-> 0]         \* ghost: mail of others since it began to send
NoDoctor == Doctor("none", "off")

At(at) == doc.pc = at
Running == ~At("off")

DoctorInit == Init /\ doc = NoDoctor

-----------------------------------------------------------------------------
(* Steps of both.                                                          *)

Says(line, yes) == [doc EXCEPT !.said = IF yes THEN @ \union {line} ELSE @]

(* A call fails: that is what is reported.                                 *)
CallFails == doc' = NoDoctor

(* A doctor is followed until a monitor is armed beside it: from then on   *)
(* what it does to the mailbox is what a peer and the session may do.      *)
Quiet == \A m \in Monitor : pc[m] = "off"

SendProbe ==
  /\ At("send")
  /\ \/ doc' = [doc EXCEPT !.pc = IF doc.kind = "wake" THEN "list" ELSE "look"]
     \/ CallFails
  /\ UNCHANGED vars

(* What was sent need not be there at once.                                *)
ProbeArrives ==
  /\ doc.pc \in {"list", "look", "surface", "read", "again", "compare"}
  /\ doc.probe = NoMail
  /\ arrived < MaxMail
  /\ arrived' = arrived + 1
  /\ unread' = unread \union {arrived + 1}
  /\ doc' = [doc EXCEPT !.probe = arrived + 1]
  /\ UNCHANGED <<ledger, monitors, kills, ghosts>>

ReadProbe ==
  /\ At("read")
  /\ \/ /\ unread' = unread \ (IF doc.listed THEN {doc.probe} ELSE {})
        /\ doc' = [doc EXCEPT !.pc = IF doc.kind = "wake" THEN "again" ELSE "ack"]
     \/ CallFails /\ UNCHANGED unread
  /\ UNCHANGED <<arrived, ledger, monitors, kills, ghosts>>

Leave ==
  /\ At("verdict")
  /\ doc' = NoDoctor
  /\ UNCHANGED vars

-----------------------------------------------------------------------------
(* doctor --wake, where the Stop hook is what wakes the session.           *)

(* A re-waker that is not wired, or too old to take another ledger, is     *)
(* reported and not run.                                                   *)
StartWake ==
  /\ At("off") /\ Quiet
  /\ doc' = [Doctor("wake", "send") EXCEPT
               !.before = ledger,
               !.calm = Cardinality(unread) < PageLimit]
  /\ UNCHANGED vars

(* The unread list, to learn the probe's delivery.                         *)
List ==
  /\ At("list")
  /\ \/ doc' = [doc EXCEPT
                  !.pc = "surface",
                  !.listed = /\ doc.probe \in unread
                             /\ Cardinality(Older(doc.probe)) < ListLimit,
                  !.calm = @ /\ doc.probe # NoMail]
     \/ CallFails
  /\ UNCHANGED vars

(* What one pass of the re-waker shows: the page, if any of it is not in   *)
(* its ledger.  It claims what it shows.                                   *)
Shown == IF Page \subseteq doc.scratch THEN {} ELSE Page

ClaimedInProduction(keys) ==  \* a slip: the ledger it was given is ignored
  [ledger |-> ledger \o SetToSeq(keys \ ToSet(ledger)), scratch |-> doc.scratch \union keys]
ClaimedIn(keys) == [ledger |-> ledger, scratch |-> doc.scratch \union keys]

Pass(shown, polled, line, good, at) ==
  LET now == ClaimedIn(shown) IN
    /\ ledger' = now.ledger
    /\ doc' = [Says(line, good) EXCEPT !.pc = at, !.scratch = now.scratch,
                                       !.calm = @ /\ polled]

(* The first pass should show the probe.  A poll that fails shows nothing. *)
Surface ==
  /\ At("surface")
  /\ \/ Pass(Shown, TRUE, "surfaced", doc.listed /\ doc.probe \in Shown, "read")
     \/ Pass({}, FALSE, "surfaced", FALSE, "read")
     \/ CallFails /\ UNCHANGED ledger
  /\ UNCHANGED <<mail, monitors, kills, ghosts>>

(* The second should show nothing.                                         *)
Again ==
  /\ At("again")
  /\ \/ Pass(Shown, TRUE, "silent", Shown = {}, "compare")
     \/ Pass({}, FALSE, "silent", TRUE, "compare")
     \/ CallFails /\ UNCHANGED ledger
  /\ UNCHANGED <<mail, monitors, kills, ghosts>>

Compare ==
  /\ At("compare")
  /\ doc' = [Doctor("wake", "verdict") EXCEPT
               !.said = Says("untouched", ledger = doc.before).said, !.calm = doc.calm]
  /\ UNCHANGED vars

-----------------------------------------------------------------------------
(* doctor: the loop test.                                                  *)

StartLoop ==
  /\ At("off") /\ Quiet
  /\ doc' = Doctor("loop", "scan")
  /\ UNCHANGED vars

(* To the end of the inbox, page by page; read mail is listed too.         *)
AfterOnePage(from) ==  \* a slip: the first page is taken for the inbox
  doc' = [doc EXCEPT !.cursor = IF from + ScanLimit < arrived THEN from + ScanLimit ELSE arrived,
                     !.pc = "send"]
AfterPage(from) ==
  doc' = IF from = arrived THEN [doc EXCEPT !.pc = "send"]
         ELSE [doc EXCEPT !.cursor = IF from + ScanLimit < arrived
                                     THEN from + ScanLimit ELSE arrived]
Scan ==
  /\ At("scan")
  /\ AfterPage(doc.cursor) \/ CallFails
  /\ UNCHANGED vars

(* The first page after the cursor, again and again until the time is up.  *)
InSight == doc.probe \in doc.cursor + 1 .. doc.cursor + ScanLimit
Look ==
  /\ At("look")
  /\ \/ InSight /\ doc' = [doc EXCEPT !.pc = "read", !.listed = TRUE]
     \/ ~InSight /\ doc' = [Says("late", TRUE) EXCEPT !.pc = "verdict"]
     \/ CallFails
  /\ UNCHANGED vars

Ack ==
  /\ At("ack")
  /\ doc' = [Doctor("loop", "verdict") EXCEPT !.said = {"arrived"}] \/ CallFails
  /\ UNCHANGED vars

-----------------------------------------------------------------------------
(* The monitors, the peers and the session meanwhile.                      *)

Misled(yes) == IF doc.kind = "wake" THEN [doc EXCEPT !.calm = @ /\ ~yes] ELSE doc
Noisier ==
  IF doc.kind = "loop" /\ ~At("scan") THEN [doc EXCEPT !.noise = @ + 1] ELSE Misled(TRUE)

ArmBeside(m) == Arm(m) /\ doc' = NoDoctor

Meanwhile ==
  \/ Arrive /\ doc' = Noisier
  \/ \E d \in Mail : Read(d) /\ doc' = Misled(d = doc.probe)
  \/ \E m \in Monitor :
       \/ ArmBeside(m)
       \/ (Step(m) \/ PollInVain(m) \/ Expire(m) \/ Kill(m)) /\ UNCHANGED doc

Examine ==
  \/ StartWake \/ List \/ Surface \/ Again \/ Compare
  \/ StartLoop \/ Scan \/ Look \/ Ack
  \/ SendProbe \/ ProbeArrives \/ ReadProbe \/ Leave

DoctorSpec == DoctorInit /\ [][Meanwhile \/ Examine]_doctorVars /\ Fairness

-----------------------------------------------------------------------------
(* What the doctors say is so.  doctor --wake finds nothing wrong with a   *)
(* re-waker that works, when no other mail came, no more was unread than a *)
(* poll shows, no monitor was armed and no call failed; doctor says that   *)
(* its message is late only if it has not arrived, or a full page of other *)
(* mail arrived before it.                                                 *)
DoctorIsRight ==
  At("verdict") =>
    /\ (doc.kind = "wake" /\ doc.calm) => doc.said = {"surfaced", "silent", "untouched"}
    /\ "late" \in doc.said => doc.probe = NoMail \/ doc.noise >= ScanLimit
=============================================================================
