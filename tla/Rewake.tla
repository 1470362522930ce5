------------------------------- MODULE Rewake -------------------------------
(***************************************************************************)
(* The re-wake monitor of rewake.py: what wakes an idle session for mail.  *)
(*                                                                         *)
(* Every turn of a session ends with a Stop hook that arms one monitor, a  *)
(* process that polls the bus for unread mail until its window is over.    *)
(* Several are armed at once, of this turn and of earlier ones, and of     *)
(* several harnesses.  They share a ledger, a file with one line per       *)
(* delivery somebody has been woken for: a monitor that finds mail it has  *)
(* not seen claims it under the file's lock, and wakes the session for     *)
(* what nobody had claimed before.  A ledger that has grown too long is    *)
(* truncated, and its newest lines are written back, which the file may    *)
(* see only when it is closed: after the lock was released.                *)
(*                                                                         *)
(* A poll shows one page, the oldest unread deliveries; the retries and    *)
(* the breaker around it only make it fail or be late.                     *)
(***************************************************************************)
EXTENDS Integers, FiniteSets, Sequences, SequencesExt

CONSTANTS
  Monitor,    \* monitors that may be armed together
  MaxMail,    \* bound: deliveries that arrive
  PageLimit,  \* deliveries of one poll (25 in the code)
  TrimAt,     \* lines the ledger may have (1000)
  TrimTo,     \* lines that a cut leaves (500)
  MaxKills    \* bound: monitors that are killed

ASSUME RewakeAssumption ==
  /\ IsFiniteSet(Monitor)
  /\ MaxMail \in Nat
  /\ PageLimit \in Nat \ {0}
  /\ TrimTo \in Nat \ {0}
  /\ TrimAt \in Nat /\ TrimTo <= TrimAt
  /\ MaxKills \in Nat

VARIABLES
  arrived,  \* how many deliveries have arrived: 1, 2, ... in this order
  unread,   \* those the session has not read
  ledger,   \* the file's lines
  pc,       \* per monitor: where it is
  seen,     \* per monitor: the keys it knows, since it was armed
  fresh,    \* per monitor: the keys of its last poll it did not know
  claimed,  \* per monitor: the keys it has claimed and not announced yet
  unwritten,  \* per monitor: the lines it has cut and not written back
  kills,    \* how many monitors have been killed
  \* ghosts
  woken,    \* deliveries that the session was woken for
  forgone,  \* deliveries whose monitor was killed after it claimed them
  since     \* per delivery: keys claimed after its last claim, up to TrimTo;
            \* TrimTo also when a cut has let go of the lock with the file empty

mail == <<arrived, unread>>
monitors == <<pc, seen, fresh, claimed, unwritten>>
ghosts == <<woken, forgone, since>>
vars == <<mail, ledger, monitors, kills, ghosts>>

Mail == 1..MaxMail
Older(d) == {e \in unread : e < d}
Page == {d \in unread : Cardinality(Older(d)) < PageLimit}

Init ==
  /\ arrived = 0
  /\ unread = {}
  /\ ledger = <<>>
  /\ pc = [m \in Monitor |-> "off"]
  /\ seen = [m \in Monitor |-> {}]
  /\ fresh = [m \in Monitor |-> {}]
  /\ claimed = [m \in Monitor |-> {}]
  /\ unwritten = [m \in Monitor |-> <<>>]
  /\ kills = 0
  /\ woken = {}
  /\ forgone = {}
  /\ since = [d \in Mail |-> TrimTo]

-----------------------------------------------------------------------------
(* The mail and the session.                                               *)

Arrive ==
  /\ arrived < MaxMail
  /\ arrived' = arrived + 1
  /\ unread' = unread \union {arrived + 1}
  /\ UNCHANGED <<ledger, monitors, kills, ghosts>>

Read(d) ==
  /\ d \in unread
  /\ unread' = unread \ {d}
  /\ UNCHANGED <<arrived, ledger, monitors, kills, ghosts>>

-----------------------------------------------------------------------------
(* One monitor.                                                            *)

(* The process ends; what it knew is gone.                                 *)
Disarm(m) ==
  /\ pc' = [pc EXCEPT ![m] = "off"]
  /\ seen' = [seen EXCEPT ![m] = {}]
  /\ fresh' = [fresh EXCEPT ![m] = {}]
  /\ claimed' = [claimed EXCEPT ![m] = {}]
  /\ unwritten' = [unwritten EXCEPT ![m] = <<>>]

(* The end of a turn.  The ledger is read without its lock.                *)
Arm(m) ==
  /\ pc[m] = "off"
  /\ pc' = [pc EXCEPT ![m] = "armed"]
  /\ seen' = [seen EXCEPT ![m] = ToSet(ledger)]
  /\ UNCHANGED <<mail, ledger, fresh, claimed, unwritten, kills, ghosts>>

(* A poll that shows mail the monitor does not know.                       *)
PollWholePage(m) ==  \* a slip: mail counts only if the whole page is new
  /\ pc[m] = "armed"
  /\ Page # {} /\ Page \intersect seen[m] = {}
  /\ pc' = [pc EXCEPT ![m] = "claiming"]
  /\ fresh' = [fresh EXCEPT ![m] = Page]
  /\ UNCHANGED <<mail, ledger, seen, claimed, unwritten, kills, ghosts>>
Poll(m) ==
  /\ pc[m] = "armed"
  /\ Page \ seen[m] # {}
  /\ pc' = [pc EXCEPT ![m] = "claiming"]
  /\ fresh' = [fresh EXCEPT ![m] = Page \ seen[m]]
  /\ UNCHANGED <<mail, ledger, seen, claimed, unwritten, kills, ghosts>>

(* A poll that shows nothing new, or fails: after its retries, behind an   *)
(* open breaker, or with an error nobody classified.  Each shows nothing,  *)
(* and the next interval tries again; none ends the window.                *)
PollInVain(m) ==
  /\ pc[m] = "armed"
  /\ UNCHANGED vars

(* The window is over.                                                     *)
Expire(m) ==
  /\ pc[m] = "armed"
  /\ Disarm(m)
  /\ UNCHANGED <<mail, ledger, kills, ghosts>>

(* The lines that a cut leaves: the newest.                                *)
NewestOf(lines) == SubSeq(lines, Len(lines) - TrimTo + 1, Len(lines))

(* What a claim of these keys, in this order, does to the count of keys    *)
(* since each delivery's last claim.                                       *)
SinceAfter(keys) ==
  [d \in Mail |->
     IF \E i \in 1..Len(keys) : keys[i] = d
       THEN LET i == CHOOSE i \in 1..Len(keys) : keys[i] = d IN
              IF Len(keys) - i < TrimTo THEN Len(keys) - i ELSE TrimTo
       ELSE IF since[d] + Len(keys) < TrimTo THEN since[d] + Len(keys) ELSE TrimTo]

UnclaimedBlind(m) == fresh[m]  \* a slip: what was known when it polled
Unclaimed(m) == fresh[m] \ ToSet(ledger)

(* The ledger's lock is held over a cut, but for its last part.            *)
LockFree == \A m \in Monitor : pc[m] # "cutting"

(* Append the keys, which are sorted by their text: that says nothing of   *)
(* their age.  When the file is too long, truncate it.                     *)
Record(m, keys, lines) ==
  /\ IF Len(lines) > TrimAt
       THEN /\ ledger' = <<>>
            /\ unwritten' = [unwritten EXCEPT ![m] = NewestOf(lines)]
            /\ pc' = [pc EXCEPT ![m] = "cutting"]
       ELSE /\ ledger' = lines
            /\ pc' = [pc EXCEPT ![m] = "waking"]
            /\ UNCHANGED unwritten
  /\ since' = SinceAfter(keys)

(* The claim: under the lock, against the lines that are there now.        *)
ClaimAllOrNothing(m) ==  \* a slip: silent when some were claimed before
  /\ pc[m] = "claiming"
  /\ LockFree
  /\ Unclaimed(m) # {}
  /\ claimed' = [claimed EXCEPT ![m] = IF Unclaimed(m) = fresh[m] THEN @ \union fresh[m] ELSE {}]
  /\ seen' = [seen EXCEPT ![m] = @ \union fresh[m]]
  /\ fresh' = [fresh EXCEPT ![m] = {}]
  /\ \E keys \in SetToSeqs(Unclaimed(m)) : Record(m, keys, ledger \o keys)
  /\ UNCHANGED <<mail, kills, woken, forgone>>
Claim(m) ==
  /\ pc[m] = "claiming"
  /\ LockFree
  /\ Unclaimed(m) # {}
  /\ claimed' = [claimed EXCEPT ![m] = Unclaimed(m)]
  /\ seen' = [seen EXCEPT ![m] = @ \union fresh[m]]
  /\ fresh' = [fresh EXCEPT ![m] = {}]
  /\ \E keys \in SetToSeqs(Unclaimed(m)) : Record(m, keys, ledger \o keys)
  /\ UNCHANGED <<mail, kills, woken, forgone>>

Nothing == [d \in Mail |-> TrimTo]  \* no claim is known to be in the file

(* The lines that were cut are written back.  A write that is larger than  *)
(* the buffers of the file object reaches the file with the lock held ...  *)
WriteBack(m) ==
  /\ pc[m] = "cutting"
  /\ ledger' = ledger \o unwritten[m]
  /\ unwritten' = [unwritten EXCEPT ![m] = <<>>]
  /\ pc' = [pc EXCEPT ![m] = "waking"]
  /\ UNCHANGED <<mail, seen, fresh, claimed, kills, ghosts>>

(* ... and a smaller one when the file is closed, with the lock released.  *)
UnlockEarly(m) ==
  /\ pc[m] = "cutting"
  /\ pc' = [pc EXCEPT ![m] = "closing"]
  /\ since' = Nothing
  /\ UNCHANGED <<mail, ledger, seen, fresh, claimed, unwritten, kills, woken, forgone>>

Close(m) ==
  /\ pc[m] = "closing"
  /\ ledger' = ledger \o unwritten[m]
  /\ unwritten' = [unwritten EXCEPT ![m] = <<>>]
  /\ pc' = [pc EXCEPT ![m] = "waking"]
  /\ since' = Nothing
  /\ UNCHANGED <<mail, seen, fresh, claimed, kills, woken, forgone>>

(* Another monitor has claimed them all: poll on.                          *)
TooLate(m) ==
  /\ pc[m] = "claiming"
  /\ LockFree
  /\ Unclaimed(m) = {}
  /\ pc' = [pc EXCEPT ![m] = "armed"]
  /\ seen' = [seen EXCEPT ![m] = @ \union fresh[m]]
  /\ fresh' = [fresh EXCEPT ![m] = {}]
  /\ UNCHANGED <<mail, ledger, claimed, unwritten, kills, ghosts>>

(* The mail is printed and the hook exits with 2: the session wakes.       *)
Wake(m) ==
  /\ pc[m] = "waking"
  /\ woken' = woken \union claimed[m]
  /\ Disarm(m)
  /\ UNCHANGED <<mail, ledger, kills, forgone, since>>

(* The harness kills a hook at its own timeout, at any point; a kill in    *)
(* the middle of a cut leaves the file empty.                              *)
Kill(m) ==
  /\ pc[m] # "off"
  /\ kills < MaxKills
  /\ kills' = kills + 1
  /\ forgone' = forgone \union claimed[m]
  /\ since' = IF pc[m] = "cutting" THEN Nothing ELSE since
  /\ Disarm(m)
  /\ UNCHANGED <<mail, ledger, woken>>

-----------------------------------------------------------------------------
Cut(m) == WriteBack(m) \/ UnlockEarly(m) \/ Close(m)
Step(m) == Poll(m) \/ Claim(m) \/ TooLate(m) \/ Cut(m) \/ Wake(m)

Next ==
  \/ Arrive
  \/ \E d \in Mail : Read(d)
  \/ \E m \in Monitor : Arm(m) \/ Step(m) \/ PollInVain(m) \/ Expire(m) \/ Kill(m)

Spec == Init /\ [][Next]_vars

(* Turns end and arm monitors, again and again; an armed monitor polls     *)
(* within its window, sooner or later with success, and goes on; the lock  *)
(* it waits for is never held for long.                                    *)
Fairness ==
  \A m \in Monitor :
    /\ WF_vars(Arm(m))
    /\ SF_vars(Step(m))

FairSpec == Spec /\ Fairness

-----------------------------------------------------------------------------
TypeOK ==
  /\ arrived \in 0..MaxMail
  /\ unread \subseteq 1..arrived
  /\ ledger \in Seq(Mail)
  /\ pc \in [Monitor -> {"off", "armed", "claiming", "cutting", "closing", "waking"}]
  /\ seen \in [Monitor -> SUBSET Mail]
  /\ fresh \in [Monitor -> SUBSET Mail]
  /\ claimed \in [Monitor -> SUBSET Mail]
  /\ unwritten \in [Monitor -> Seq(Mail)]
  /\ \A m \in Monitor : Len(unwritten[m]) <= TrimTo
  /\ kills \in 0..MaxKills
  /\ woken \subseteq Mail
  /\ forgone \subseteq Mail
  /\ since \in [Mail -> 0..TrimTo]

(* One delivery wakes the session once: a key is claimed again only after  *)
(* so many others that a cut of the ledger could drop it, or when a cut    *)
(* was not completed with the lock held.                                   *)
WokenOncePerLedger ==
  [][\A m \in Monitor, d \in Mail :
       d \in claimed'[m] \ claimed[m] => since[d] = TrimTo]_vars

(* No key is lost in a claim: whatever is in the ledger has woken the      *)
(* session, is about to, or was claimed by a monitor that was killed.      *)
ClaimedIsAccountedFor ==
  \A d \in ToSet(ledger) :
    d \in woken \union forgone \/ \E m \in Monitor : d \in claimed[m]

(* Mail that a poll can see wakes the session, whichever monitor sees it   *)
(* first and whatever the others claim, unless it is read before, or the   *)
(* monitor that has claimed it is killed.                                  *)
PageMailWakes ==
  \A d \in Mail : d \in Page ~> (d \in woken \union forgone \/ d \notin unread)
=============================================================================
