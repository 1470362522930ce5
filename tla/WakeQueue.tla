------------------------------ MODULE WakeQueue ------------------------------
(***************************************************************************)
(* What burst coalescing promises, without its timers and locks: messages  *)
(* accepted in order are woken for in that order, each exactly once.  A    *)
(* message may be held back, and whatever is held is released in the end.  *)
(* Once the queue has been shut nothing more is held: a message that still *)
(* comes is woken for at once, even ahead of what was held when it shut.   *)
(***************************************************************************)
EXTENDS Naturals, Sequences

CONSTANT Message

VARIABLES
  accepted,  \* every message taken, in the order it was taken
  held,      \* the messages whose wake is being held back
  woken,     \* the messages handed to the wake sink, in order
  shut       \* no message will be held any more

queueVars == <<accepted, held, woken, shut>>

Init ==
  /\ accepted = <<>>
  /\ held = <<>>
  /\ woken = <<>>
  /\ shut = FALSE

(* A wake at once: whatever was held goes first, so arrival order is kept. *)
WakeNow(m) ==
  /\ accepted' = Append(accepted, m)
  /\ woken' = Append(woken \o held, m)
  /\ held' = <<>>
  /\ UNCHANGED shut

Hold(m) ==
  /\ ~shut
  /\ accepted' = Append(accepted, m)
  /\ held' = Append(held, m)
  /\ UNCHANGED <<woken, shut>>

(* After the queue was shut: past what it still holds.                     *)
Pass(m) ==
  /\ shut
  /\ accepted' = Append(accepted, m)
  /\ woken' = Append(woken, m)
  /\ UNCHANGED <<held, shut>>

Shut ==
  /\ ~shut
  /\ shut' = TRUE
  /\ UNCHANGED <<accepted, held, woken>>

Release ==
  /\ held # <<>>
  /\ woken' = woken \o held
  /\ held' = <<>>
  /\ UNCHANGED <<accepted, shut>>

Next ==
  \/ \E m \in Message : WakeNow(m) \/ Hold(m) \/ Pass(m)
  \/ Release
  \/ Shut

Safety == Init /\ [][Next]_queueVars
Spec == Safety /\ WF_queueVars(Release)

(* Exactly once and, as long as the queue is open, in arrival order: the   *)
(* sink has been handed a prefix of what was accepted, the rest is held.   *)
Conservation ==
  /\ Len(woken) + Len(held) = Len(accepted)
  /\ ~shut => woken \o held = accepted
==============================================================================
