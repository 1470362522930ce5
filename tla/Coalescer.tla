------------------------------ MODULE Coalescer ------------------------------
(***************************************************************************)
(* Coalescer of _coalesce.py: the gate between the watcher's drain and the *)
(* wake sink.  The first message of a burst wakes at once and opens a      *)
(* window; later ones are buffered until the window has been quiet for     *)
(* Quiet, or has been open for Window; an urgent one flushes and wakes.    *)
(*                                                                         *)
(* Three threads meet here: the drain thread in handle(), the timer        *)
(* threads in _on_timer(), and the main thread in close() at shutdown.     *)
(* The bodies run under self._lock, the sink included.  handle() reads     *)
(* _closed without the lock, before it takes it or instead of taking it:   *)
(* that read is a step of its own, and so is close()'s setting of the      *)
(* flag, for until its flush is through a new message finds the coalescer  *)
(* closed and goes to the sink past the buffered ones.  No other body      *)
(* changes anything that is read without the lock, so each of them is one  *)
(* step: what the others do meanwhile (time, a timer that expires) they    *)
(* may as well do before it.  There is one producer: the watcher's drain   *)
(* lock admits one drain at a time (Watcher!OneDrain).                     *)
(*                                                                         *)
(* A monotonic deadline is the time left until it, which stops at zero:    *)
(* `now < deadline` is "time left > 0", and max(0, deadline - now) is the  *)
(* time left.                                                              *)
(***************************************************************************)
EXTENDS Integers, Sequences

CONSTANTS
  Window,       \* window_ms, in ticks
  Quiet,        \* quiet_ms, in ticks
  MaxMessages,  \* bound: messages the drain hands over
  MaxWaiting    \* bound: expired timers queued for the lock at one time

ASSUME CoalescerAssumption ==
  /\ Window \in Nat
  /\ Quiet \in Nat
  /\ MaxMessages \in Nat
  /\ MaxWaiting \in Nat

VARIABLES
  sent,       \* messages passed to handle() so far: message n is the n-th
  call,       \* the handle() call between its closed check and the lock
  buffer,     \* self._buffer
  hardLeft,   \* time left to self._hard_deadline, or Unset
  quietLeft,  \* time left to self._quiet_deadline, or Unset
  timerLeft,  \* time left on the armed Timer, or Unset when none can fire
  waiting,    \* Timer threads that expired and now wait for the lock
  closed,     \* self._closed
  closing,    \* the main thread is in close(), between the flag and the flush
  accepted,   \* ghost: messages in the order handle() dealt with them
  sunk,       \* ghost: messages passed to the sink, envelopes flattened
  heldFor,    \* ghost: ticks the oldest buffered message waited in the window
  passed      \* ghost: messages that went to the sink while closing

window == <<hardLeft, quietLeft, timerLeft>>
shutdown == <<closed, closing>>
vars == <<sent, call, buffer, window, waiting, shutdown, accepted, sunk, heldFor,
          passed>>

Unset == -1
Idle == [msg |-> 0, urgent |-> FALSE]
Shorter(a, b) == IF a <= b THEN a ELSE b

Init ==
  /\ sent = 0
  /\ call = Idle
  /\ buffer = <<>>
  /\ hardLeft = Unset
  /\ quietLeft = Unset
  /\ timerLeft = Unset
  /\ waiting = 0
  /\ closed = FALSE
  /\ closing = FALSE
  /\ accepted = <<>>
  /\ sunk = <<>>
  /\ heldFor = 0
  /\ passed = {}

-----------------------------------------------------------------------------
(* The bodies that run under the lock.                                     *)

(* _flush_locked: empty the buffer into one envelope, forget the window,   *)
(* cancel the timer.  A timer already waiting for the lock is past cancel. *)
Flush ==
  /\ buffer' = <<>>
  /\ hardLeft' = Unset
  /\ quietLeft' = Unset
  /\ timerLeft' = Unset
  /\ heldFor' = 0

(* _arm_timer_locked: the old timer is cancelled, the new one is due at    *)
(* the nearer of the two deadlines.                                        *)
ArmCancelsOnly(hard, quiet) ==  \* a slip: return once the old timer is cancelled
  timerLeft' = IF timerLeft = Unset THEN Shorter(hard, quiet) ELSE Unset
Arm(hard, quiet) == timerLeft' = Shorter(hard, quiet)

(* handle() on an urgent message: what is buffered goes out first.         *)
HandleUrgent ==
  /\ call.urgent
  /\ sunk' = Append(sunk \o buffer, call.msg)
  /\ Flush

(* handle() with no window open: wake now, open the window.                *)
HandleLeading ==
  /\ ~call.urgent
  /\ hardLeft = Unset
  /\ hardLeft' = Window
  /\ quietLeft' = Quiet
  /\ sunk' = Append(sunk, call.msg)
  /\ Arm(Window, Quiet)
  /\ UNCHANGED <<buffer, heldFor>>

(* handle() inside a window: buffer it and push the quiet deadline back,   *)
(* never past the hard one.                                                *)
HandleTrailingExtending ==  \* a slip: the hard deadline moves too
  /\ ~call.urgent
  /\ hardLeft # Unset
  /\ buffer' = Append(buffer, call.msg)
  /\ quietLeft' = Quiet
  /\ hardLeft' = Window
  /\ Arm(Window, Quiet)
  /\ UNCHANGED <<sunk, heldFor>>
HandleTrailing ==
  /\ ~call.urgent
  /\ hardLeft # Unset
  /\ buffer' = Append(buffer, call.msg)
  /\ quietLeft' = Shorter(Quiet, hardLeft)
  /\ Arm(hardLeft, Shorter(Quiet, hardLeft))
  /\ UNCHANGED <<hardLeft, sunk, heldFor>>

-----------------------------------------------------------------------------
(* The drain thread.                                                       *)

(* handle() finds the coalescer closed: straight to the sink, without the  *)
(* lock, ahead of what close() may still have to flush.                    *)
HandleAfterClose ==
  /\ call = Idle
  /\ sent < MaxMessages
  /\ closed
  /\ sent' = sent + 1
  /\ accepted' = Append(accepted, sent + 1)
  /\ sunk' = Append(sunk, sent + 1)
  /\ passed' = IF closing THEN passed \cup {sent + 1} ELSE passed
  /\ UNCHANGED <<call, buffer, window, waiting, shutdown, heldFor>>

(* handle() passes the closed check and goes for the lock.                 *)
HandleEnter(urgent) ==
  /\ call = Idle
  /\ sent < MaxMessages
  /\ ~closed
  /\ sent' = sent + 1
  /\ call' = [msg |-> sent + 1, urgent |-> urgent]
  /\ UNCHANGED <<buffer, window, waiting, shutdown, accepted, sunk, heldFor, passed>>

(* handle() holds the lock.                                                *)
HandleLocked ==
  /\ call # Idle
  /\ ~closing
  /\ HandleUrgent \/ HandleLeading \/ HandleTrailing
  /\ accepted' = Append(accepted, call.msg)
  /\ call' = Idle
  /\ UNCHANGED <<sent, waiting, shutdown, passed>>

-----------------------------------------------------------------------------
(* The main thread: close() at the end of cmd_watch.                       *)

Close ==
  /\ ~closed
  /\ closed' = TRUE
  /\ closing' = TRUE
  /\ UNCHANGED <<sent, call, buffer, window, waiting, accepted, sunk, heldFor, passed>>

(* The rest of close(), under the same lock: the buffer goes to the sink.  *)
CloseFlushDropping ==  \* a slip: the window is forgotten, the buffer not announced
  /\ closing
  /\ Flush
  /\ closing' = FALSE
  /\ UNCHANGED <<sent, call, waiting, closed, accepted, sunk, passed>>
CloseFlush ==
  /\ closing
  /\ sunk' = sunk \o buffer
  /\ Flush
  /\ closing' = FALSE
  /\ UNCHANGED <<sent, call, waiting, closed, accepted, passed>>

-----------------------------------------------------------------------------
(* The timer threads.                                                      *)

TimerFires ==
  /\ timerLeft = 0
  /\ waiting < MaxWaiting
  /\ timerLeft' = Unset
  /\ waiting' = waiting + 1
  /\ UNCHANGED <<sent, call, buffer, hardLeft, quietLeft, shutdown, accepted,
                 sunk, heldFor, passed>>

(* _on_timer after a flush or a close: nothing left to do.                 *)
OnTimerStale ==
  /\ waiting > 0 /\ ~closing
  /\ closed \/ hardLeft = Unset
  /\ waiting' = waiting - 1
  /\ UNCHANGED <<sent, call, buffer, window, shutdown, accepted, sunk, heldFor,
                 passed>>

(* _on_timer while a later arrival has pushed the deadline back: re-arm.   *)
OnTimerRearm ==
  /\ waiting > 0 /\ ~closing
  /\ ~closed /\ hardLeft > 0 /\ quietLeft > 0
  /\ waiting' = waiting - 1
  /\ Arm(hardLeft, quietLeft)
  /\ UNCHANGED <<sent, call, buffer, hardLeft, quietLeft, shutdown, accepted,
                 sunk, heldFor, passed>>

(* _on_timer once a deadline has passed: flush.                            *)
OnTimerFlush ==
  /\ waiting > 0 /\ ~closing
  /\ ~closed /\ hardLeft # Unset
  /\ hardLeft = 0 \/ quietLeft = 0
  /\ waiting' = waiting - 1
  /\ sunk' = sunk \o buffer
  /\ Flush
  /\ UNCHANGED <<sent, call, shutdown, accepted, passed>>

OnTimer == OnTimerStale \/ OnTimerRearm \/ OnTimerFlush

(* Time passes; a thread may be slow, so nothing hurries it.               *)
Later(left) == IF left > 0 THEN left - 1 ELSE left
Tick ==
  /\ hardLeft > 0 \/ quietLeft > 0 \/ timerLeft > 0
  /\ hardLeft' = Later(hardLeft)
  /\ quietLeft' = Later(quietLeft)
  /\ timerLeft' = Later(timerLeft)
  /\ heldFor' = IF buffer # <<>> /\ hardLeft > 0 THEN heldFor + 1 ELSE heldFor
  /\ UNCHANGED <<sent, call, buffer, waiting, shutdown, accepted, sunk, passed>>

Next ==
  \/ HandleAfterClose
  \/ \E urgent \in BOOLEAN : HandleEnter(urgent)
  \/ HandleLocked
  \/ Close
  \/ CloseFlush
  \/ TimerFires
  \/ OnTimer
  \/ Tick

(* Every thread gets to run and time goes on; no message ever has to come, *)
(* and the watcher never has to shut down, but a close() gets through.     *)
Fairness ==
  /\ WF_vars(HandleLocked)
  /\ WF_vars(CloseFlush)
  /\ WF_vars(TimerFires)
  /\ WF_vars(OnTimer)
  /\ WF_vars(Tick)

Spec == Init /\ [][Next]_vars /\ Fairness

-----------------------------------------------------------------------------
TypeOK ==
  /\ sent \in Nat
  /\ call \in [msg : Nat, urgent : BOOLEAN]
  /\ buffer \in Seq(Nat)
  /\ hardLeft \in Unset..Window
  /\ quietLeft \in Unset..Quiet
  /\ timerLeft \in Unset..Window
  /\ waiting \in Nat
  /\ closed \in BOOLEAN
  /\ closing \in BOOLEAN
  /\ accepted \in Seq(Nat)
  /\ sunk \in Seq(Nat)
  /\ heldFor \in Nat
  /\ passed \subseteq Nat

(* What the sink was handed, and then what it still has to be.             *)
Announced == sunk \o buffer

(* The timer threads, close() and the drain thread together neither lose   *)
(* nor repeat a message handle() dealt with: each is with the sink or still*)
(* buffered, once.  Nor do they reorder any, but for one that came while   *)
(* close() had its flush to finish: it goes ahead of earlier messages.     *)
FifoExactlyOnce ==
  /\ Len(Announced) = Len(accepted)
  /\ \A m \in 1..Len(accepted) : \E i \in DOMAIN Announced : Announced[i] = m
  /\ \A i, j \in DOMAIN Announced : i < j =>
       Announced[i] < Announced[j] \/ Announced[i] \in passed

(* What the class says of itself ("a single threading.Lock serialises      *)
(* everything, including the sink call itself") would give the plain order.*)
(* It is broken in the gap between close()'s flag and its flush.           *)
OrderKept == Announced = accepted

(* A handle() call that read `_closed` before close() ran may still be on  *)
(* its way to the lock; it must not leave a message in a buffer that no    *)
(* timer will flush any more.                                              *)
ClosedHoldsNothing == closed /\ ~closing => buffer = <<>>

(* While a message is buffered some timer will flush it: one is armed for  *)
(* no later than the hard deadline, or one is already waiting for the lock.*)
TailHasAlarm ==
  buffer # <<>> => waiting > 0 \/ timerLeft \in 0..hardLeft

(* Arrivals inside the window can push the quiet deadline back but not the *)
(* hard one: time waited and time still to wait never exceed Window.       *)
HoldIsBounded ==
  buffer # <<>> /\ hardLeft > 0 => heldFor + hardLeft <= Window

(* The coalescer implements the abstract queue, its promise of release     *)
(* included.                                                               *)
Queue == INSTANCE WakeQueue WITH
  Message <- 1..MaxMessages, held <- buffer, woken <- sunk, shut <- closed
ImplementsWakeQueue == Queue!Spec
==============================================================================
