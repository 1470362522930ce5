------------------------------- MODULE Watcher -------------------------------
(***************************************************************************)
(* Watcher of watch.py, with the mixins of _watch_drain.py and             *)
(* _watch_state.py: the process on the agent's machine that holds the      *)
(* server's event stream open, fetches new mail from its cursor, hands     *)
(* each message to on_message and checkpoints the cursor to a state file.  *)
(*                                                                         *)
(* The main thread runs start-up, the stream and the reconnect handler; a  *)
(* background thread runs the drains the stream asks for.  Both execute    *)
(* _drain(), so `drain` keeps one activation record per thread, and a      *)
(* drain step is one statement that touches shared state: the fetch, the   *)
(* cursor assignment, the on_message call, the checkpoint.  The process    *)
(* may be killed between any two steps and started again.                  *)
(*                                                                         *)
(* The server (external) numbers an agent's deliveries 1, 2, ... and a     *)
(* page is the next PageSize of them after the cursor.                     *)
(***************************************************************************)
EXTENDS Integers, FiniteSets

CONSTANTS
  MaxSeq,       \* bound: deliveries that ever arrive
  PageSize,     \* deliveries in a page of the inbox (100 in the code)
  MaxFailures,  \* bound: top of the backoff ladder, where the delay stops growing
  MaxCrashes,   \* bound: times the process is killed and started again
  StalePages    \* whether the server may answer with a page behind the cursor

ASSUME WatcherAssumption ==
  /\ MaxSeq \in Nat
  /\ PageSize \in Nat \ {0}
  /\ MaxFailures \in Nat \ {0}
  /\ MaxCrashes \in Nat
  /\ StalePages \in BOOLEAN

VARIABLES
  \* the world
  arrived,      \* the newest delivery in the agent's inbox
  refused,      \* REST refuses the credential (401, 403 or 410) for good
  socketDead,   \* the session this watcher is to wake has gone
  \* the process
  main,         \* where the main thread is
  exit,         \* the exception the main thread is leaving with, or "none"
  lock,         \* self._drain_lock: the thread that holds it, or "free"
  drain,        \* per thread, its activation of _drain()
  cursor,       \* self.cursor
  failures,     \* self._failures
  lastFailure,  \* self._last_failure_at: never, within the TTL, or older
  proven,       \* the stream has been open for STREAM_HEALTHY_SECONDS
  due,          \* STREAM_RECONCILE_SECONDS have passed since the last drain
  \* the state file
  disk,
  \* ghosts
  latest,       \* the newest delivery this process handed to on_message
  repeated,     \* it handed over one of a page of new mail again, or out of order
  handed,       \* deliveries handed to on_message by any process
  lost,         \* deliveries a killed process had checkpointed past unhanded
  crashes

world == <<arrived, refused, socketDead>>
memory == <<cursor, failures, lastFailure>>
history == <<latest, repeated, handed, lost, crashes>>
vars == <<world, main, exit, lock, drain, memory, proven, due, disk, history>>

Thread == {"main", "worker"}
MainState == {"starting", "startup", "connecting", "streaming", "failed",
              "locking", "recovering", "sleeping", "stopped", "killed"}
Phase == {"idle", "check", "fetch", "take", "hand", "save"}
Age == {"never", "recent", "old"}

NoDrain == [phase |-> "idle", next |-> 0, last |-> 0, before |-> 0]
Larger(a, b) == IF a >= b THEN a ELSE b
Smaller(a, b) == IF a <= b THEN a ELSE b

Init ==
  /\ arrived \in 0..MaxSeq
  /\ refused = FALSE
  /\ socketDead = FALSE
  /\ main = "starting"
  /\ exit = "none"
  /\ lock = "free"
  /\ drain = [t \in Thread |-> NoDrain]
  /\ cursor = 0
  /\ failures = 0
  /\ lastFailure = "never"
  /\ proven = FALSE
  /\ due = FALSE
  /\ disk = [cursor |-> 0, failures |-> 0, lastFailure |-> "never"]
  /\ latest = 0
  /\ repeated = FALSE
  /\ handed = {}
  /\ lost = {}
  /\ crashes = 0

-----------------------------------------------------------------------------
(* Shared pieces.                                                          *)

(* _save_cursor: the whole state, read and replaced under _state_lock.     *)
Checkpoint(f, age) ==
  disk' = [cursor |-> cursor, failures |-> f, lastFailure |-> age]

(* Take the drain lock and start _drain() on thread t.                     *)
StartDrain(t) ==
  /\ lock' = t
  /\ drain' = [drain EXCEPT ![t] = [NoDrain EXCEPT !.phase = "check"]]

(* _drain() is over on thread t: its caller releases the lock.             *)
EndDrain(t) ==
  /\ lock' = "free"
  /\ drain' = [drain EXCEPT ![t] = NoDrain]

(* Where the main thread goes when its drain returns or is swallowed.      *)
AfterDrain == IF main = "startup" THEN "connecting" ELSE "sleeping"

(* _backoff_and_drain begins: the failure counts, in memory.               *)
Fail ==
  /\ failures' = Smaller(failures + 1, MaxFailures)
  /\ lastFailure' = "recent"
  /\ main' = "failed"
  /\ UNCHANGED exit

Stop(reason) ==
  /\ main' = "stopped"
  /\ exit' = reason
  /\ UNCHANGED <<failures, lastFailure>>

-----------------------------------------------------------------------------
(* _drain(), on either thread.                                             *)

(* A drain ends without an exception that matters: the worker and the      *)
(* reconnect handler swallow every other one, start-up defers it.          *)
Finish(t) ==
  /\ EndDrain(t)
  /\ main' = IF t = "main" THEN AfterDrain ELSE main
  /\ UNCHANGED exit

(* DeadWakeSocket: the worker swallows it; start-up stops; the reconnect   *)
(* handler sleeps in its `finally` before the exception leaves run().      *)
DeadSocket(t) ==
  /\ EndDrain(t)
  /\ IF t = "worker" THEN UNCHANGED <<main, exit>>
     ELSE /\ main' = IF main = "startup" THEN "stopped" ELSE "sleeping"
          /\ exit' = "dead_socket"

DrainCheck(t) ==
  /\ drain[t].phase = "check"
  /\ \/ /\ socketDead
        /\ DeadSocket(t)
        /\ UNCHANGED due
     \/ /\ ~socketDead
        /\ drain' = [drain EXCEPT ![t].phase = "fetch"]
        /\ due' = FALSE
        /\ UNCHANGED <<main, exit, lock>>
  /\ UNCHANGED <<world, memory, proven, disk, history>>

(* inbox(cursor) answers with the next page.                               *)
FetchPage(t) ==
  /\ drain[t].phase = "fetch"
  /\ ~refused
  /\ cursor < arrived
  /\ drain' = [drain EXCEPT ![t] =
       [phase |-> "take", next |-> cursor + 1,
        last |-> Smaller(cursor + PageSize, arrived), before |-> cursor]]
  /\ UNCHANGED <<world, main, exit, lock, memory, proven, due, disk, history>>

(* A server seq anomaly: a page of what was delivered before.              *)
FetchStale(t) ==
  /\ StalePages
  /\ drain[t].phase = "fetch"
  /\ ~refused
  /\ cursor > 0
  /\ drain' = [drain EXCEPT ![t] =
       [phase |-> "take", next |-> cursor, last |-> cursor,
        before |-> cursor]]
  /\ UNCHANGED <<world, main, exit, lock, memory, proven, due, disk, history>>

(* An empty page, or a call that failed in transit.                        *)
FetchNothing(t) ==
  /\ drain[t].phase = "fetch"
  /\ Finish(t)
  /\ UNCHANGED <<world, memory, proven, due, disk, history>>

(* The bus refuses the credential at start-up: a 401 is final, a 403 or    *)
(* 410 once whoami confirms it (when whoami cannot tell, FetchNothing).    *)
FetchRefused ==
  /\ drain["main"].phase = "fetch"
  /\ main = "startup"
  /\ refused
  /\ EndDrain("main")
  /\ Stop("auth")
  /\ UNCHANGED <<world, cursor, proven, due, disk, history>>

(* The cursor moves before the handler is called.                          *)
TakePage(t) ==  \* a slip: the cursor moves for the whole page at once
  /\ drain[t].phase = "take"
  /\ cursor' = drain[t].last
  /\ drain' = [drain EXCEPT ![t].phase = "hand"]
  /\ UNCHANGED <<world, main, exit, lock, failures, lastFailure, proven, due,
                 disk, history>>
TakeNothing(t) ==  \* a slip: the cursor stays
  /\ drain[t].phase = "take"
  /\ drain' = [drain EXCEPT ![t].phase = "hand"]
  /\ UNCHANGED <<world, main, exit, lock, memory, proven, due, disk, history>>
Take(t) ==
  /\ drain[t].phase = "take"
  /\ cursor' = Larger(cursor, drain[t].next)
  /\ drain' = [drain EXCEPT ![t].phase = "hand"]
  /\ UNCHANGED <<world, main, exit, lock, failures, lastFailure, proven, due,
                 disk, history>>

(* on_message returns or raises: either way the wake has been attempted.   *)
Hand(t) ==
  LET d == drain[t] IN
  /\ d.phase = "hand"
  /\ latest' = Larger(latest, d.next)
  /\ repeated' = (repeated \/ (d.before < d.next /\ d.next <= latest))
  /\ handed' = handed \union {d.next}
  /\ drain' = [drain EXCEPT ![t] =
       [phase |-> IF d.next < d.last THEN "take" ELSE "save",
        next |-> d.next + 1, last |-> d.last, before |-> d.before]]
  /\ UNCHANGED <<world, main, exit, lock, memory, proven, due, disk, lost,
                 crashes>>

(* The batch is checkpointed; a page that did not move the cursor ends the *)
(* drain (the progress guard).                                             *)
SaveUnguarded(t) ==  \* a slip: no progress guard
  /\ drain[t].phase = "save"
  /\ Checkpoint(failures, lastFailure)
  /\ drain' = [drain EXCEPT ![t].phase = "fetch"]
  /\ UNCHANGED <<world, main, exit, lock, memory, proven, due, history>>
Save(t) ==
  /\ drain[t].phase = "save"
  /\ Checkpoint(failures, lastFailure)
  /\ \/ /\ cursor <= drain[t].before
        /\ Finish(t)
     \/ /\ cursor > drain[t].before
        /\ drain' = [drain EXCEPT ![t].phase = "fetch"]
        /\ UNCHANGED <<main, exit, lock>>
  /\ UNCHANGED <<world, memory, proven, due, history>>

DrainStep(t) ==
  \/ DrainCheck(t) \/ FetchPage(t) \/ FetchStale(t) \/ FetchNothing(t)
  \/ Take(t) \/ Save(t)

-----------------------------------------------------------------------------
(* The main thread: run() and _stream_once().                              *)

(* run(): the wake target is checked, the state file is stamped, and the   *)
(* start-up drain begins.                                                  *)
Start ==
  /\ main = "starting"
  /\ \/ /\ socketDead
        /\ Stop("dead_socket")
        /\ UNCHANGED <<lock, drain, disk>>
     \/ /\ ~socketDead
        /\ Checkpoint(failures, lastFailure)
        /\ lock = "free"
        /\ StartDrain("main")
        /\ main' = "startup"
        /\ UNCHANGED <<exit, failures, lastFailure>>
  /\ UNCHANGED <<world, cursor, proven, due, history>>

(* The stream opens, with the cursor as Last-Event-ID.                     *)
Connect ==
  /\ main = "connecting"
  /\ ~refused
  /\ main' = "streaming"
  /\ proven' = FALSE
  /\ UNCHANGED <<world, exit, lock, drain, memory, due, disk, history>>

(* The stream is refused, by its status or by an `unauthorized` frame, and *)
(* whoami confirms it.                                                     *)
Unauthorized ==
  /\ main = "connecting" \/ (main = "streaming" /\ ~socketDead)
  /\ refused
  /\ Stop("auth")
  /\ UNCHANGED <<world, lock, drain, cursor, proven, due, disk, history>>

(* The connection fails, or drops by a timeout, an error or a clean end,   *)
(* or the server says `unauthorized` and whoami does not confirm it.       *)
Drop ==
  /\ main \in {"connecting", "streaming"}
  /\ Fail
  /\ UNCHANGED <<world, lock, drain, cursor, proven, due, disk, history>>

(* What every frame does first: the ladder is reset once the stream has    *)
(* proved healthy, and the reset is checkpointed.                          *)
ResetLadder ==
  IF proven /\ (failures > 0 \/ lastFailure # "never")
  THEN /\ failures' = 0
       /\ lastFailure' = "never"
       /\ Checkpoint(0, "never")
  ELSE UNCHANGED <<failures, lastFailure, disk>>

(* _drain_async: nothing if a drain holds the lock; otherwise a background *)
(* drain, unless the thread cannot be started and the lock is given back.  *)
DrainAsync ==
  \/ lock = "free" /\ StartDrain("worker")
  \/ UNCHANGED <<lock, drain>>

(* A frame while the wake target is alive.  A data or id frame drains, a   *)
(* keepalive drains when a reconcile is due.                               *)
Frame ==
  /\ main = "streaming"
  /\ ~socketDead
  /\ ResetLadder
  /\ UNCHANGED <<world, main, exit, cursor, proven, due, history>>

DataFrame == Frame /\ DrainAsync
KeepaliveWithoutReconcile == Frame /\ UNCHANGED <<lock, drain>>  \* a slip
Keepalive == Frame /\ IF due THEN DrainAsync ELSE UNCHANGED <<lock, drain>>

(* Any frame, keepalives included, once the wake target is dead.           *)
FrameIgnoresDeadSocket ==  \* a slip: the stream is healthy, so go on
  main = "streaming" /\ socketDead /\ UNCHANGED vars
FrameFindsDeadSocket ==
  /\ main = "streaming"
  /\ socketDead
  /\ Stop("dead_socket")
  /\ UNCHANGED <<world, lock, drain, cursor, proven, due, disk, history>>

-----------------------------------------------------------------------------
(* The main thread: _backoff_and_drain().                                  *)

(* The new step of the ladder reaches the disk before anything can wait.   *)
PersistFailure ==
  /\ main = "failed"
  /\ Checkpoint(failures, lastFailure)
  /\ main' = "locking"
  /\ UNCHANGED <<world, exit, lock, drain, memory, proven, due, history>>

(* acquire(timeout=10): the lock is free, or the wait times out.           *)
RecoverUnlocked ==  \* a slip: the reconnect handler drains without the lock
  /\ main = "locking"
  /\ StartDrain("main")
  /\ main' = "recovering"
  /\ UNCHANGED <<world, exit, memory, proven, due, disk, history>>
Recover ==
  /\ main = "locking"
  /\ \/ /\ lock = "free"
        /\ StartDrain("main")
        /\ main' = "recovering"
     \/ /\ lock # "free"
        /\ main' = "sleeping"
        /\ UNCHANGED <<lock, drain>>
  /\ UNCHANGED <<world, exit, memory, proven, due, disk, history>>

(* SIGTERM: the handler of cmd_watch raises WatchTerminated wherever the   *)
(* main thread is.  A drain of its own ends there, without a checkpoint;   *)
(* the reconnect handler lets it pass, but sleeps in its `finally` first.  *)
Terminate ==
  /\ main \notin {"stopped", "killed"}
  /\ exit' = "terminated"
  /\ main' = IF main = "recovering" THEN "sleeping" ELSE "stopped"
  /\ IF lock = "main" THEN EndDrain("main") ELSE UNCHANGED <<lock, drain>>
  /\ UNCHANGED <<world, memory, proven, due, disk, history>>

(* The sleep in `finally` ends: reconnect, or let the exception out.       *)
Wake ==
  /\ main = "sleeping"
  /\ main' = IF exit = "none" THEN "connecting" ELSE "stopped"
  /\ UNCHANGED <<world, exit, lock, drain, memory, proven, due, disk, history>>

-----------------------------------------------------------------------------
(* The process ends, at any moment or once run() has: nothing checkpoints, *)
(* and the daemon worker dies where it is.                                 *)
Skipped == {n \in 1..disk.cursor : n \notin handed}
Kill ==
  /\ main # "killed"
  /\ crashes < MaxCrashes
  /\ crashes' = crashes + 1
  /\ main' = "killed"
  /\ exit' = "none"
  /\ lock' = "free"
  /\ drain' = [t \in Thread |-> NoDrain]
  /\ lost' = lost \union Skipped
  /\ UNCHANGED <<world, memory, proven, due, disk, latest, repeated, handed>>

(* __init__: the state file is read back, the ladder only within its TTL.  *)
RestartFresh ==  \* a slip: a restart forgets the outage
  /\ main = "killed"
  /\ main' = "starting"
  /\ cursor' = disk.cursor
  /\ failures' = 0
  /\ lastFailure' = "never"
  /\ proven' = FALSE
  /\ due' = FALSE
  /\ latest' = 0
  /\ repeated' = FALSE
  /\ UNCHANGED <<world, exit, lock, drain, disk, handed, lost, crashes>>
RestartAtZero ==  \* a slip: the cursor is not read back
  /\ main = "killed"
  /\ main' = "starting"
  /\ cursor' = 0
  /\ proven' = FALSE
  /\ due' = FALSE
  /\ latest' = 0
  /\ repeated' = FALSE
  /\ UNCHANGED <<world, exit, lock, drain, failures, lastFailure, disk, handed,
                 lost, crashes>>
Restart ==
  /\ main = "killed"
  /\ main' = "starting"
  /\ cursor' = disk.cursor
  /\ failures' = IF disk.lastFailure = "recent" THEN disk.failures ELSE 0
  /\ lastFailure' = disk.lastFailure
  /\ proven' = FALSE
  /\ due' = FALSE
  /\ latest' = 0
  /\ repeated' = FALSE
  /\ UNCHANGED <<world, exit, lock, drain, disk, handed, lost, crashes>>

-----------------------------------------------------------------------------
(* The world and its clocks.                                               *)
process == <<main, exit, lock, drain, cursor, failures>>

Arrive ==
  /\ arrived < MaxSeq
  /\ arrived' = arrived + 1
  /\ UNCHANGED <<refused, socketDead, process, lastFailure, proven, due, disk,
                 history>>

Refuse ==
  /\ ~refused
  /\ refused' = TRUE
  /\ UNCHANGED <<arrived, socketDead, process, lastFailure, proven, due, disk,
                 history>>

SocketDies ==
  /\ ~socketDead
  /\ socketDead' = TRUE
  /\ UNCHANGED <<arrived, refused, process, lastFailure, proven, due, disk,
                 history>>

StreamProves ==
  /\ main = "streaming"
  /\ ~proven
  /\ proven' = TRUE
  /\ UNCHANGED <<world, process, lastFailure, due, disk, history>>

ReconcileDue ==
  /\ ~due
  /\ due' = TRUE
  /\ UNCHANGED <<world, process, lastFailure, proven, disk, history>>

(* _FAILURES_TTL_SECONDS pass since the last failure.                      *)
FailureAges ==
  LET Aged(age) == IF age = "recent" THEN "old" ELSE age IN
  /\ "recent" \in {lastFailure, disk.lastFailure}
  /\ lastFailure' = Aged(lastFailure)
  /\ disk' = [disk EXCEPT !.lastFailure = Aged(@)]
  /\ UNCHANGED <<world, process, proven, due, history>>

-----------------------------------------------------------------------------
MainStep ==
  \/ Start \/ Connect \/ Unauthorized \/ Drop
  \/ DataFrame \/ Keepalive \/ FrameFindsDeadSocket
  \/ PersistFailure \/ Recover \/ FetchRefused \/ Wake

WorldStep ==
  Arrive \/ Refuse \/ SocketDies \/ StreamProves \/ ReconcileDue \/ FailureAges

Next ==
  \/ \E t \in Thread : DrainStep(t) \/ Hand(t)
  \/ MainStep
  \/ Terminate
  \/ Kill
  \/ Restart
  \/ WorldStep

Spec == Init /\ [][Next]_vars

-----------------------------------------------------------------------------
TypeOK ==
  /\ arrived \in Nat
  /\ refused \in BOOLEAN
  /\ socketDead \in BOOLEAN
  /\ main \in MainState
  /\ exit \in {"none", "auth", "dead_socket", "terminated"}
  /\ lock \in Thread \union {"free"}
  /\ drain \in [Thread -> [phase : Phase, next : Nat, last : Nat, before : Nat]]
  /\ cursor \in Nat
  /\ failures \in 0..MaxFailures
  /\ lastFailure \in Age
  /\ proven \in BOOLEAN
  /\ due \in BOOLEAN
  /\ disk \in [cursor : Nat, failures : 0..MaxFailures, lastFailure : Age]
  /\ latest \in Nat
  /\ repeated \in BOOLEAN
  /\ handed \in SUBSET Nat
  /\ lost \in SUBSET Nat
  /\ crashes \in 0..MaxCrashes

(* At most one drain runs, and the drain lock is never left behind: who    *)
(* drains holds it, and who holds it is draining.  A stranded lock would   *)
(* leave a watcher that is alive and deaf.                                 *)
OneDrain ==
  \A t \in Thread : drain[t].phase # "idle" <=> lock = t

(* One process hands over each delivery the server sends as new at most    *)
(* once, and in order, though two threads drain and share the cursor.      *)
HandedOnceInOrder == ~repeated

(* The end of a process costs at most the one delivery it was handing over *)
(* at that moment; everything else the state file skips has been handed    *)
(* over, by this process or an earlier one.                                *)
LossIsBounded == Cardinality(lost) <= crashes

(* "Resumes from the cursor it last saw so nothing is missed" (watch.py):  *)
(* the state file never skips a delivery that no process handed over.      *)
NothingMissed == lost = {}

(* The checkpoint is written by two threads and read back by the next      *)
(* process; it never moves backwards, which would replay old mail.         *)
CheckpointAdvances == [][disk'.cursor >= disk.cursor]_vars

(* Whenever the reconnect handler can wait (for the lock, in its drain, in *)
(* its sleep) the state file holds the failure count it waits with, so a   *)
(* supervisor that restarts the watcher meanwhile does not reset it.       *)
BackoffOnDisk ==
  main \in {"locking", "recovering", "sleeping"} =>
    disk.failures = failures /\ disk.lastFailure = lastFailure

(* A restart while the last failure is within its TTL loses at most the    *)
(* failure that was being recorded when the process ended.                 *)
RestartKeepsLadder ==
  [][main = "killed" /\ main' = "starting" /\ disk.lastFailure = "recent"
       => failures' + 1 >= failures]_vars

(* The watcher never exits on a transient error, whatever the stream says: *)
(* it stops for a credential REST refuses, a wake target that is gone, or  *)
(* because it was told to.                                                 *)
NeverGivesUp == main = "stopped" => refused \/ socketDead \/ exit = "terminated"
==============================================================================
