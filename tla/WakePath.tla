------------------------------ MODULE WakePath ------------------------------
(***************************************************************************)
(* cmd_watch: the watcher, the coalescer and the shell command that starts *)
(* a turn, composed, with what happens to a wake when the process ends.    *)
(*                                                                         *)
(* Watcher says which deliveries reach on_message, and Coalescer how a     *)
(* burst is held back in time; here on_message is the coalescer's handle() *)
(* with its windows left open to choice, and the sink is a command that    *)
(* runs for a while under the coalescer's lock.  A delivery is checked off *)
(* in the state file when on_message returns, which for a buffered one is  *)
(* long before its wake: what ends the process in between matters.         *)
(***************************************************************************)
EXTENDS Watcher

CONSTANT HardKills  \* whether the process may be ended without a SIGTERM

ASSUME WakePathAssumption == HardKills \in BOOLEAN

Actor == Thread \union {"timer"}

VARIABLES
  gate,         \* Coalescer._lock: the actor that holds it, or "free"
  held,         \* Coalescer._buffer: deliveries whose wake is held back
  waking,       \* per actor, the deliveries its running command announces
  urgent,       \* an urgent delivery waits for the flush it goes behind
  closed,       \* Coalescer._closed
  \* ghosts
  begun,        \* deliveries whose wake this process has begun
  twice,        \* a process began the wake of one delivery twice
  woken,        \* deliveries whose wake command has run to its end
  interrupted,  \* deliveries whose wake command a SIGTERM cut short
  killed        \* deliveries whose wake ended with a process that was killed

trace == <<begun, twice, woken, interrupted, killed>>
wake == <<gate, held, waking, urgent, closed, trace>>
pathVars == <<vars, wake>>

NoCommand == [a \in Actor |-> {}]
Announced == UNION {waking[a] : a \in Actor}

PathInit ==
  /\ Init
  /\ gate = "free"
  /\ held = {}
  /\ waking = NoCommand
  /\ urgent = FALSE
  /\ closed = FALSE
  /\ begun = {}
  /\ twice = FALSE
  /\ woken = {}
  /\ interrupted = {}
  /\ killed = {}

-----------------------------------------------------------------------------
(* The sink: fanout() to --exec and --append.  A handler that fails or     *)
(* times out is reported and the wake counts as attempted.                 *)
Begin(a, deliveries) ==
  /\ waking' = [waking EXCEPT ![a] = deliveries]
  /\ begun' = begun \union deliveries
  /\ twice' = (twice \/ deliveries \intersect begun # {})
  /\ UNCHANGED <<woken, interrupted, killed>>

(* Actor a's command is over, and it leaves the lock if it holds it.       *)
End(a) ==
  /\ waking' = [waking EXCEPT ![a] = {}]
  /\ gate' = IF gate = a THEN "free" ELSE gate
  /\ woken' = woken \union waking[a]
  /\ UNCHANGED <<begun, twice, interrupted, killed>>

(* _flush_locked by actor a: the buffer is emptied, then announced.        *)
Flush(a) ==
  /\ gate = "free"
  /\ gate' = a
  /\ held' = {}
  /\ Begin(a, held)

-----------------------------------------------------------------------------
(* handle(), on a thread whose drain is in on_message.                     *)

(* Inside a window: buffer it, and on_message returns.                     *)
Buffer(t) ==
  /\ ~closed
  /\ gate = "free"
  /\ Hand(t)
  /\ held' = held \union {drain[t].next}
  /\ UNCHANGED <<gate, waking, urgent, closed, trace>>

(* No window is open, or the message is urgent and nothing is buffered.    *)
WakeNow(t) ==
  /\ drain[t].phase = "hand"
  /\ ~closed
  /\ gate = "free"
  /\ held = {}
  /\ gate' = t
  /\ Begin(t, {drain[t].next})
  /\ UNCHANGED <<vars, held, urgent, closed>>

(* Urgent: what is buffered goes first, in a command of its own.           *)
FlushFirst(t) ==
  /\ drain[t].phase = "hand"
  /\ ~closed
  /\ held # {}
  /\ Flush(t)
  /\ urgent' = TRUE
  /\ UNCHANGED <<vars, closed>>

UrgentNext(t) ==
  /\ drain[t].phase = "hand"
  /\ urgent
  /\ urgent' = FALSE
  /\ waking' = [waking EXCEPT ![t] = {drain[t].next}]
  /\ begun' = begun \union {drain[t].next}
  /\ twice' = (twice \/ drain[t].next \in begun)
  /\ woken' = woken \union waking[t]
  /\ UNCHANGED <<vars, gate, held, closed, interrupted, killed>>

(* The coalescer is closed: straight to the sink, without its lock.        *)
WakeLate(t) ==
  /\ drain[t].phase = "hand"
  /\ closed
  /\ waking[t] = {}
  /\ Begin(t, {drain[t].next})
  /\ UNCHANGED <<vars, gate, held, urgent, closed>>

Return(t) ==
  /\ Hand(t)
  /\ waking[t] # {} /\ ~urgent
  /\ End(t)
  /\ UNCHANGED <<held, urgent, closed>>

Handle(t) ==
  \/ Buffer(t) \/ WakeNow(t) \/ FlushFirst(t) \/ UrgentNext(t)
  \/ WakeLate(t) \/ Return(t)

(* A deadline of the window passes.                                        *)
TimerKeepsBuffer ==  \* a slip: the envelope is sent, the buffer kept
  /\ ~closed
  /\ held # {}
  /\ gate = "free"
  /\ gate' = "timer"
  /\ Begin("timer", held)
  /\ UNCHANGED <<vars, held, urgent, closed>>
TimerNeverArmed == FALSE /\ UNCHANGED pathVars  \* a slip
TimerFlush ==
  /\ ~closed
  /\ held # {}
  /\ Flush("timer")
  /\ UNCHANGED <<vars, urgent, closed>>

TimerReturn ==
  /\ gate = "timer"
  /\ End("timer")
  /\ UNCHANGED <<vars, held, urgent, closed>>

-----------------------------------------------------------------------------
(* cmd_watch's `finally`, on every exit path of run().                     *)
CloseUnflushed ==  \* a slip: the buffer is not flushed
  /\ main = "stopped"
  /\ ~closed
  /\ gate = "free"
  /\ closed' = TRUE
  /\ UNCHANGED <<vars, gate, held, waking, urgent, trace>>
Close ==
  /\ main = "stopped"
  /\ ~closed
  /\ closed' = TRUE
  /\ Flush("main")
  /\ UNCHANGED <<vars, urgent>>

CloseReturn ==
  /\ closed
  /\ gate = "main"
  /\ End("main")
  /\ UNCHANGED <<vars, held, urgent, closed>>

(* SIGTERM raises in whatever the main thread is doing.  A command it was  *)
(* waiting for is killed, and the locks it held are released.              *)
TermStrandsGate ==  \* a slip: the coalescer's lock is not released
  /\ Terminate
  /\ interrupted' = interrupted \union waking["main"]
  /\ waking' = [waking EXCEPT !["main"] = {}]
  /\ urgent' = FALSE
  /\ UNCHANGED <<gate, held, closed, begun, twice, woken, killed>>
Term ==
  /\ Terminate
  /\ interrupted' = interrupted \union waking["main"]
  /\ waking' = [waking EXCEPT !["main"] = {}]
  /\ gate' = IF gate = "main" THEN "free" ELSE gate
  /\ urgent' = (urgent /\ gate # "main")
  /\ UNCHANGED <<held, closed, begun, twice, woken, killed>>

(* The process ends.  A command it has started may or may not run on.      *)
EndProcess(gone) ==
  /\ Kill
  /\ gate' = "free"
  /\ held' = {}
  /\ waking' = NoCommand
  /\ urgent' = FALSE
  /\ closed' = FALSE
  /\ begun' = {}
  /\ \/ woken' = woken \union Announced /\ killed' = killed \union gone
     \/ woken' = woken /\ killed' = killed \union gone \union Announced
  /\ UNCHANGED <<twice, interrupted>>

(* cmd_watch returns; the worker, a daemon thread, ends with the process.  *)
Exit ==
  /\ main = "stopped"
  /\ closed
  /\ gate # "main"
  /\ EndProcess({})

HardKill ==
  /\ HardKills
  /\ EndProcess(held)

-----------------------------------------------------------------------------
PathNext ==
  \/ \E t \in Thread : DrainStep(t) /\ UNCHANGED wake
  \/ \E t \in Thread : Handle(t)
  \/ MainStep /\ UNCHANGED wake
  \/ WorldStep /\ UNCHANGED wake
  \/ Restart /\ UNCHANGED wake
  \/ TimerFlush \/ TimerReturn
  \/ Close \/ CloseReturn
  \/ Term \/ Exit \/ HardKill

(* The threads run, a command ends (it has a timeout) and so does a wait   *)
(* for a lock, the keepalives come, time passes, the supervisor restarts a *)
(* watcher that died, an inbox call tried again and again succeeds once.   *)
(* The timer gets the lock in the end, though on_message keeps taking it.  *)
MainRuns ==
  \/ Start \/ Connect \/ (main = "connecting" /\ Drop)
  \/ Keepalive \/ FrameFindsDeadSocket
  \/ PersistFailure \/ Recover \/ Wake

PathFairness ==
  /\ WF_pathVars(\E t \in Thread :
       (DrainCheck(t) \/ Take(t) \/ Save(t)) /\ UNCHANGED wake)
  /\ WF_pathVars(\E t \in Thread :
       (FetchPage(t) \/ FetchNothing(t)) /\ UNCHANGED wake)
  /\ SF_pathVars(\E t \in Thread : FetchPage(t) /\ UNCHANGED wake)
  /\ WF_pathVars(\E t \in Thread : Handle(t))
  /\ WF_pathVars(MainRuns /\ UNCHANGED wake)
  /\ WF_pathVars(ReconcileDue /\ UNCHANGED wake)
  /\ WF_pathVars(Restart /\ UNCHANGED wake)
  /\ SF_pathVars(TimerFlush)
  /\ WF_pathVars(Close)
  /\ WF_pathVars(TimerReturn \/ CloseReturn)

PathSpec == PathInit /\ [][PathNext]_pathVars /\ PathFairness

-----------------------------------------------------------------------------
PathTypeOK ==
  /\ TypeOK
  /\ gate \in Actor \union {"free"}
  /\ held \in SUBSET Nat
  /\ waking \in [Actor -> SUBSET Nat]
  /\ urgent \in BOOLEAN
  /\ closed \in BOOLEAN
  /\ twice \in BOOLEAN
  /\ {begun, woken, interrupted, killed} \subseteq SUBSET Nat

(* What was handed over is never forgotten by a process that lives or ends *)
(* in its own time: it has been announced, is being announced, or is held, *)
(* unless a SIGTERM cut its command short or the process was killed.       *)
HandedIsAccountedFor ==
  handed \subseteq woken \union held \union Announced \union interrupted
                     \union killed

(* A process announces a delivery once, whichever of its threads does it.  *)
WokenOnce == ~StalePages => ~twice

(* "A graceful shutdown never eats a wake" (cmd_watch): a wake a SIGTERM   *)
(* cuts short is one the next process will be handed again.                *)
GracefulStopEatsNothing ==
  \A n \in interrupted : n <= disk.cursor => n \in woken

(* Every delivery starts a turn in the end, or the watcher has reason to   *)
(* stop, or the process was ended at the wrong moment.                     *)
EveryDeliveryWakes ==
  \A n \in 1..MaxSeq :
    arrived >= n ~>
      \/ n \in woken \union lost \union interrupted \union killed
      \/ refused \/ socketDead \/ exit = "terminated"

(* A watcher whose session is gone stops, instead of consuming mail into a *)
(* dead socket, also when it is a background drain that notices.           *)
DeadSocketStops == socketDead ~> main = "stopped"

(* No drain runs for ever, whatever pages the server answers with.         *)
DrainEnds == lock # "free" ~> lock = "free"

(* A SIGTERM reaches the end of cmd_watch, its flush done: close() waits   *)
(* for a lock that a running command holds, and that wait ends.            *)
StopCompletes ==
  exit = "terminated" ~> main = "killed" \/ (closed /\ gate # "main")
==============================================================================
