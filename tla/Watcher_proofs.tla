--------------------------- MODULE Watcher_proofs ---------------------------
(***************************************************************************)
(* Theorems about Watcher and WakePath, for any number of deliveries, page *)
(* size, ladder and number of restarts.                                    *)
(***************************************************************************)
EXTENDS WakePath, FiniteSetTheorems, TLAPS

LEMMA Bounds ==
  ASSUME NEW a \in Nat, NEW b \in Nat
  PROVE  /\ Larger(a, b) \in Nat /\ Larger(a, b) >= a /\ Larger(a, b) >= b
         /\ Larger(a, b) \in {a, b}
         /\ Smaller(a, b) \in Nat /\ Smaller(a, b) <= a /\ Smaller(a, b) <= b
         /\ Smaller(a, b) \in {a, b}
BY DEF Larger, Smaller

(* Type correctness: in particular the backoff ladder is never climbed     *)
(* past its last step, in memory or on disk.                               *)
THEOREM TypeCorrect == Spec => []TypeOK
<1> USE WatcherAssumption DEF WatcherAssumption
<1>1. Init => TypeOK
  <2> SUFFICES ASSUME Init
               PROVE  TypeOK
    OBVIOUS
  <2>1. arrived \in Nat /\ 0 \in 0..MaxFailures /\ crashes \in 0..MaxCrashes
    BY DEF Init
  <2>2. drain \in [Thread -> [phase : Phase, next : Nat, last : Nat,
                             before : Nat]]
    BY DEF Init, NoDrain, Phase
  <2>3. disk \in [cursor : Nat, failures : 0..MaxFailures, lastFailure : Age]
    BY <2>1 DEF Init, Age
  <2>4. QED
    BY <2>1, <2>2, <2>3 DEF Init, TypeOK, MainState, Age
<1>2. TypeOK /\ [Next]_vars => TypeOK'
  <2> SUFFICES ASSUME TypeOK, [Next]_vars
               PROVE  TypeOK'
    OBVIOUS
  <2>1. ASSUME NEW t \in Thread, DrainCheck(t)
        PROVE  TypeOK'
    <3>1. CASE socketDead
      BY <2>1, <3>1 DEF TypeOK, DrainCheck, DeadSocket, EndDrain, NoDrain,
                        MainState, Phase, world, memory, history
    <3>2. CASE ~socketDead
      <4>1. drain' = [drain EXCEPT ![t].phase = "fetch"]
        BY <2>1, <3>2 DEF DrainCheck
      <4>2. drain' \in [Thread -> [phase : Phase, next : Nat, last : Nat,
                                  before : Nat]]
        BY <4>1 DEF TypeOK, Phase
      <4>3. QED
        BY <2>1, <3>2, <4>2 DEF TypeOK, DrainCheck, world, memory, history
    <3>3. QED
      BY <3>1, <3>2
  <2>2. ASSUME NEW t \in Thread, FetchPage(t)
        PROVE  TypeOK'
    BY <2>2 DEF TypeOK, FetchPage, Smaller, Phase, world, memory, history
  <2>3. ASSUME NEW t \in Thread, FetchStale(t)
        PROVE  TypeOK'
    BY <2>3 DEF TypeOK, FetchStale, Phase, world, memory, history
  <2>4. ASSUME NEW t \in Thread, FetchNothing(t)
        PROVE  TypeOK'
    BY <2>4 DEF TypeOK, FetchNothing, Finish, EndDrain, AfterDrain, NoDrain,
                MainState, Phase, world, memory, history
  <2>5. ASSUME NEW t \in Thread, Take(t)
        PROVE  TypeOK'
    BY <2>5 DEF TypeOK, Take, Larger, Phase, world, history
  <2>6. ASSUME NEW t \in Thread, Hand(t)
        PROVE  TypeOK'
    <3>1. drain[t].next \in Nat /\ drain[t].last \in Nat
      BY DEF TypeOK
    <3>2. drain' \in [Thread -> [phase : Phase, next : Nat, last : Nat,
                                before : Nat]]
      <4>1. /\ drain[t].before \in Nat /\ drain[t].next + 1 \in Nat
            /\ (IF drain[t].next < drain[t].last THEN "take" ELSE "save")
                 \in Phase
        BY <3>1 DEF TypeOK, Phase
      <4>2. QED
        BY <2>6, <3>1, <4>1 DEF TypeOK, Hand
    <3>3. /\ latest' \in Nat /\ handed' \in SUBSET Nat
          /\ repeated' \in BOOLEAN
      BY <2>6, <3>1, Bounds DEF TypeOK, Hand
    <3>4. QED
      BY <2>6, <3>2, <3>3 DEF TypeOK, Hand, world, memory
  <2>7. ASSUME NEW t \in Thread, Save(t)
        PROVE  TypeOK'
    BY <2>7 DEF TypeOK, Save, Checkpoint, Finish, EndDrain, AfterDrain,
                NoDrain, MainState, Phase, world, memory, history
  <2>8. CASE Start
    BY <2>8 DEF TypeOK, Start, Stop, StartDrain, Checkpoint, NoDrain, Thread,
                MainState, Phase, world, memory, history
  <2>9. CASE Connect \/ Unauthorized \/ Drop
    <3>1. CASE Connect
      BY <3>1 DEF TypeOK, Connect, MainState, world, memory, history
    <3>2. CASE Unauthorized
      BY <3>2 DEF TypeOK, Unauthorized, Stop, MainState, world, history
    <3>3. CASE Drop
      BY <3>3 DEF TypeOK, Drop, Fail, Smaller, MainState, Age, world, history
    <3>4. QED
      BY <2>9, <3>1, <3>2, <3>3
  <2>10. CASE DataFrame \/ Keepalive
    BY <2>10 DEF TypeOK, DataFrame, Keepalive, Frame, ResetLadder, DrainAsync,
                 StartDrain, Checkpoint, NoDrain, Thread, Phase, Age, world,
                 memory, history
  <2>11. CASE FrameFindsDeadSocket \/ PersistFailure \/ Wake
    <3>1. CASE FrameFindsDeadSocket
      BY <3>1 DEF TypeOK, FrameFindsDeadSocket, Stop, MainState, world, history
    <3>2. CASE PersistFailure
      BY <3>2 DEF TypeOK, PersistFailure, Checkpoint, MainState, world, memory,
                  history
    <3>3. CASE Wake
      BY <3>3 DEF TypeOK, Wake, MainState, world, memory, history
    <3>4. QED
      BY <2>11, <3>1, <3>2, <3>3
  <2>12. CASE Recover
    BY <2>12 DEF TypeOK, Recover, StartDrain, NoDrain, Thread, MainState,
                 Phase, world, memory, history
  <2>13. CASE FetchRefused
    BY <2>13 DEF TypeOK, FetchRefused, EndDrain, Stop, NoDrain, Thread,
                 MainState, Phase, world, history
  <2>14. CASE Terminate
    BY <2>14 DEF TypeOK, Terminate, EndDrain, NoDrain, Thread, MainState,
                 Phase, world, memory, history
  <2>15. CASE Kill
    <3>1. lost' \in SUBSET Nat
      <4>1. 1..disk.cursor \subseteq Nat
        BY DEF TypeOK
      <4>2. QED
        BY <2>15, <4>1 DEF TypeOK, Kill, Skipped
    <3>2. drain' \in [Thread -> [phase : Phase, next : Nat, last : Nat,
                                before : Nat]]
      BY <2>15 DEF Kill, NoDrain, Phase
    <3>3. crashes' \in 0..MaxCrashes
      BY <2>15 DEF TypeOK, Kill
    <3>4. QED
      BY <2>15, <3>1, <3>2, <3>3 DEF TypeOK, Kill, MainState, world, memory
  <2>16. CASE Restart
    <3>1. /\ disk.cursor \in Nat /\ disk.failures \in 0..MaxFailures
          /\ disk.lastFailure \in Age /\ 0 \in 0..MaxFailures
      BY DEF TypeOK
    <3>2. QED
      BY <2>16, <3>1 DEF TypeOK, Restart, MainState, world
  <2>17. CASE WorldStep
    <3>1. CASE Arrive \/ Refuse \/ SocketDies
      <4>1. CASE Arrive
        BY <4>1 DEF TypeOK, Arrive, process, history
      <4>2. CASE Refuse \/ SocketDies
        BY <4>2 DEF TypeOK, Refuse, SocketDies, process, history
      <4>3. QED
        BY <3>1, <4>1, <4>2
    <3>2. CASE StreamProves \/ ReconcileDue
      BY <3>2 DEF TypeOK, StreamProves, ReconcileDue, process, world, history
    <3>3. CASE FailureAges
      BY <3>3 DEF TypeOK, FailureAges, Age, process, world, history
    <3>4. QED
      BY <2>17, <3>1, <3>2, <3>3 DEF WorldStep
  <2>18. CASE UNCHANGED vars
    BY <2>18 DEF TypeOK, vars, world, memory, history
  <2>19. QED
    BY <2>1, <2>2, <2>3, <2>4, <2>5, <2>6, <2>7, <2>8, <2>9, <2>10, <2>11,
       <2>12, <2>13, <2>14, <2>15, <2>16, <2>17, <2>18
       DEF Next, DrainStep, MainStep
<1>3. QED
  BY <1>1, <1>2, PTL DEF Spec

-----------------------------------------------------------------------------
(* The drain lock.                                                         *)

LEMMA DrainLockInit == Init => OneDrain
BY DEF Init, OneDrain, NoDrain, Thread

LEMMA DrainLockStep == TypeOK /\ OneDrain /\ [Next]_vars => OneDrain'
<1> SUFFICES ASSUME TypeOK, OneDrain, [Next]_vars
             PROVE  OneDrain'
  OBVIOUS
<1> USE DEF OneDrain
<1>0. drain \in [Thread -> [phase : Phase, next : Nat, last : Nat,
                            before : Nat]]
  BY DEF TypeOK
<1>1. ASSUME NEW t \in Thread, DrainCheck(t)
      PROVE  OneDrain'
  <2>1. CASE socketDead
    BY <1>0, <1>1, <2>1 DEF DrainCheck, DeadSocket, EndDrain, NoDrain, Thread
  <2>2. CASE ~socketDead
    BY <1>0, <1>1, <2>2 DEF DrainCheck
  <2>3. QED
    BY <2>1, <2>2
<1>2. ASSUME NEW t \in Thread, FetchPage(t) \/ FetchStale(t) \/ Take(t)
      PROVE  OneDrain'
  BY <1>0, <1>2 DEF FetchPage, FetchStale, Take
<1>3. ASSUME NEW t \in Thread, FetchNothing(t)
      PROVE  OneDrain'
  BY <1>0, <1>3 DEF FetchNothing, Finish, EndDrain, NoDrain, Thread
<1>4. ASSUME NEW t \in Thread, Hand(t)
      PROVE  OneDrain'
  BY <1>0, <1>4 DEF Hand
<1>5. ASSUME NEW t \in Thread, Save(t)
      PROVE  OneDrain'
  BY <1>0, <1>5 DEF Save, Finish, EndDrain, NoDrain, Thread
<1>6. CASE Start \/ Recover
  BY <1>0, <1>6 DEF Start, Recover, StartDrain, NoDrain, Thread
<1>7. CASE DataFrame \/ Keepalive
  BY <1>0, <1>7 DEF DataFrame, Keepalive, DrainAsync, StartDrain, NoDrain,
                    Thread
<1>8. CASE FetchRefused
  BY <1>0, <1>8 DEF FetchRefused, EndDrain, NoDrain, Thread
<1>9. CASE Terminate
  BY <1>0, <1>9 DEF Terminate, EndDrain, NoDrain, Thread
<1>10. CASE Kill
  BY <1>10 DEF Kill, NoDrain, Thread
<1>11. CASE UNCHANGED <<lock, drain>>
  BY <1>11
<1>12. QED
  BY <1>1, <1>2, <1>3, <1>4, <1>5, <1>6, <1>7, <1>8, <1>9, <1>10, <1>11
     DEF Next, DrainStep, MainStep, Connect, Unauthorized, Drop,
         FrameFindsDeadSocket, PersistFailure, Wake, Restart, WorldStep,
         Arrive, Refuse, SocketDies, StreamProves, ReconcileDue, FailureAges,
         process, vars

(* One drain at a time, on whichever thread, and the lock is always given  *)
(* back: by the worker, by a worker that could not start, by start-up, by  *)
(* a reconnect handler that got it, and by a SIGTERM in the middle of one. *)
THEOREM ExclusionCorrect == Spec => []OneDrain
<1>1. Spec => []TypeOK
  BY TypeCorrect
<1>2. QED
  BY <1>1, DrainLockInit, DrainLockStep, PTL DEF Spec

-----------------------------------------------------------------------------
(* Where the main thread is, and why it leaves.                            *)

MainDrains == lock = "main" => main \in {"startup", "recovering"}

Causes ==
  /\ exit = "auth" => refused
  /\ exit = "dead_socket" => socketDead
  /\ main = "stopped" => exit # "none"

LEMMA MainThreadStep ==
  TypeOK /\ OneDrain /\ MainDrains /\ Causes /\ [Next]_vars
    => MainDrains' /\ Causes'
<1> SUFFICES ASSUME TypeOK, OneDrain, MainDrains, Causes, [Next]_vars
             PROVE  MainDrains' /\ Causes'
  OBVIOUS
<1> USE DEF MainDrains, Causes
<1>0. \A t \in Thread : drain[t].phase # "idle" => lock = t
  BY DEF OneDrain
<1>1. ASSUME NEW t \in Thread, DrainCheck(t)
      PROVE  MainDrains' /\ Causes'
  BY <1>0, <1>1 DEF DrainCheck, DeadSocket, EndDrain, Thread, world
<1>2. ASSUME NEW t \in Thread,
             FetchPage(t) \/ FetchStale(t) \/ Take(t) \/ Hand(t)
      PROVE  MainDrains' /\ Causes'
  BY <1>2 DEF FetchPage, FetchStale, Take, Hand, world
<1>3. ASSUME NEW t \in Thread, FetchNothing(t) \/ Save(t)
      PROVE  MainDrains' /\ Causes'
  BY <1>0, <1>3 DEF FetchNothing, Save, Finish, EndDrain, AfterDrain, Thread,
                    world
<1>4. CASE Start
  BY <1>4 DEF Start, Stop, StartDrain, world
<1>5. CASE Connect \/ Unauthorized \/ Drop
  BY <1>5 DEF Connect, Unauthorized, Drop, Stop, Fail, world
<1>6. CASE DataFrame \/ Keepalive
  BY <1>6 DEF DataFrame, Keepalive, Frame, DrainAsync, StartDrain, world
<1>7. CASE FrameFindsDeadSocket \/ PersistFailure \/ Wake
  BY <1>7 DEF FrameFindsDeadSocket, PersistFailure, Wake, Stop, world
<1>8. CASE Recover
  BY <1>8 DEF Recover, StartDrain, world
<1>9. CASE FetchRefused
  BY <1>9 DEF FetchRefused, EndDrain, Stop, world
<1>10. CASE Terminate
  BY <1>10 DEF Terminate, EndDrain, world
<1>11. CASE Kill \/ Restart
  BY <1>11 DEF Kill, Restart, world
<1>12. CASE WorldStep
  BY <1>12 DEF WorldStep, Arrive, Refuse, SocketDies, StreamProves,
               ReconcileDue, FailureAges, process, world
<1>13. CASE UNCHANGED vars
  BY <1>13 DEF vars, world
<1>14. QED
  BY <1>1, <1>2, <1>3, <1>4, <1>5, <1>6, <1>7, <1>8, <1>9, <1>10, <1>11,
     <1>12, <1>13
     DEF Next, DrainStep, MainStep

LEMMA MainThread == Spec => [](MainDrains /\ Causes)
<1>1. Init => MainDrains /\ Causes
  BY DEF Init, MainDrains, Causes
<1>2. QED
  BY <1>1, TypeCorrect, ExclusionCorrect, MainThreadStep, PTL DEF Spec

(* The watcher never exits on a transient error, however many threads saw  *)
(* one, and whatever the stream said.                                      *)
THEOREM PersistenceCorrect == Spec => []NeverGivesUp
<1>1. TypeOK /\ Causes => NeverGivesUp
  BY DEF TypeOK, Causes, NeverGivesUp
<1>2. QED
  BY <1>1, TypeCorrect, MainThread, PTL

-----------------------------------------------------------------------------
(* The state file and the backoff ladder.                                  *)

(* The state file never runs ahead of the cursor, and it lags behind the   *)
(* ladder only by the failure that is being recorded.                      *)
DiskBehind == disk.cursor <= cursor

LadderBehind ==
  failures <= disk.failures
              + (IF main \in {"failed", "stopped", "killed"} THEN 1 ELSE 0)

DiskInv == BackoffOnDisk /\ DiskBehind /\ LadderBehind


LEMMA DiskStep ==
  TypeOK /\ OneDrain /\ MainDrains /\ DiskInv /\ [Next]_vars => DiskInv'
<1> SUFFICES ASSUME TypeOK, OneDrain, MainDrains, DiskInv, [Next]_vars
             PROVE  DiskInv'
  OBVIOUS
<1> USE WatcherAssumption
    DEF WatcherAssumption, DiskInv, BackoffOnDisk, DiskBehind, LadderBehind
<1>0. /\ cursor \in Nat /\ failures \in Nat /\ disk.cursor \in Nat
      /\ disk.failures \in Nat
      /\ \A t \in Thread : drain[t].next \in Nat
      /\ \A t \in Thread : drain[t].phase # "idle" => lock = t
  BY DEF TypeOK, OneDrain
<1>1. ASSUME NEW t \in Thread, DrainCheck(t)
      PROVE  DiskInv'
  <2>1. /\ UNCHANGED <<cursor, failures, lastFailure, disk>>
        /\ \/ main' = main
           \/ main = "startup" /\ main' = "stopped"
           \/ main = "recovering" /\ main' = "sleeping"
    BY <1>0, <1>1 DEF MainDrains, DrainCheck, DeadSocket, Thread, memory
  <2>2. QED
    BY <1>0, <2>1
<1>2. ASSUME NEW t \in Thread, FetchPage(t) \/ FetchStale(t) \/ Hand(t)
      PROVE  DiskInv'
  BY <1>2 DEF FetchPage, FetchStale, Hand, memory
<1>3. ASSUME NEW t \in Thread, FetchNothing(t)
      PROVE  DiskInv'
  <2>1. /\ UNCHANGED <<cursor, failures, lastFailure, disk>>
        /\ \/ main' = main
           \/ main = "startup" /\ main' = "connecting"
           \/ main = "recovering" /\ main' = "sleeping"
    BY <1>0, <1>3 DEF MainDrains, FetchNothing, Finish, AfterDrain, memory
  <2>2. QED
    BY <1>0, <2>1
<1>4. ASSUME NEW t \in Thread, Take(t)
      PROVE  DiskInv'
  <2>1. cursor' \in Nat /\ cursor' >= cursor
    BY <1>0, <1>4, Bounds DEF Take
  <2>2. QED
    BY <1>0, <1>4, <2>1 DEF Take
<1>5. ASSUME NEW t \in Thread, Save(t)
      PROVE  DiskInv'
  BY <1>0, <1>5 DEF Save, Checkpoint, memory
<1>6. CASE Start
  BY <1>0, <1>6 DEF Start, Stop, Checkpoint, memory
<1>7. CASE Connect \/ Unauthorized
  BY <1>0, <1>7 DEF Connect, Unauthorized, Stop, memory
<1>8. CASE Drop
  BY <1>0, <1>8 DEF Drop, Fail, Smaller
<1>9. CASE DataFrame \/ Keepalive
  BY <1>0, <1>9 DEF DataFrame, Keepalive, Frame, ResetLadder, Checkpoint
<1>10. CASE FrameFindsDeadSocket \/ FetchRefused
  BY <1>0, <1>10 DEF FrameFindsDeadSocket, FetchRefused, Stop
<1>11. CASE PersistFailure
  BY <1>0, <1>11 DEF PersistFailure, Checkpoint, memory
<1>12. CASE Recover \/ Wake
  BY <1>0, <1>12 DEF Recover, Wake, memory
<1>13. CASE Terminate
  BY <1>0, <1>13 DEF Terminate, memory
<1>14. CASE Kill \/ Restart
  BY <1>0, <1>14 DEF Kill, Restart, memory
<1>15. CASE FailureAges
  <2>1. /\ disk'.cursor = disk.cursor /\ disk'.failures = disk.failures
        /\ lastFailure = disk.lastFailure => lastFailure' = disk'.lastFailure
    BY <1>15 DEF FailureAges, TypeOK
  <2>2. QED
    BY <1>0, <1>15, <2>1 DEF FailureAges, process
<1>16. CASE Arrive \/ Refuse \/ SocketDies \/ StreamProves \/ ReconcileDue
  BY <1>16 DEF Arrive, Refuse, SocketDies, StreamProves, ReconcileDue, process
<1>17. CASE UNCHANGED vars
  BY <1>17 DEF vars, memory
<1>18. QED
  BY <1>1, <1>2, <1>3, <1>4, <1>5, <1>6, <1>7, <1>8, <1>9, <1>10, <1>11,
     <1>12, <1>13, <1>14, <1>15, <1>16, <1>17
     DEF Next, DrainStep, MainStep, WorldStep

LEMMA DiskAlways == Spec => []DiskInv
<1>1. Init => DiskInv
  BY DEF Init, DiskInv, BackoffOnDisk, DiskBehind, LadderBehind
<1>2. QED
  BY <1>1, TypeCorrect, ExclusionCorrect, MainThread, DiskStep, PTL DEF Spec

(* Whenever the reconnect handler can wait, a restart would find on disk   *)
(* the failures it waits with: also while the worker checkpoints a batch.  *)
THEOREM BackoffPersisted == Spec => []BackoffOnDisk
<1>1. DiskInv => BackoffOnDisk
  BY DEF DiskInv
<1>2. QED
  BY <1>1, DiskAlways, PTL

(* A restart within the TTL of the last failure resumes the ladder, at     *)
(* most one rung below the one the ended process had reached.              *)
THEOREM LadderSurvives == Spec => RestartKeepsLadder
<1>1. TypeOK /\ DiskInv /\ [Next]_vars =>
        [main = "killed" /\ main' = "starting" /\ disk.lastFailure = "recent"
           => failures' + 1 >= failures]_vars
  <2> SUFFICES ASSUME TypeOK, DiskInv, Next, main = "killed",
                      main' = "starting", disk.lastFailure = "recent"
               PROVE  failures' + 1 >= failures
    OBVIOUS
  <2>1. failures \in Nat /\ disk.failures \in Nat
    BY WatcherAssumption DEF WatcherAssumption, TypeOK
  <2>2. CASE Restart
    BY <2>1, <2>2 DEF Restart, DiskInv, LadderBehind
  <2>3. CASE failures' = failures
    BY <2>1, <2>3
  <2>4. QED
    BY <2>2, <2>3
       DEF Next, DrainStep, DrainCheck, FetchPage, FetchStale, FetchNothing,
           Take, Hand, Save, MainStep, Start, Connect, Unauthorized, Drop,
           DataFrame, Keepalive, Frame, FrameFindsDeadSocket, PersistFailure,
           Recover, FetchRefused, Wake, Terminate, Kill, WorldStep, Arrive,
           Refuse, SocketDies, StreamProves, ReconcileDue, FailureAges, Fail,
           Stop, process, memory, vars
<1>2. QED
  BY <1>1, TypeCorrect, DiskAlways, PTL DEF Spec, RestartKeepsLadder

(* Neither thread, nor a restart, ever moves the checkpoint backwards.     *)
THEOREM CheckpointNeverRegresses == Spec => CheckpointAdvances
<1>1. TypeOK /\ DiskInv /\ [Next]_vars => [disk'.cursor >= disk.cursor]_vars
  <2> SUFFICES ASSUME TypeOK, DiskInv, Next
               PROVE  disk'.cursor >= disk.cursor
    OBVIOUS
  <2>1. cursor \in Nat /\ disk.cursor \in Nat /\ disk.cursor <= cursor
    BY DEF TypeOK, DiskInv, DiskBehind
  <2>2. CASE disk' = disk
    BY <2>1, <2>2
  <2>3. CASE disk'.cursor = cursor
    BY <2>1, <2>3
  <2>4. CASE FailureAges
    BY <2>1, <2>4 DEF FailureAges, TypeOK
  <2>5. disk' = disk \/ disk'.cursor = cursor \/ FailureAges
    BY DEF Next, DrainStep, DrainCheck, FetchPage, FetchStale, FetchNothing,
           Take, Hand, Save, MainStep, Start, Connect, Unauthorized, Drop,
           DataFrame, Keepalive, Frame, ResetLadder, FrameFindsDeadSocket,
           PersistFailure, Recover, FetchRefused, Wake, Terminate, Kill,
           Restart, WorldStep, Arrive, Refuse, SocketDies, StreamProves,
           ReconcileDue, Checkpoint
  <2>6. QED
    BY <2>2, <2>3, <2>4, <2>5
<1>2. QED
  BY <1>1, TypeCorrect, DiskAlways, PTL DEF Spec, CheckpointAdvances

-----------------------------------------------------------------------------
(* The order in which deliveries are handed over.                          *)

(* Once the process leaves, nobody but a worker that was draining remains, *)
(* and a killed process holds nothing.                                     *)
Leaving ==
  /\ exit # "none" => main \in {"sleeping", "stopped"}
  /\ main = "killed" => lock = "free"

(* A drain is about to take the delivery that follows the cursor, or holds *)
(* the delivery at the cursor and nobody has handed it over.  A stale page *)
(* has one message, at or behind the cursor.                               *)
InStep(t) ==
  LET d == drain[t] IN
  /\ d.phase = "take" /\ d.before < d.next => d.next = cursor + 1
  /\ d.phase = "hand" /\ d.before < d.next => d.next = cursor /\ latest < d.next
  /\ d.phase \in {"take", "hand"} /\ d.next <= d.before =>
       d.next <= cursor /\ d.last <= d.next

Order == latest <= cursor /\ ~repeated /\ \A t \in Thread : InStep(t)


LEMMA LeavingStep == OneDrain /\ Leaving /\ [Next]_vars => Leaving'
<1> SUFFICES ASSUME OneDrain, Leaving, [Next]_vars
             PROVE  Leaving'
  OBVIOUS
<1> USE DEF Leaving
<1>0. \A t \in Thread : drain[t].phase # "idle" => lock = t
  BY DEF OneDrain
<1>1. ASSUME NEW t \in Thread, DrainStep(t) \/ Hand(t)
      PROVE  Leaving'
  BY <1>0, <1>1 DEF DrainStep, DrainCheck, DeadSocket, FetchPage, FetchStale,
       FetchNothing, Take, Hand, Save, Finish, EndDrain, AfterDrain
<1>2. CASE Start \/ Connect \/ Unauthorized \/ Drop
  BY <1>2 DEF Start, Connect, Unauthorized, Drop, Stop, Fail
<1>3. CASE DataFrame \/ Keepalive \/ FrameFindsDeadSocket
  BY <1>3 DEF DataFrame, Keepalive, Frame, FrameFindsDeadSocket, Stop
<1>4. CASE PersistFailure \/ Recover \/ FetchRefused \/ Wake
  BY <1>4 DEF PersistFailure, Recover, FetchRefused, Stop, Wake
<1>5. CASE Terminate \/ Kill \/ Restart
  BY <1>5 DEF Terminate, Kill, Restart
<1>6. CASE WorldStep
  BY <1>6 DEF WorldStep, Arrive, Refuse, SocketDies, StreamProves,
              ReconcileDue, FailureAges, process
<1>7. CASE UNCHANGED vars
  BY <1>7 DEF vars
<1>8. QED
  BY <1>1, <1>2, <1>3, <1>4, <1>5, <1>6, <1>7 DEF Next, MainStep

LEMMA OrderStep ==
  TypeOK /\ OneDrain /\ Leaving /\ Order /\ [Next]_vars => Order'
<1> SUFFICES ASSUME TypeOK, OneDrain, Leaving, Order, [Next]_vars
             PROVE  Order'
  OBVIOUS
<1> USE DEF Order, InStep
<1>0. /\ drain \in [Thread -> [phase : Phase, next : Nat, last : Nat,
                               before : Nat]]
      /\ cursor \in Nat /\ latest \in Nat
  BY DEF TypeOK
<1>a. \A t, u \in Thread : drain[t].phase # "idle" /\ u # t
                              => drain[u].phase = "idle"
  BY DEF OneDrain, Thread
(* A step that leaves what a drain is doing alone. *)
<1>b. ASSUME UNCHANGED <<cursor, latest, repeated>>,
             \A t \in Thread : \/ drain'[t] = drain[t]
                               \/ drain'[t].phase \notin {"take", "hand"}
      PROVE  Order'
  BY <1>b
<1>1. ASSUME NEW t \in Thread,
             DrainCheck(t) \/ FetchNothing(t) \/ Save(t)
      PROVE  Order'
  <2>1. UNCHANGED <<cursor, latest, repeated>>
    BY <1>1 DEF DrainCheck, FetchNothing, Save, memory, history
  <2>2. \A u \in Thread : \/ drain'[u] = drain[u]
                          \/ drain'[u].phase \notin {"take", "hand"}
    BY <1>0, <1>1 DEF DrainCheck, DeadSocket, FetchNothing, Save, Finish,
                      EndDrain, NoDrain
  <2>3. QED
    BY <2>1, <2>2, <1>b
<1>2. ASSUME NEW t \in Thread, FetchPage(t) \/ FetchStale(t)
      PROVE  Order'
  <2>1. UNCHANGED <<cursor, latest, repeated>>
    BY <1>2 DEF FetchPage, FetchStale, memory, history
  <2>2. \A u \in Thread : u # t => drain'[u] = drain[u]
    BY <1>0, <1>2 DEF FetchPage, FetchStale
  <2>3. InStep(t)'
    BY <1>0, <1>2, <2>1 DEF FetchPage, FetchStale
  <2>4. QED
    BY <2>1, <2>2, <2>3
<1>3. ASSUME NEW t \in Thread, Take(t)
      PROVE  Order'
  <2> DEFINE d == drain[t]
  <2>1. /\ d.next \in Nat /\ d.last \in Nat /\ d.before \in Nat
        /\ d.phase = "take"
    BY <1>0, <1>3 DEF Take
  <2>2. /\ drain'[t].phase = "hand" /\ drain'[t].next = d.next
        /\ drain'[t].last = d.last /\ drain'[t].before = d.before
    BY <1>0, <1>3 DEF Take
  <2>3. \A u \in Thread : u # t => drain'[u].phase = "idle"
    BY <1>0, <1>3, <1>a DEF Take
  <2>4. /\ cursor' \in Nat /\ cursor' >= cursor /\ cursor' >= d.next
        /\ cursor' \in {cursor, d.next}
        /\ UNCHANGED <<latest, repeated>>
    BY <1>0, <1>3, <2>1, Bounds DEF Take, history
  <2>5. InStep(t)'
    BY <1>0, <2>1, <2>2, <2>4
  <2>6. latest' <= cursor' /\ ~repeated'
    BY <1>0, <2>4
  <2>7. QED
    BY <2>3, <2>5, <2>6
<1>4. ASSUME NEW t \in Thread, Hand(t)
      PROVE  Order'
  <2> DEFINE d == drain[t]
  <2>1. /\ d.next \in Nat /\ d.last \in Nat /\ d.before \in Nat
        /\ d.phase = "hand"
    BY <1>0, <1>4 DEF Hand
  <2>2. /\ drain'[t].phase = IF d.next < d.last THEN "take" ELSE "save"
        /\ drain'[t].next = d.next + 1
        /\ drain'[t].last = d.last /\ drain'[t].before = d.before
    BY <1>0, <1>4 DEF Hand
  <2>3. \A u \in Thread : u # t => drain'[u].phase = "idle"
    BY <1>0, <1>4, <1>a DEF Hand
  <2>4. /\ cursor' = cursor
        /\ latest' \in {latest, d.next}
        /\ repeated' = (repeated \/ (d.before < d.next /\ d.next <= latest))
    BY <1>0, <1>4, <2>1, Bounds DEF Hand, memory
  <2>5. d.next <= cursor /\ ~(d.before < d.next /\ d.next <= latest)
    BY <1>0, <2>1
  <2>6. InStep(t)'
    BY <1>0, <2>1, <2>2, <2>4, <2>5
  <2>7. latest' <= cursor' /\ ~repeated'
    BY <1>0, <2>4, <2>5
  <2>8. QED
    BY <2>3, <2>6, <2>7
<1>5. CASE Start \/ Recover \/ DataFrame \/ Keepalive
  <2>1. UNCHANGED <<cursor, latest, repeated>>
    BY <1>5 DEF Start, Recover, DataFrame, Keepalive, Frame, memory, history
  <2>2. \A u \in Thread : \/ drain'[u] = drain[u]
                          \/ drain'[u].phase \notin {"take", "hand"}
    BY <1>0, <1>5 DEF Start, Recover, DataFrame, Keepalive, DrainAsync,
                      StartDrain, NoDrain
  <2>3. QED
    BY <2>1, <2>2, <1>b
<1>6. CASE FetchRefused \/ Terminate \/ Kill
  <2>1. UNCHANGED <<cursor, latest, repeated>>
    BY <1>6 DEF FetchRefused, Terminate, Kill, memory, history
  <2>2. \A u \in Thread : \/ drain'[u] = drain[u]
                          \/ drain'[u].phase \notin {"take", "hand"}
    BY <1>0, <1>6 DEF FetchRefused, Terminate, Kill, EndDrain, NoDrain
  <2>3. QED
    BY <2>1, <2>2, <1>b
<1>7. CASE Restart
  <2>1. \A t \in Thread : drain'[t].phase = "idle"
    BY <1>7 DEF Restart, Leaving, OneDrain, Thread
  <2>2. latest' <= cursor' /\ ~repeated'
    BY <1>7 DEF Restart, TypeOK
  <2>3. QED
    BY <2>1, <2>2
<1>8. CASE UNCHANGED <<cursor, latest, repeated, drain>>
  BY <1>8, <1>b
<1>9. QED
  BY <1>1, <1>2, <1>3, <1>4, <1>5, <1>6, <1>7, <1>8
     DEF Next, DrainStep, MainStep, Connect, Unauthorized, Drop,
         FrameFindsDeadSocket, PersistFailure, Wake, WorldStep,
         Arrive, Refuse, SocketDies, StreamProves, ReconcileDue, FailureAges,
         process, memory, history, vars

LEMMA OrderAlways == Spec => [](Leaving /\ Order)
<1>1. Init => Leaving /\ Order
  BY DEF Init, Leaving, Order, InStep, NoDrain
<1>2. QED
  BY <1>1, TypeCorrect, ExclusionCorrect, LeavingStep, OrderStep, PTL
     DEF Spec

(* One process hands over each new delivery once and in the order of the   *)
(* server's numbers, although two threads drain, both move the cursor, and *)
(* the server may answer with old pages in between.                        *)
THEOREM HandOverCorrect == Spec => []HandedOnceInOrder
<1>1. Order => HandedOnceInOrder
  BY DEF Order, HandedOnceInOrder
<1>2. QED
  BY <1>1, OrderAlways, PTL

-----------------------------------------------------------------------------
(* What becomes of every delivery the cursor has passed.                   *)

(* Delivery n was handed over, was lost, or is being handed over.          *)
Reached(n) ==
  \/ n \in handed \union lost
  \/ \E t \in Thread : drain[t].phase = "hand" /\ drain[t].next = n

(* A process that was told to stop in the middle of a drain of its main    *)
(* thread never writes its cursor again.                                   *)
Writes == main # "killed" /\ ~(exit = "terminated" /\ lock = "free")

(* A stale page brings only what is accounted for, and what the main       *)
(* thread is handing over is not on disk: a SIGTERM there loses nothing    *)
(* that the state file skips.                                              *)
Spared(t) ==
  LET d == drain[t] IN
  d.phase \in {"take", "hand"} /\ d.next <= d.before
    => d.next \in handed \union lost

MainAhead ==
  LET d == drain["main"] IN
  d.phase = "hand" /\ d.before < d.next => disk.cursor < d.next

Accounted ==
  /\ \A n \in 1..disk.cursor : Reached(n)
  /\ Writes => \A n \in 1..cursor : Reached(n)
  /\ \A t \in Thread : Spared(t)
  /\ MainAhead

Bounded == IsFiniteSet(lost) /\ Cardinality(lost) <= crashes

(* A step under which every drain that holds a delivery keeps it, nothing  *)
(* is forgotten, and the state file is left alone or takes the cursor of a *)
(* process that still writes.                                              *)
LEMMA Kept ==
  ASSUME Accounted,
         handed \subseteq handed', lost \subseteq lost',
         \A t \in Thread :
           drain[t].phase = "hand" =>
             drain'[t].phase = "hand" /\ drain'[t].next = drain[t].next,
         disk'.cursor = disk.cursor \/ (Writes /\ disk'.cursor = cursor),
         Writes' => Writes /\ cursor' = cursor
  PROVE  /\ \A n \in 1..disk'.cursor : Reached(n)'
         /\ Writes' => \A n \in 1..cursor' : Reached(n)'
<1>1. \A n : Reached(n) => Reached(n)'
  BY DEF Reached
<1>2. QED
  BY <1>1 DEF Accounted

LEMMA AccountedStep ==
  /\ TypeOK /\ OneDrain /\ MainDrains /\ Leaving /\ Order /\ DiskBehind
  /\ Accounted /\ [Next]_vars
  => Accounted'
<1> SUFFICES ASSUME TypeOK, OneDrain, MainDrains, Leaving, Order, DiskBehind,
                    Accounted, [Next]_vars
             PROVE  Accounted'
  OBVIOUS
<1>0. /\ drain \in [Thread -> [phase : Phase, next : Nat, last : Nat,
                               before : Nat]]
      /\ cursor \in Nat /\ disk.cursor \in Nat /\ disk.cursor <= cursor
      /\ "main" \in Thread
  BY DEF TypeOK, DiskBehind, Thread
<1>a. \A t \in Thread : drain[t].phase # "idle"
        => /\ lock = t
           /\ Writes
           /\ \A u \in Thread : u # t => drain[u].phase = "idle"
  BY DEF OneDrain, Leaving, Writes, Thread
(* What the drains are doing is left alone, and so is the state file while *)
(* the main thread drains.                                                 *)
<1>b. ASSUME handed \subseteq handed', lost \subseteq lost',
             \A t \in Thread :
               drain'[t] = drain[t]
                 \/ (drain[t].phase # "hand"
                     /\ drain'[t].phase \notin {"take", "hand"}),
             \/ disk'.cursor = disk.cursor
             \/ Writes /\ lock # "main" /\ disk'.cursor = cursor
             \/ Writes /\ drain["main"].phase # "hand" /\ disk'.cursor = cursor,
             Writes' => Writes /\ cursor' = cursor
      PROVE  Accounted'
  <2>1. /\ \A n \in 1..disk'.cursor : Reached(n)'
        /\ Writes' => \A n \in 1..cursor' : Reached(n)'
    BY <1>b, Kept
  <2>2. \A t \in Thread : Spared(t)'
    BY <1>b DEF Accounted, Spared
  <2>3. MainAhead'
    BY <1>0, <1>a, <1>b DEF Accounted, MainAhead
  <2>4. QED
    BY <2>1, <2>2, <2>3 DEF Accounted
<1>1. ASSUME NEW t \in Thread, DrainCheck(t) \/ FetchNothing(t) \/ Save(t)
      PROVE  Accounted'
  <2>1. /\ drain[t].phase \notin {"idle", "hand"}
        /\ UNCHANGED <<handed, lost, cursor>>
    BY <1>1 DEF DrainCheck, FetchNothing, Save, memory, history
  <2>2. \A u \in Thread :
          drain'[u] = drain[u]
            \/ (drain[u].phase # "hand"
                /\ drain'[u].phase \notin {"take", "hand"})
    BY <1>0, <1>1 DEF DrainCheck, DeadSocket, FetchNothing, Save, Finish,
                      EndDrain, NoDrain
  <2>3. disk'.cursor = disk.cursor \/ disk'.cursor = cursor
    BY <1>1 DEF DrainCheck, FetchNothing, Save, Checkpoint
  <2>4. drain["main"].phase # "hand"
    BY <1>0, <1>a, <2>1
  <2>5. QED
    BY <1>a, <1>b, <2>1, <2>2, <2>3, <2>4
<1>2. ASSUME NEW t \in Thread, FetchPage(t) \/ FetchStale(t)
      PROVE  Accounted'
  <2>1. /\ drain[t].phase = "fetch"
        /\ UNCHANGED <<handed, lost, cursor, disk>>
    BY <1>2 DEF FetchPage, FetchStale, memory, history
  <2>2. /\ \A u \in Thread : u # t => drain'[u] = drain[u]
        /\ drain'[t].phase = "take"
        /\ drain'[t].before = cursor
        /\ \/ drain'[t].next = cursor + 1
           \/ drain'[t].next = cursor /\ cursor > 0
    BY <1>0, <1>2 DEF FetchPage, FetchStale
  <2>3. /\ \A n \in 1..disk'.cursor : Reached(n)'
        /\ Writes' => \A n \in 1..cursor' : Reached(n)'
    <3>1. \A u \in Thread : drain[u].phase = "hand" =>
            drain'[u].phase = "hand" /\ drain'[u].next = drain[u].next
      BY <2>1, <2>2
    <3>2. QED
      BY <1>a, <2>1, <3>1, Kept
  <2>4. Spared(t)'
    <3>1. CASE drain'[t].next = cursor /\ cursor > 0
      <4>1. Reached(cursor)
        BY <1>0, <1>a, <2>1, <3>1 DEF Accounted
      <4>2. cursor \in handed \union lost
        BY <1>a, <2>1, <4>1 DEF Reached
      <4>3. QED
        BY <2>1, <3>1, <4>2 DEF Spared
    <3>2. CASE drain'[t].next = cursor + 1
      BY <1>0, <2>2, <3>2 DEF Spared
    <3>3. QED
      BY <2>2, <3>1, <3>2
  <2>5. \A u \in Thread : Spared(u)'
    BY <2>1, <2>2, <2>4 DEF Accounted, Spared
  <2>6. MainAhead'
    BY <1>0, <2>1, <2>2 DEF Accounted, MainAhead
  <2>7. QED
    BY <2>3, <2>5, <2>6 DEF Accounted
<1>3. ASSUME NEW t \in Thread, Take(t)
      PROVE  Accounted'
  <2> DEFINE d == drain[t]
  <2>1. /\ d.next \in Nat /\ d.before \in Nat /\ d.phase = "take"
        /\ UNCHANGED <<handed, lost, disk, main, exit, lock>>
    BY <1>0, <1>3 DEF Take, history
  <2>2. /\ \A u \in Thread : u # t => drain'[u] = drain[u]
        /\ drain'[t].phase = "hand" /\ drain'[t].next = d.next
        /\ drain'[t].before = d.before
    BY <1>0, <1>3 DEF Take
  <2>3. /\ cursor' \in {cursor, d.next}
        /\ cursor' = d.next \/ d.next <= cursor
    BY <1>0, <1>3, <2>1 DEF Take, Larger
  <2>4. /\ d.before < d.next => d.next = cursor + 1
        /\ d.next <= d.before => d.next <= cursor
    BY <2>1 DEF Order, InStep
  <2>5. \A n : Reached(n) => Reached(n)'
    BY <2>1, <2>2 DEF Reached
  <2>6. \A n : n = d.next => Reached(n)'
    BY <2>2 DEF Reached
  <2>7. \A n \in 1..disk'.cursor : Reached(n)'
    BY <2>1, <2>5 DEF Accounted
  <2>8. \A n \in 1..cursor' : Reached(n)'
    <3>1. \A n \in 1..cursor : Reached(n)'
      BY <1>a, <2>1, <2>5 DEF Accounted
    <3>2. CASE cursor' = cursor
      BY <3>1, <3>2
    <3>3. CASE cursor' = d.next
      <4>1. cursor' <= cursor + 1
        BY <1>0, <2>1, <2>4, <3>3
      <4>2. \A n \in 1..cursor' : n \in 1..cursor \/ n = d.next
        BY <1>0, <2>1, <3>3, <4>1
      <4>3. QED
        BY <2>6, <3>1, <4>2
    <3>4. QED
      BY <2>3, <3>2, <3>3
  <2>9. \A u \in Thread : Spared(u)'
    BY <2>1, <2>2 DEF Accounted, Spared
  <2>10. MainAhead'
    BY <1>0, <1>a, <2>1, <2>2, <2>4 DEF Accounted, MainAhead
  <2>11. QED
    BY <2>7, <2>8, <2>9, <2>10 DEF Accounted
<1>4. ASSUME NEW t \in Thread, Hand(t)
      PROVE  Accounted'
  <2> DEFINE d == drain[t]
  <2>1. /\ d.next \in Nat /\ d.last \in Nat /\ d.before \in Nat
        /\ d.phase = "hand"
        /\ handed' = handed \union {d.next}
        /\ UNCHANGED <<lost, disk, cursor, main, exit, lock>>
    BY <1>0, <1>4 DEF Hand, memory
  <2>2. /\ \A u \in Thread : u # t => drain'[u] = drain[u]
        /\ drain'[t].phase = IF d.next < d.last THEN "take" ELSE "save"
        /\ drain'[t].next = d.next + 1 /\ drain'[t].before = d.before
    BY <1>0, <1>4 DEF Hand
  <2>3. \A n : Reached(n) => Reached(n)'
    BY <2>1, <2>2 DEF Reached
  <2>4. /\ \A n \in 1..disk'.cursor : Reached(n)'
        /\ Writes' => \A n \in 1..cursor' : Reached(n)'
    BY <1>a, <2>1, <2>3 DEF Accounted
  <2>5. Spared(t)'
    <3>1. d.next <= d.before => d.last <= d.next
      BY <2>1 DEF Order, InStep
    <3>2. drain'[t].phase \in {"take", "hand"} => d.before < d.next + 1
      BY <2>1, <2>2, <3>1
    <3>3. QED
      BY <2>1, <2>2, <3>2 DEF Spared
  <2>6. \A u \in Thread : Spared(u)'
    BY <1>a, <2>1, <2>2, <2>5 DEF Spared
  <2>7. MainAhead'
    BY <1>0, <1>a, <2>1, <2>2 DEF MainAhead
  <2>8. QED
    BY <2>4, <2>6, <2>7 DEF Accounted
<1>5. CASE Start \/ Recover \/ DataFrame \/ Keepalive
  <2>1. UNCHANGED <<handed, lost, cursor>>
    BY <1>5 DEF Start, Recover, DataFrame, Keepalive, Frame, memory, history
  <2>2. \A u \in Thread :
          drain'[u] = drain[u]
            \/ (drain[u].phase # "hand"
                /\ drain'[u].phase \notin {"take", "hand"})
    BY <1>0, <1>5 DEF OneDrain, Start, Recover, DataFrame, Keepalive,
                      DrainAsync, StartDrain, NoDrain, Thread
  <2>3. /\ disk'.cursor = disk.cursor \/ disk'.cursor = cursor
        /\ main \in {"starting", "locking", "streaming"}
    BY <1>5 DEF Start, Recover, DataFrame, Keepalive, Frame, ResetLadder,
                Checkpoint
  <2>4. Writes /\ lock # "main"
    BY <2>3 DEF MainDrains, Leaving, Writes
  <2>5. QED
    BY <1>b, <2>1, <2>2, <2>3, <2>4
<1>6. CASE Connect \/ Unauthorized \/ Drop \/ FrameFindsDeadSocket
            \/ PersistFailure \/ Wake \/ WorldStep
  <2>1. UNCHANGED <<handed, lost, cursor, drain, lock>>
    <3>1. CASE Connect \/ Unauthorized \/ Drop \/ FrameFindsDeadSocket
      BY <3>1 DEF Connect, Unauthorized, Drop, FrameFindsDeadSocket, memory,
                  history
    <3>2. CASE PersistFailure \/ Wake
      BY <3>2 DEF PersistFailure, Wake, memory, history
    <3>3. CASE WorldStep
      BY <3>3 DEF WorldStep, Arrive, Refuse, SocketDies, StreamProves,
                  ReconcileDue, FailureAges, process, memory, history
    <3>4. QED
      BY <1>6, <3>1, <3>2, <3>3
  <2>2. \/ disk'.cursor = disk.cursor
        \/ main = "failed" /\ disk'.cursor = cursor
    <3>1. CASE FailureAges
      BY <3>1 DEF FailureAges, TypeOK
    <3>2. QED
      BY <1>6, <3>1 DEF Connect, Unauthorized, Drop, FrameFindsDeadSocket,
           PersistFailure, Wake, WorldStep, Arrive, Refuse, SocketDies,
           StreamProves, ReconcileDue, Checkpoint
  <2>3. main = "failed" => Writes /\ lock # "main"
    BY DEF MainDrains, Leaving, Writes
  <2>4. Writes' => Writes
    BY <1>6 DEF Leaving, Writes, Connect, Unauthorized, Drop, Stop, Fail,
         FrameFindsDeadSocket, PersistFailure, Wake, WorldStep, Arrive,
         Refuse, SocketDies, StreamProves, ReconcileDue, FailureAges, process
  <2>5. QED
    BY <1>b, <2>1, <2>2, <2>3, <2>4
<1>7. CASE FetchRefused
  <2>1. /\ UNCHANGED <<handed, lost, cursor, disk>>
        /\ drain["main"].phase = "fetch"
    BY <1>7 DEF FetchRefused, history
  <2>2. \A u \in Thread :
          drain'[u] = drain[u]
            \/ (drain[u].phase # "hand"
                /\ drain'[u].phase \notin {"take", "hand"})
    BY <1>0, <1>7 DEF FetchRefused, EndDrain, NoDrain, Thread
  <2>3. QED
    BY <1>0, <1>a, <1>b, <2>1, <2>2
<1>8. CASE Terminate
  <2>1. UNCHANGED <<handed, lost, cursor, disk>>
    BY <1>8 DEF Terminate, memory, history
  <2>2. CASE lock # "main"
    <3>1. /\ UNCHANGED <<drain, lock>>
          /\ Writes' => Writes
      BY <1>8, <2>2 DEF Terminate, Writes
    <3>2. QED
      BY <1>b, <2>1, <3>1
  <2>3. CASE lock = "main"
    <3>1. /\ drain' = [drain EXCEPT !["main"] = NoDrain]
          /\ ~Writes'
      BY <1>8, <2>3 DEF Terminate, EndDrain, Writes
    <3>2. \A u \in Thread : drain'[u].phase = "idle"
      BY <1>0, <2>3, <3>1 DEF OneDrain, NoDrain, Thread
    <3>3. \A n \in 1..disk.cursor : n \in handed \union lost
      <4> SUFFICES ASSUME NEW n \in 1..disk.cursor
                   PROVE  n \in handed \union lost
        OBVIOUS
      <4>1. Reached(n)
        BY DEF Accounted
      <4>2. CASE drain["main"].phase = "hand" /\ drain["main"].next = n
        <5>1. n \in Nat /\ n <= disk.cursor /\ drain["main"].before \in Nat
          BY <1>0
        <5>2. ~(drain["main"].before < n)
          BY <1>0, <4>2, <5>1 DEF Accounted, MainAhead
        <5>3. QED
          BY <1>0, <4>2, <5>1, <5>2 DEF Accounted, Spared
      <4>3. QED
        BY <2>3, <4>1, <4>2 DEF Reached, OneDrain, Thread
    <3>4. QED
      BY <1>0, <2>1, <3>1, <3>2, <3>3
         DEF Accounted, Reached, Spared, MainAhead
  <2>4. QED
    BY <2>2, <2>3
<1>9. CASE Kill
  <2>1. /\ ~Writes'
        /\ \A t \in Thread : drain'[t].phase = "idle"
        /\ UNCHANGED <<handed, disk>>
        /\ lost' = lost \union Skipped
    BY <1>9 DEF Kill, Writes, NoDrain
  <2>2. \A n \in 1..disk.cursor : n \in handed' \union lost'
    BY <2>1 DEF Skipped
  <2>3. QED
    BY <1>0, <2>1, <2>2 DEF Accounted, Reached, Spared, MainAhead
<1>10. CASE Restart
  <2>1. /\ \A t \in Thread : drain[t].phase = "idle"
        /\ UNCHANGED <<handed, lost, disk, drain>>
        /\ cursor' = disk.cursor
    BY <1>10 DEF Restart, Leaving, OneDrain, Thread
  <2>2. \A n : Reached(n) => Reached(n)'
    BY <2>1 DEF Reached
  <2>3. QED
    BY <1>0, <2>1, <2>2 DEF Accounted, Spared, MainAhead
<1>11. CASE UNCHANGED vars
  BY <1>b, <1>11 DEF vars, memory, history, Writes
<1>12. QED
  BY <1>1, <1>2, <1>3, <1>4, <1>5, <1>6, <1>7, <1>8, <1>9, <1>10, <1>11
     DEF Next, DrainStep, MainStep

LEMMA AccountedAlways == Spec => []Accounted
<1>1. Init => Accounted
  BY DEF Init, Accounted, Spared, MainAhead, NoDrain, Thread
<1>2. DiskInv => DiskBehind
  BY DEF DiskInv
<1>3. QED
  BY <1>1, <1>2, TypeCorrect, ExclusionCorrect, MainThread, OrderAlways,
     DiskAlways, AccountedStep, PTL DEF Spec

LEMMA KillLosesOne ==
  ASSUME TypeOK, OneDrain, Accounted
  PROVE  \E x : Skipped \subseteq lost \union {x}
<1>1. CASE \A t \in Thread : drain[t].phase # "hand"
  BY <1>1 DEF Accounted, Reached, Skipped
<1>2. CASE \E t \in Thread : drain[t].phase = "hand"
  <2>1. PICK t \in Thread : drain[t].phase = "hand"
    BY <1>2
  <2>2. \A u \in Thread : drain[u].phase = "hand" => u = t
    BY <2>1 DEF OneDrain
  <2>3. Skipped \subseteq lost \union {drain[t].next}
    BY <2>2 DEF Accounted, Reached, Skipped
  <2>4. QED
    BY <2>3
<1>3. QED
  BY <1>1, <1>2

LEMMA BoundedStep ==
  TypeOK /\ OneDrain /\ Accounted /\ Bounded /\ [Next]_vars => Bounded'
<1> SUFFICES ASSUME TypeOK, OneDrain, Accounted, Bounded, [Next]_vars
             PROVE  Bounded'
  OBVIOUS
<1>1. CASE UNCHANGED <<lost, crashes>>
  BY <1>1 DEF Bounded
<1>2. CASE Kill
  <2>1. PICK x : Skipped \subseteq lost \union {x}
    BY KillLosesOne
  <2>2. lost' \in SUBSET (lost \union {x}) /\ crashes' = crashes + 1
    BY <1>2, <2>1 DEF Kill
  <2>3. /\ IsFiniteSet(lost \union {x})
        /\ Cardinality(lost \union {x}) <= Cardinality(lost) + 1
        /\ Cardinality(lost) \in Nat
    BY FS_AddElement, FS_CardinalityType DEF Bounded
  <2>4. /\ IsFiniteSet(lost')
        /\ Cardinality(lost') <= Cardinality(lost \union {x})
        /\ Cardinality(lost') \in Nat /\ Cardinality(lost \union {x}) \in Nat
    BY <2>2, <2>3, FS_Subset, FS_CardinalityType
  <2>5. crashes \in Nat
    BY WatcherAssumption DEF WatcherAssumption, TypeOK
  <2>6. QED
    BY <2>2, <2>3, <2>4, <2>5 DEF Bounded
<1>3. QED
  BY <1>1, <1>2
     DEF Next, DrainStep, DrainCheck, FetchPage, FetchStale, FetchNothing,
         Take, Hand, Save, MainStep, Start, Connect, Unauthorized, Drop,
         DataFrame, Keepalive, Frame, FrameFindsDeadSocket, PersistFailure,
         Recover, FetchRefused, Wake, Terminate, Restart, WorldStep, Arrive,
         Refuse, SocketDies, StreamProves, ReconcileDue, FailureAges,
         history, vars

(* However the threads interleave and however often the process dies, each *)
(* death costs at most one delivery: no page, batch or race adds to it.    *)
THEOREM LossBound == Spec => []LossIsBounded
<1>1. Init => Bounded
  BY FS_EmptySet DEF Init, Bounded
<1>2. Bounded => LossIsBounded
  BY DEF Bounded, LossIsBounded
<1>3. QED
  BY <1>1, <1>2, TypeCorrect, ExclusionCorrect, AccountedAlways, BoundedStep,
     PTL DEF Spec

-----------------------------------------------------------------------------
(* The whole of cmd_watch: WakePath.                                       *)

(* Whatever the coalescer, the command and the signals do, the watcher in  *)
(* it does what it would do alone: every step is one of its steps or       *)
(* leaves its state be.  So all that was shown above holds in cmd_watch.   *)
LEMMA PathStep == [PathNext]_pathVars => [Next]_vars
<1> SUFFICES ASSUME [PathNext]_pathVars
             PROVE  [Next]_vars
  OBVIOUS
<1>1. ASSUME NEW t \in Thread, Handle(t)
      PROVE  Hand(t) \/ UNCHANGED vars
  BY <1>1 DEF Handle, Buffer, WakeNow, FlushFirst, UrgentNext, WakeLate, Return
<1>2. CASE TimerFlush \/ TimerReturn \/ Close \/ CloseReturn
  BY <1>2 DEF TimerFlush, TimerReturn, Close, CloseReturn
<1>3. CASE Term \/ Exit \/ HardKill
  BY <1>3 DEF Term, Exit, HardKill, EndProcess, Next
<1>4. QED
  BY <1>1, <1>2, <1>3 DEF PathNext, Next, pathVars

THEOREM PathIsAWatcher == PathSpec => Spec
<1>1. PathInit => Init
  BY DEF PathInit
<1>2. QED
  BY <1>1, PathStep, PTL DEF PathSpec, Spec

(* What the steps of the watcher that do not concern a wake leave alone.   *)
LEMMA Elsewhere ==
  ASSUME TypeOK, OneDrain, MainDrains,
         (\E t \in Thread : DrainStep(t)) \/ MainStep \/ WorldStep \/ Restart
  PROVE  /\ \A t \in Thread : drain[t].phase = "hand" => drain'[t] = drain[t]
         /\ main = "stopped" => main' = "stopped"
         /\ handed' = handed
<1> USE DEF OneDrain
<1>0. drain \in [Thread -> [phase : Phase, next : Nat, last : Nat,
                            before : Nat]]
  BY DEF TypeOK
<1>1. ASSUME NEW t \in Thread, DrainStep(t)
      PROVE  /\ \A u \in Thread : drain[u].phase = "hand" => drain'[u] = drain[u]
             /\ main = "stopped" => main' = "stopped"
             /\ handed' = handed
  <2>1. drain[t].phase \in {"check", "fetch", "take", "save"}
    BY <1>1 DEF DrainStep, DrainCheck, FetchPage, FetchStale, FetchNothing,
                Take, Save
  <2>2. \A u \in Thread : u # t => drain'[u] = drain[u]
    BY <1>0, <1>1 DEF DrainStep, DrainCheck, DeadSocket, FetchPage, FetchStale,
                FetchNothing, Take, Save, Finish, EndDrain
  <2>3. main' = main \/ t = "main"
    BY <1>1 DEF DrainStep, DrainCheck, DeadSocket, FetchPage, FetchStale,
                FetchNothing, Take, Save, Finish, Thread
  <2>4. handed' = handed
    BY <1>1 DEF DrainStep, DrainCheck, FetchPage, FetchStale, FetchNothing,
                Take, Save, history
  <2>5. QED
    BY <2>1, <2>2, <2>3, <2>4 DEF MainDrains
<1>2. CASE MainStep
  <2>1. main # "stopped"
    BY <1>2 DEF MainStep, Start, Connect, Unauthorized, Drop, DataFrame,
                Keepalive, Frame, FrameFindsDeadSocket, PersistFailure, Recover,
                FetchRefused, Wake
  <2>2. handed' = handed
    BY <1>2 DEF MainStep, Start, Connect, Unauthorized, Drop, DataFrame,
                Keepalive, Frame, FrameFindsDeadSocket, PersistFailure, Recover,
                FetchRefused, Wake, history
  <2>3. CASE Start \/ Recover \/ DataFrame \/ Keepalive
    BY <1>0, <2>1, <2>2, <2>3 DEF Start, Recover, DataFrame, Keepalive,
                DrainAsync, StartDrain, Thread
  <2>4. CASE FetchRefused
    BY <1>0, <2>1, <2>2, <2>4 DEF FetchRefused, EndDrain
  <2>5. CASE UNCHANGED drain
    BY <2>1, <2>2, <2>5
  <2>6. QED
    BY <1>2, <2>3, <2>4, <2>5 DEF MainStep, Connect, Unauthorized, Drop,
                FrameFindsDeadSocket, PersistFailure, Wake
<1>3. CASE WorldStep \/ Restart
  BY <1>3 DEF WorldStep, Arrive, Refuse, SocketDies, StreamProves,
              ReconcileDue, FailureAges, Restart, process, history
<1>4. QED
  BY <1>1, <1>2, <1>3

(* Types of what WakePath adds.                                            *)
LEMMA PathTypeStep ==
  TypeOK /\ TypeOK' /\ PathTypeOK /\ [PathNext]_pathVars => PathTypeOK'
<1> SUFFICES ASSUME TypeOK, TypeOK', PathTypeOK, [PathNext]_pathVars
             PROVE  PathTypeOK'
  OBVIOUS
<1>0. /\ \A t \in Thread : drain[t].next \in Nat
      /\ Thread \subseteq Actor /\ {"main", "timer"} \subseteq Actor
      /\ Announced \in SUBSET Nat
  BY DEF TypeOK, PathTypeOK, Thread, Actor, Announced
<1> USE DEF PathTypeOK
<1>1. CASE UNCHANGED wake
  BY <1>1 DEF wake, trace
<1>2. ASSUME NEW t \in Thread, Buffer(t) \/ WakeNow(t) \/ FlushFirst(t)
      PROVE  PathTypeOK'
  BY <1>0, <1>2 DEF Buffer, WakeNow, FlushFirst, Flush, Begin, trace
<1>3. ASSUME NEW t \in Thread, UrgentNext(t) \/ WakeLate(t) \/ Return(t)
      PROVE  PathTypeOK'
  <2>1. CASE UrgentNext(t)
    BY <1>0, <2>1 DEF UrgentNext
  <2>2. CASE WakeLate(t)
    BY <1>0, <2>2 DEF WakeLate, Begin
  <2>3. CASE Return(t)
    BY <1>0, <2>3 DEF Return, End
  <2>4. QED
    BY <1>3, <2>1, <2>2, <2>3
<1>4. CASE TimerFlush \/ Close
  BY <1>0, <1>4 DEF TimerFlush, Close, Flush, Begin
<1>5. CASE TimerReturn \/ CloseReturn \/ Term
  BY <1>0, <1>5 DEF TimerReturn, CloseReturn, Term, End
<1>6. CASE Exit \/ HardKill
  BY <1>0, <1>6 DEF Exit, HardKill, EndProcess, NoCommand
<1>7. QED
  BY <1>1, <1>2, <1>3, <1>4, <1>5, <1>6 DEF PathNext, Handle, pathVars

(* Every variable of the composition keeps its type.                       *)
THEOREM PathTypeCorrect == PathSpec => []PathTypeOK
<1>1. PathInit /\ TypeOK => PathTypeOK
  BY DEF PathInit, PathTypeOK, NoCommand
<1>2. QED
  BY <1>1, PathIsAWatcher, TypeCorrect, PathTypeStep, PTL DEF PathSpec

(* The coalescer's lock.  A command runs under it, or after close(); the   *)
(* thread in on_message announces the delivery it has in hand, or what     *)
(* goes before it; and after close(), the last thing the main thread does, *)
(* nothing is held back.                                                   *)
Announcing(t) ==
  waking[t] # {} =>
    \/ drain[t].phase = "hand" /\ (urgent \/ waking[t] = {drain[t].next})
    \/ t = "main" /\ main = "stopped" /\ closed

Gated ==
  /\ waking \in [Actor -> SUBSET Nat] /\ held \in SUBSET Nat
  /\ \A a \in Actor : waking[a] # {} => gate = a \/ closed
  /\ closed => held = {} /\ main = "stopped"
  /\ urgent => /\ ~closed /\ gate \in Thread
               /\ drain[gate].phase = "hand"
  /\ \A t \in Thread : Announcing(t)

LEMMA GatedStep ==
  TypeOK /\ OneDrain /\ MainDrains /\ Gated /\ [PathNext]_pathVars => Gated'
<1> SUFFICES ASSUME TypeOK, OneDrain, MainDrains, Gated, [PathNext]_pathVars
             PROVE  Gated'
  OBVIOUS
<1> USE DEF Gated, Announcing
<1>0. /\ drain \in [Thread -> [phase : Phase, next : Nat, last : Nat,
                               before : Nat]]
      /\ \A t \in Thread : drain[t].next \in Nat
      /\ Thread \subseteq Actor /\ "main" \in Thread
      /\ "timer" \in Actor /\ "timer" \notin Thread
      /\ \A t, u \in Thread : drain[t].phase = "hand" /\ drain[u].phase = "hand"
                                => t = u
      /\ drain["main"].phase = "hand" => main # "stopped"
      /\ "free" \notin Actor
  BY DEF TypeOK, OneDrain, MainDrains, Thread, Actor
<1>1. ASSUME (\E t \in Thread : DrainStep(t)) \/ MainStep \/ WorldStep \/ Restart,
             UNCHANGED wake
      PROVE  Gated'
  <2>1. /\ \A t \in Thread : drain[t].phase = "hand" => drain'[t] = drain[t]
        /\ main = "stopped" => main' = "stopped"
    BY <1>1, Elsewhere
  <2>2. UNCHANGED <<gate, held, waking, urgent, closed>>
    BY <1>1 DEF wake
  <2>3. QED
    BY <2>1, <2>2
<1>2. ASSUME NEW t \in Thread, Handle(t)
      PROVE  Gated'
  <2>0. /\ drain[t].phase = "hand" /\ drain[t].next \in Nat /\ main' = main
        /\ \A u \in Thread : u # t => drain'[u] = drain[u]
    BY <1>0, <1>2 DEF Handle, Buffer, WakeNow, FlushFirst, UrgentNext,
                      WakeLate, Return, Hand, vars
  <2>1. CASE Buffer(t)
    <3>1. waking' = waking /\ ~urgent /\ ~closed /\ \A a \in Actor : waking[a] = {}
      BY <1>0, <2>1 DEF Buffer, Hand, trace
    <3>2. QED
      BY <1>0, <2>0, <2>1, <3>1 DEF Buffer
  <2>2. CASE WakeNow(t)
    <3>1. /\ waking' = [waking EXCEPT ![t] = {drain[t].next}] /\ gate' = t
          /\ ~urgent /\ UNCHANGED <<drain, held, urgent, closed>> /\ ~closed
          /\ \A a \in Actor : waking[a] = {}
      BY <1>0, <2>2 DEF WakeNow, Begin, vars
    <3>2. QED
      BY <1>0, <2>0, <3>1
  <2>3. CASE FlushFirst(t)
    <3>1. /\ waking' = [waking EXCEPT ![t] = held] /\ gate' = t /\ held' = {}
          /\ urgent' = TRUE /\ UNCHANGED <<drain, closed>> /\ ~closed
          /\ \A a \in Actor : waking[a] = {}
      BY <1>0, <2>3 DEF FlushFirst, Flush, Begin, vars
    <3>2. QED
      BY <1>0, <2>0, <3>1
  <2>4. CASE UrgentNext(t)
    <3>1. /\ waking' = [waking EXCEPT ![t] = {drain[t].next}] /\ gate = t
          /\ urgent' = FALSE /\ UNCHANGED <<drain, gate, held, closed>> /\ ~closed
          /\ \A a \in Actor \ {t} : waking[a] = {}
      BY <1>0, <2>0, <2>4 DEF UrgentNext, vars
    <3>2. QED
      BY <1>0, <2>0, <3>1
  <2>5. CASE WakeLate(t)
    <3>1. /\ waking' = [waking EXCEPT ![t] = {drain[t].next}] /\ closed
          /\ UNCHANGED <<drain, gate, held, urgent, closed>>
      BY <2>5 DEF WakeLate, Begin, vars
    <3>2. QED
      BY <1>0, <2>0, <3>1
  <2>6. CASE Return(t)
    <3>1. /\ waking' = [waking EXCEPT ![t] = {}]
          /\ gate' = (IF gate = t THEN "free" ELSE gate)
          /\ ~urgent /\ UNCHANGED <<held, urgent, closed>>
      BY <2>6 DEF Return, End
    <3>2. QED
      BY <1>0, <2>0, <3>1
  <2>7. QED
    BY <1>2, <2>1, <2>2, <2>3, <2>4, <2>5, <2>6 DEF Handle
<1>3. CASE TimerFlush
  <2>1. /\ waking' = [waking EXCEPT !["timer"] = held] /\ held' = {}
        /\ ~urgent /\ ~closed /\ gate' = "timer"
        /\ UNCHANGED <<drain, main, urgent, closed>>
        /\ \A a \in Actor : waking[a] = {}
    BY <1>0, <1>3 DEF TimerFlush, Flush, Begin, vars
  <2>2. QED
    BY <1>0, <2>1
<1>4. CASE TimerReturn
  <2>1. /\ waking' = [waking EXCEPT !["timer"] = {}] /\ gate' = "free"
        /\ ~urgent /\ gate = "timer"
        /\ UNCHANGED <<drain, main, held, urgent, closed>>
    BY <1>0, <1>4 DEF TimerReturn, End, vars
  <2>2. QED
    BY <1>0, <2>1
<1>5. CASE Close
  <2>1. /\ waking' = [waking EXCEPT !["main"] = held] /\ held' = {}
        /\ ~urgent /\ closed' /\ main = "stopped"
        /\ UNCHANGED <<drain, main, urgent>>
        /\ \A a \in Actor : waking[a] = {}
    BY <1>0, <1>5 DEF Close, Flush, Begin, vars
  <2>2. QED
    BY <1>0, <2>1
<1>6. CASE CloseReturn
  <2>1. /\ waking' = [waking EXCEPT !["main"] = {}]
        /\ closed /\ ~urgent
        /\ UNCHANGED <<drain, main, held, urgent, closed>>
    BY <1>6 DEF CloseReturn, End, vars
  <2>2. QED
    BY <1>0, <2>1
<1>7. CASE Term
  <2>1. /\ waking' = [waking EXCEPT !["main"] = {}]
        /\ gate' = (IF gate = "main" THEN "free" ELSE gate)
        /\ urgent' = (urgent /\ gate # "main")
        /\ UNCHANGED <<held, closed>> /\ ~closed
        /\ \A t \in Thread \ {"main"} : drain'[t] = drain[t]
    BY <1>0, <1>7 DEF Term, Terminate, EndDrain
  <2>2. QED
    BY <1>0, <2>1
<1>8. CASE Exit \/ HardKill
  <2>1. waking' = NoCommand /\ held' = {} /\ urgent' = FALSE /\ closed' = FALSE
    BY <1>8 DEF Exit, HardKill, EndProcess
  <2>2. QED
    BY <2>1, <1>0 DEF NoCommand
<1>9. CASE UNCHANGED pathVars
  BY <1>9 DEF pathVars, wake, vars
<1>10. QED
  BY <1>1, <1>2, <1>3, <1>4, <1>5, <1>6, <1>7, <1>8, <1>9 DEF PathNext

LEMMA GatedAlways == PathSpec => []Gated
<1>1. PathInit => Gated
  BY DEF PathInit, Gated, Announcing, NoCommand, Thread, Actor
<1>2. Spec => [](TypeOK /\ OneDrain /\ MainDrains)
  BY TypeCorrect, ExclusionCorrect, MainThread, PTL
<1>3. QED
  BY <1>1, <1>2, PathIsAWatcher, GatedStep, PTL DEF PathSpec

LEMMA AccountStep ==
  /\ TypeOK /\ OneDrain /\ MainDrains /\ Gated
  /\ HandedIsAccountedFor /\ [PathNext]_pathVars
  => HandedIsAccountedFor'
<1> SUFFICES ASSUME TypeOK, OneDrain, MainDrains, Gated,
                    HandedIsAccountedFor, [PathNext]_pathVars
             PROVE  HandedIsAccountedFor'
  OBVIOUS
<1> DEFINE Place == woken \union held \union Announced \union interrupted \union killed
<1> USE DEF HandedIsAccountedFor, Announced
<1>0. /\ Thread \subseteq Actor /\ "main" \in Actor /\ "timer" \in Actor
      /\ waking \in [Actor -> SUBSET Nat]
      /\ \A a \in Actor : waking[a] # {} => gate = a \/ closed
      /\ \A t \in Thread : Announcing(t)
      /\ closed => held = {}
      /\ urgent => ~closed /\ gate \in Thread /\ drain[gate].phase = "hand"
      /\ drain["main"].phase = "hand" => main # "stopped"
      /\ \A t, u \in Thread : drain[t].phase = "hand" /\ drain[u].phase = "hand"
                                => t = u
      /\ "free" \notin Actor
  BY DEF Gated, Thread, Actor, OneDrain, MainDrains
(* A command begins: nothing it was announcing is forgotten.               *)
<1>a. ASSUME NEW a \in Actor, NEW deliveries, waking[a] = {},
             waking' = [waking EXCEPT ![a] = deliveries],
             handed' = handed, held \subseteq held' \union deliveries,
             UNCHANGED <<woken, interrupted, killed>>
      PROVE  HandedIsAccountedFor'
  <2>1. ASSUME NEW b \in Actor PROVE waking[b] \subseteq waking'[b]
    BY <1>0, <1>a
  <2>2. deliveries = waking'[a]
    BY <1>0, <1>a
  <2>3. QED
    BY <1>a, <2>1, <2>2
(* A command ends: what it announced is woken, or interrupted.             *)
<1>b. ASSUME NEW a \in Actor,
             waking' = [waking EXCEPT ![a] = {}],
             held' = held, killed' = killed,
             woken \subseteq woken', interrupted \subseteq interrupted',
             handed' \subseteq handed \union waking[a],
             waking[a] \subseteq woken' \union interrupted'
      PROVE  HandedIsAccountedFor'
  <2>1. \A b \in Actor : waking[b] \subseteq waking'[b] \union waking[a]
    BY <1>0, <1>b
  <2>2. QED
    BY <1>b, <2>1
<1>1. ASSUME (\E t \in Thread : DrainStep(t)) \/ MainStep \/ WorldStep \/ Restart,
             UNCHANGED wake
      PROVE  HandedIsAccountedFor'
  BY <1>1, Elsewhere DEF wake, trace
<1>2. ASSUME NEW t \in Thread, Handle(t)
      PROVE  HandedIsAccountedFor'
  <2>1. CASE Buffer(t)
    BY <2>1 DEF Buffer, Hand, trace
  <2>2. CASE WakeNow(t)
    <3>1. waking[t] = {} /\ held = {}
      BY <1>0, <2>2 DEF WakeNow
    <3>2. QED
      BY <1>0, <1>a, <2>2, <3>1 DEF WakeNow, Begin, vars, history
  <2>3. CASE FlushFirst(t)
    <3>1. waking[t] = {}
      BY <1>0, <2>3 DEF FlushFirst, Flush
    <3>2. QED
      BY <1>0, <1>a, <2>3, <3>1 DEF FlushFirst, Flush, Begin, vars, history
  <2>4. CASE UrgentNext(t)
    <3>1. \A b \in Actor : waking[b] \subseteq waking'[b] \union waking[t]
      BY <1>0, <2>4 DEF UrgentNext
    <3>2. QED
      BY <1>0, <2>4, <3>1 DEF UrgentNext, vars, history
  <2>5. CASE WakeLate(t)
    BY <1>0, <1>a, <2>5 DEF WakeLate, Begin, vars, history
  <2>6. CASE Return(t)
    <3>1. waking[t] = {drain[t].next}
      BY <1>0, <2>6 DEF Return, Hand, Announcing
    <3>2. QED
      BY <1>0, <1>b, <2>6, <3>1 DEF Return, Hand, End
  <2>7. QED
    BY <1>2, <2>1, <2>2, <2>3, <2>4, <2>5, <2>6 DEF Handle
<1>3. CASE TimerFlush
  <2>1. waking["timer"] = {}
    BY <1>0, <1>3 DEF TimerFlush, Flush
  <2>2. QED
    BY <1>0, <1>a, <1>3, <2>1 DEF TimerFlush, Flush, Begin, vars, history
<1>4. CASE Close
  <2>1. waking["main"] = {}
    BY <1>0, <1>4 DEF Close, Flush
  <2>2. QED
    BY <1>0, <1>a, <1>4, <2>1 DEF Close, Flush, Begin, vars, history
<1>5. CASE TimerReturn \/ CloseReturn
  BY <1>0, <1>b, <1>5 DEF TimerReturn, CloseReturn, End, vars, history
<1>6. CASE Term
  BY <1>0, <1>b, <1>6 DEF Term, Terminate, history
<1>7. ASSUME NEW gone, EndProcess(gone), held \subseteq gone
      PROVE  HandedIsAccountedFor'
  <2>1. handed' = handed
    BY <1>7 DEF EndProcess, Kill
  <2>2. QED
    BY <1>7, <2>1 DEF EndProcess
<1>8. CASE Exit \/ HardKill
  BY <1>0, <1>7, <1>8 DEF Exit, HardKill
<1>9. CASE UNCHANGED pathVars
  BY <1>9 DEF pathVars, wake, trace, vars, history
<1>10. QED
  BY <1>1, <1>2, <1>3, <1>4, <1>5, <1>6, <1>8, <1>9 DEF PathNext

(* A delivery that on_message was given is announced, being announced, or  *)
(* held back, by whichever thread, unless its command was cut short or the *)
(* process killed: nothing falls between the buffer and the command.       *)
THEOREM AccountCorrect == PathSpec => []HandedIsAccountedFor
<1>1. PathInit => HandedIsAccountedFor
  BY DEF PathInit, Init, HandedIsAccountedFor
<1>2. Spec => [](TypeOK /\ OneDrain /\ MainDrains)
  BY TypeCorrect, ExclusionCorrect, MainThread, PTL
<1>3. QED
  BY <1>1, <1>2, PathIsAWatcher, GatedAlways, AccountStep, PTL DEF PathSpec

-----------------------------------------------------------------------------
(* One wake per delivery.                                                  *)

(* Without stale pages: all that is buffered or announced is behind the    *)
(* cursor, the delivery in hand is at it and the next one to take ahead of *)
(* it, and the one in hand is announced by its own thread or not yet.      *)
Fresh(t) ==
  LET d == drain[t] IN
  /\ d.phase = "take" => cursor < d.next
  /\ d.phase = "hand" =>
       /\ d.next = cursor /\ d.next \notin held
       /\ d.next \in begun => waking[t] = {d.next} /\ ~urgent

OnceEach ==
  /\ begun \in SUBSET Nat
  /\ ~twice
  /\ begun \intersect held = {}
  /\ \A n \in begun \union held : n <= cursor
  /\ main = "killed" => begun = {} /\ held = {}
  /\ \A t \in Thread : Fresh(t)

LEMMA OnceEachStep ==
  /\ TypeOK /\ OneDrain /\ MainDrains /\ Leaving /\ Gated
  /\ ~StalePages /\ OnceEach /\ [PathNext]_pathVars
  => OnceEach'
<1> SUFFICES ASSUME TypeOK, OneDrain, MainDrains, Leaving, Gated, ~StalePages,
                    OnceEach, [PathNext]_pathVars
             PROVE  OnceEach'
  OBVIOUS
<1>0. /\ drain \in [Thread -> [phase : Phase, next : Nat, last : Nat,
                               before : Nat]]
      /\ \A t \in Thread : drain[t].next \in Nat
      /\ cursor \in Nat /\ arrived \in Nat
      /\ Thread \subseteq Actor /\ "main" \in Thread /\ "timer" \in Actor
      /\ "timer" \notin Thread /\ "free" \notin Actor
      /\ waking \in [Actor -> SUBSET Nat] /\ held \in SUBSET Nat
      /\ \A a \in Actor : waking[a] # {} => gate = a \/ closed
      /\ urgent => ~closed /\ gate \in Thread /\ drain[gate].phase = "hand"
      /\ closed => held = {}
  BY DEF TypeOK, Gated, Thread, Actor
<1>a. \A t \in Thread : drain[t].phase # "idle" =>
        /\ lock = t /\ main # "killed"
        /\ \A u \in Thread : u # t => drain[u].phase = "idle"
  BY DEF OneDrain, Leaving, Thread
<1> USE DEF OnceEach, Fresh
<1>1. ASSUME NEW t \in Thread, DrainStep(t), UNCHANGED wake
      PROVE  OnceEach'
  <2>0. /\ UNCHANGED <<held, waking, urgent, begun, twice>>
        /\ drain[t].phase # "idle"
    BY <1>1 DEF wake, trace, DrainStep, DrainCheck, FetchPage, FetchStale,
                FetchNothing, Take, Save
  <2>1. main # "killed" /\ \A u \in Thread : u # t => drain[u].phase = "idle"
    BY <1>a, <2>0
  <2>2. \A u \in Thread : u # t => drain'[u].phase = "idle"
    BY <1>0, <1>1, <2>1 DEF DrainStep, DrainCheck, DeadSocket, FetchPage,
         FetchStale, FetchNothing, Take, Save, Finish, EndDrain
  <2>3. main' # "killed"
    BY <1>1, <2>1 DEF DrainStep, DrainCheck, DeadSocket, FetchPage, FetchStale,
         FetchNothing, Take, Save, Finish, AfterDrain
  <2>4. CASE Take(t)
    <3>1. drain[t].phase = "take" /\ cursor < drain[t].next
      BY <2>4 DEF Take
    <3>2. cursor' = drain[t].next
      BY <1>0, <2>4, <3>1 DEF Take, Larger
    <3>3. drain'[t].next = drain[t].next /\ drain'[t].phase = "hand"
      BY <1>0, <2>4 DEF Take
    <3>4. drain[t].next \notin begun \union held
      BY <1>0, <3>1
    <3>5. \A n \in begun \union held : n <= cursor'
      BY <1>0, <3>1, <3>2
    <3>6. QED
      BY <2>0, <2>2, <2>3, <3>2, <3>3, <3>4, <3>5
  <2>5. CASE FetchPage(t)
    <3>1. drain'[t].phase = "take" /\ drain'[t].next = cursor + 1 /\ cursor' = cursor
      BY <1>0, <2>5 DEF FetchPage, memory
    <3>2. QED
      BY <1>0, <2>0, <2>2, <2>3, <3>1
  <2>6. CASE DrainCheck(t) \/ FetchNothing(t) \/ Save(t)
    <3>1. drain'[t].phase \notin {"take", "hand"} /\ cursor' = cursor
      BY <1>0, <2>6 DEF DrainCheck, DeadSocket, FetchNothing, Save, Finish,
                        EndDrain, NoDrain, memory
    <3>2. QED
      BY <2>0, <2>2, <2>3, <3>1
  <2>7. QED
    BY <1>1, <2>4, <2>5, <2>6 DEF DrainStep, FetchStale
<1>2. ASSUME MainStep \/ WorldStep, UNCHANGED wake
      PROVE  OnceEach'
  <2>1. UNCHANGED <<cursor, held, waking, urgent, begun, twice>>
    BY <1>2 DEF wake, trace, MainStep, Start, Connect, Unauthorized, Drop,
                DataFrame, Keepalive, Frame, FrameFindsDeadSocket,
                PersistFailure, Recover, FetchRefused, Wake, WorldStep, Arrive,
                Refuse, SocketDies, StreamProves, ReconcileDue, FailureAges,
                process, memory
  <2>2. main' = "killed" => main = "killed"
    BY <1>2 DEF MainStep, Start, Stop, Connect, Unauthorized, Drop, Fail,
                DataFrame, Keepalive, Frame, FrameFindsDeadSocket,
                PersistFailure, Recover, FetchRefused, Wake, WorldStep, Arrive,
                Refuse, SocketDies, StreamProves, ReconcileDue, FailureAges,
                process
  <2>3. CASE Start \/ Recover \/ DataFrame \/ Keepalive \/ FetchRefused
    <3>1. \A t \in Thread : drain'[t] = drain[t]
                            \/ drain'[t].phase \notin {"take", "hand"}
      BY <1>0, <2>3 DEF Start, Recover, DataFrame, Keepalive, DrainAsync,
                        StartDrain, FetchRefused, EndDrain, NoDrain
    <3>2. QED
      BY <2>1, <2>2, <3>1
  <2>4. CASE UNCHANGED drain
    BY <2>1, <2>2, <2>4
  <2>5. QED
    BY <1>2, <2>3, <2>4 DEF MainStep, Connect, Unauthorized, Drop,
         FrameFindsDeadSocket, PersistFailure, Wake, WorldStep, Arrive, Refuse,
         SocketDies, StreamProves, ReconcileDue, FailureAges, process
<1>3. CASE Restart /\ UNCHANGED wake
  <2>1. /\ begun' = {} /\ held' = {} /\ twice' = twice /\ main' # "killed"
        /\ drain' = drain /\ \A t \in Thread : drain[t].phase = "idle"
    BY <1>3, <1>a DEF Restart, wake, trace
  <2>2. QED
    BY <2>1
<1>4. ASSUME NEW t \in Thread, Handle(t)
      PROVE  OnceEach'
  <2> DEFINE n == drain[t].next
  <2>0. /\ drain[t].phase = "hand" /\ n \in Nat /\ n = cursor /\ n \notin held
        /\ n \in begun => waking[t] = {n} /\ ~urgent
        /\ main # "killed" /\ main' = main /\ cursor' = cursor
        /\ \A u \in Thread : u # t => drain[u].phase = "idle"
        /\ \A u \in Thread : u # t => drain'[u] = drain[u]
    <3>1. drain[t].phase = "hand"
      BY <1>4 DEF Handle, Buffer, WakeNow, FlushFirst, UrgentNext, WakeLate,
                  Return, Hand
    <3>2. main' = main /\ cursor' = cursor
          /\ \A u \in Thread : u # t => drain'[u] = drain[u]
      BY <1>0, <1>4 DEF Handle, Buffer, WakeNow, FlushFirst, UrgentNext,
                        WakeLate, Return, Hand, memory, vars
    <3>3. QED
      BY <1>0, <1>a, <3>1, <3>2
  <2>a. Hand(t) => drain'[t].phase # "hand"
                   /\ (drain'[t].phase = "take" => cursor < drain'[t].next)
    BY <1>0, <2>0 DEF Hand
  <2>1. CASE Buffer(t)
    <3>1. waking[t] = {}
      BY <1>0, <2>1 DEF Buffer
    <3>2. n \notin begun
      BY <2>0, <3>1
    <3>3. held' = held \union {n} /\ UNCHANGED <<begun, twice>> /\ Hand(t)
      BY <2>1 DEF Buffer, trace
    <3>4. QED
      BY <2>0, <2>a, <3>2, <3>3
  <2>2. CASE WakeNow(t) \/ WakeLate(t)
    <3>1. waking[t] = {} /\ ~urgent
      BY <1>0, <2>2 DEF WakeNow, WakeLate
    <3>2. n \notin begun
      BY <2>0, <3>1
    <3>3. /\ waking'[t] = {n} /\ begun' = begun \union {n}
          /\ twice' = (twice \/ {n} \intersect begun # {})
          /\ UNCHANGED <<drain, held, urgent>>
      BY <1>0, <2>2 DEF WakeNow, WakeLate, Begin, vars
    <3>4. ~twice' /\ begun' \in SUBSET Nat /\ begun' \intersect held' = {}
      BY <1>0, <2>0, <3>2, <3>3
    <3>5. \A m \in begun' \union held' : m <= cursor'
      BY <1>0, <2>0, <3>3
    <3>6. \A u \in Thread : Fresh(u)'
      BY <2>0, <3>1, <3>3
    <3>7. QED
      BY <2>0, <3>4, <3>5, <3>6
  <2>3. CASE FlushFirst(t)
    <3>1. waking[t] = {}
      BY <1>0, <2>3 DEF FlushFirst, Flush
    <3>2. n \notin begun \union held
      BY <2>0, <3>1
    <3>3. /\ begun' = begun \union held /\ held' = {}
          /\ twice' = (twice \/ held \intersect begun # {})
          /\ UNCHANGED drain
      BY <2>3 DEF FlushFirst, Flush, Begin, vars
    <3>4. QED
      BY <1>0, <2>0, <3>2, <3>3
  <2>4. CASE UrgentNext(t)
    <3>1. n \notin begun
      BY <2>0, <2>4 DEF UrgentNext
    <3>2. /\ waking'[t] = {n} /\ begun' = begun \union {n} /\ urgent' = FALSE
          /\ twice' = (twice \/ n \in begun)
          /\ UNCHANGED <<drain, held>>
      BY <1>0, <2>4 DEF UrgentNext, vars
    <3>3. ~twice' /\ begun' \in SUBSET Nat /\ begun' \intersect held' = {}
      BY <1>0, <2>0, <3>1, <3>2
    <3>4. \A m \in begun' \union held' : m <= cursor'
      BY <1>0, <2>0, <3>2
    <3>5. \A u \in Thread : Fresh(u)'
      BY <2>0, <3>2
    <3>6. QED
      BY <2>0, <3>3, <3>4, <3>5
  <2>5. CASE Return(t)
    <3>1. UNCHANGED <<held, begun, twice>> /\ Hand(t)
      BY <2>5 DEF Return, End
    <3>2. \A u \in Thread : Fresh(u)'
      BY <2>0, <2>a, <3>1
    <3>3. QED
      BY <2>0, <3>1, <3>2
  <2>6. QED
    BY <1>4, <2>1, <2>2, <2>3, <2>4, <2>5 DEF Handle
<1>5. CASE TimerFlush \/ Close
  <2>1. /\ begun' = begun \union held /\ held' = {}
        /\ twice' = (twice \/ held \intersect begun # {})
        /\ UNCHANGED <<drain, main, cursor, urgent>>
        /\ \A a \in Actor : waking[a] = {}
    BY <1>0, <1>5 DEF TimerFlush, Close, Flush, Begin, vars, memory
  <2>2. \A t \in Thread : drain[t].phase = "hand" => drain[t].next \notin begun
    BY <1>0, <2>1
  <2>3. QED
    BY <1>0, <2>1, <2>2
<1>6. CASE TimerReturn \/ CloseReturn
  <2>1. UNCHANGED <<drain, main, cursor, urgent, held, begun, twice>>
    BY <1>6 DEF TimerReturn, CloseReturn, End, vars, memory
  <2>2. \A t \in Thread : drain[t].phase = "hand" => waking'[t] = waking[t]
    <3>1. CASE TimerReturn
      BY <1>0, <3>1 DEF TimerReturn, End
    <3>2. CASE CloseReturn
      <4>1. drain["main"].phase # "hand"
        BY <1>0, <1>a, <3>2 DEF CloseReturn, Gated, MainDrains
      <4>2. waking' = [waking EXCEPT !["main"] = {}]
        BY <3>2 DEF CloseReturn, End
      <4>3. QED
        BY <1>0, <4>1, <4>2
    <3>3. QED
      BY <1>6, <3>1, <3>2
  <2>3. QED
    BY <2>1, <2>2
<1>7. CASE Term
  <2>1. UNCHANGED <<cursor, held, begun, twice>> /\ main' # "killed"
    BY <1>7 DEF Term, Terminate, memory
  <2>2. \A t \in Thread : \/ drain'[t].phase = "idle"
                          \/ drain'[t] = drain[t] /\ t # "main"
    BY <1>0, <1>7 DEF Term, Terminate, EndDrain, NoDrain, OneDrain
  <2>3. \A t \in Thread : t # "main" => waking'[t] = waking[t]
    BY <1>0, <1>7 DEF Term
  <2>4. urgent' => urgent
    BY <1>7 DEF Term
  <2>5. QED
    BY <2>1, <2>2, <2>3, <2>4
<1>8. CASE Exit \/ HardKill
  <2>1. begun' = {} /\ held' = {} /\ twice' = twice /\ drain' = [t \in Thread |-> NoDrain]
    BY <1>8 DEF Exit, HardKill, EndProcess, Kill
  <2>2. QED
    BY <2>1 DEF NoDrain
<1>9. CASE UNCHANGED pathVars
  BY <1>9 DEF pathVars, wake, trace, vars, memory
<1>10. QED
  BY <1>1, <1>2, <1>3, <1>4, <1>5, <1>6, <1>7, <1>8, <1>9 DEF PathNext

(* No process announces a delivery twice, although three threads flush one *)
(* buffer and an urgent message overtakes nothing: where the server sends  *)
(* no old pages, each wake command carries deliveries of its own.          *)
THEOREM OnceCorrect == PathSpec => []WokenOnce
<1>1. PathInit => OnceEach
  BY DEF PathInit, Init, OnceEach, Fresh, NoDrain
<1>2. Spec => [](TypeOK /\ OneDrain /\ MainDrains /\ Leaving)
  BY TypeCorrect, ExclusionCorrect, MainThread, OrderAlways, PTL
<1>3. PathSpec => [](TypeOK /\ OneDrain /\ MainDrains /\ Leaving /\ Gated)
  BY <1>2, PathIsAWatcher, GatedAlways, PTL
<1>4. (StalePages \/ OnceEach) => WokenOnce
  BY DEF OnceEach, WokenOnce
<1>5. /\ TypeOK /\ OneDrain /\ MainDrains /\ Leaving /\ Gated
      /\ (StalePages \/ OnceEach) /\ [PathNext]_pathVars
      => (StalePages \/ OnceEach)'
  BY OnceEachStep
<1>6. QED
  BY <1>1, <1>3, <1>4, <1>5, PTL DEF PathSpec
=============================================================================
